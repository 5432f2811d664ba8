-------------------------------- MODULE Cluster --------------------------------
(***************************************************************************)
(* The k3s provider's Cluster (internal/controller/providers/k3s): create, *)
(* converge, delete and the rolling upgrade, over VMs (module ProxmoxVM),  *)
(* k3s installs and agents.                                                *)
(*                                                                         *)
(* A Cluster has no transaction.  Its operation is a long list of steps on *)
(* several machines and files, and can fail, be canceled or die with the   *)
(* process after each of them; a later operation then starts from what is  *)
(* left.  Only one operation of a Cluster runs at a time (Submit), but the *)
(* upgrade is a runtime action, which nothing keeps apart from operations. *)
(* The steps of an operation are the list todo; each is applied serially,  *)
(* the default of applyConcurrency.                                        *)
(***************************************************************************)
EXTENDS Naturals, FiniteSets, Sequences, Functions, ProxmoxVM

CONSTANTS
  CPs,         \* names of control planes by index
  Workers,     \* names of workers by index
  Scenarios    \* bounds to explore, each a record of Bounds

\* The size is that of the pool; allow and force are the two annotations.
Manifest == [cps : 1..Len(CPs), workers : 0..Len(Workers), cpSize : Size, workerSize : Size,
             allow : BOOLEAN, force : BOOLEAN]

Bounds == [manifests : SUBSET Manifest, ops : Nat, faults : Nat, lost : Nat,
           upgrades : Nat, overlap : BOOLEAN]

Version == {1, 2}   \* the manifests' and a newer one; 0 is unknown
K3s == [gen : Nat, ver : Version, up : BOOLEAN]
Phase == {"Provisioning", "Ready"}
Children == {s \in UNION {[1..k -> Node] : k \in 0..Cardinality(Node)} : IsInjective(s)}
State == [phase : Phase, children : Children]
Step == [do : {"vm", "start", "row", "stub", "install", "installed", "ca", "agent",
               "agentInstalled", "ready", "delAgent", "agentFile", "delNode", "nodeFile",
               "delVM", "delRow", "rewrite", "stuck", "destroy", "files", "gone"},
         node : Node \cup {None}, join : Node \cup {None}]
Oper == [type : {"create", "converge", "delete"}, m : Manifest \cup {None}, todo : Seq(Step),
         listed : Children, sound : BOOLEAN, gap : BOOLEAN]
\* died: the nodes whose service did not stay up after its restart; calm: see
\* UpgradeStarts (both history).
Rolling == [todo : Seq([node : Node, ver : 0..2]), at : {"next", "swapped", "restarting", "check"},
            died : SUBSET Node, calm : BOOLEAN]

ASSUME ClusterConstants ==
  /\ CPs \in Seq(Node) /\ Workers \in Seq(Node) /\ Len(CPs) > 0
  /\ Node = Range(CPs) \cup Range(Workers)
  /\ Cardinality(Node) = Len(CPs) + Len(Workers)
  /\ None \notin Node \cup Size \cup VM \cup K3s \cup State \cup Oper \cup Rolling
  /\ Scenarios \subseteq Bounds

VARIABLES
  k3s,        \* node -> k3s on its disk: the cluster it belongs to, the
              \* version of the binary and whether the service runs
  nodeState,  \* node -> the cluster in its K3sNode state file, 0 for no file
  agent,      \* node -> openctl-k3s-agent is installed on its disk
  agentState, \* node -> its AgentInstall state file exists
  ca,         \* the CA bundle exists
  state,      \* the cluster's state file
  gen,        \* clusters initialised so far
  op,         \* the operation that runs, or has just succeeded
  upgrade,    \* the rolling upgrade that runs
  left,       \* what remains of the scenario's bounds
  unlisted    \* VMs that the state file has yet to list, or listed once (history)

nodeVars == <<k3s, nodeState, agent, agentState>>
vars == <<vmVars, nodeVars, ca, state, gen, op, upgrade, left, unlisted>>

\* What is on a disk goes with the VM.
TypeOK ==
  /\ VMTypeOK
  /\ k3s \in [Node -> K3s \cup {None}] /\ nodeState \in [Node -> Nat]
  /\ agent \in [Node -> BOOLEAN] /\ agentState \in [Node -> BOOLEAN]
  /\ \A n \in Node : /\ k3s[n] # None => vm[n] # None /\ k3s[n].gen \in 1..gen
                     /\ agent[n] => vm[n] # None
                     /\ nodeState[n] <= gen
  /\ ca \in BOOLEAN /\ gen \in Nat
  /\ state \in State \cup {None}
  /\ op \in Oper \cup {None}
  /\ upgrade \in Rolling \cup {None}
  /\ left \in Bounds
  /\ unlisted \subseteq Node

Init ==
  /\ VMInit
  /\ k3s = [n \in Node |-> None] /\ nodeState = [n \in Node |-> 0]
  /\ agent = [n \in Node |-> FALSE] /\ agentState = [n \in Node |-> FALSE]
  /\ ca = FALSE /\ state = None /\ gen = 0
  /\ op = None /\ upgrade = None
  /\ left \in Scenarios
  /\ unlisted = {}

Spend(b) == left[b] > 0 /\ left' = [left EXCEPT ![b] = @ - 1]

IsCP(n) == n \in Range(CPs)
Up(n) == Runs(n) /\ k3s[n] # None /\ k3s[n].up
Healthy(n) == Up(n) /\ agent[n]

------------------------------------------------------------------------------
(* What an apply plans *)

\* NodeNames, and the size each node gets.
NodeNames(m) == SubSeq(CPs, 1, m.cps) \o SubSeq(Workers, 1, m.workers)
desiredSizeFor(m, n) == IF IsCP(n) THEN m.cpSize ELSE m.workerSize

Do(what, n, join) == [do |-> what, node |-> n, join |-> join]
Each(what, nodes, join) == [i \in DOMAIN nodes |-> Do(what, nodes[i], join)]

\* applyClusterViaPlan: the serial order of its graph.  The first control
\* plane initialises the cluster and the others join it.
applyClusterViaPlan(m) ==
  LET nodes == NodeNames(m)
  IN  Each("vm", nodes, None)
      \o <<Do("stub", None, None), Do("install", CPs[1], None)>>
      \o Each("install", Tail(nodes), CPs[1])
      \o <<Do("ca", None, None)>>
      \o Each("agent", nodes, None)
      \o <<Do("ready", None, None)>>

\* The nodes of a list that are in S, in the order of the list.
Those(nodes, S) ==
  LET at == {i \in DOMAIN nodes : nodes[i] \in S}
  IN  [k \in 1..Cardinality(at) |->
         nodes[CHOOSE i \in at : Cardinality({j \in at : j <= i}) = k]]

\* The k steps of the first node, then those of the second, and so on.
OneByOne(k, steps(_), nodes) ==
  [i \in 1..(k * Len(nodes)) |-> steps(nodes[((i - 1) \div k) + 1])[((i - 1) % k) + 1]]

\* deleteNodeChildren: AgentInstall, K3sNode, VM.
deleteNodeChildren(n) == <<Do("delAgent", n, None), Do("delNode", n, None), Do("delVM", n, None)>>
removeNodes(nodes) == OneByOne(3, deleteNodeChildren, nodes)

\* computeChangePlan, against the children that the state file lists.
Removed(m, nodes) == Those(nodes, Range(state.children) \ Range(NodeNames(m)))
Added(m, nodes)   == Those(nodes, Range(NodeNames(m)) \ Range(state.children))
removeWorkers(m) == Removed(m, Workers)
removeCPs(m) == Removed(m, CPs)
adds(m) == Added(m, CPs) \o Added(m, Workers)
removed(m) == Range(removeCPs(m) \o removeWorkers(m))

\* computeSpecRespecs: the listed nodes that stay, can be read, and have
\* another size.  unseen are those whose Get failed.
computeSpecRespecs(m, unseen) ==
  Those(state.children, {n \in Node : /\ n \notin removed(m) \cup unseen
                                      /\ vm[n] # None /\ vm[n].size # desiredSizeFor(m, n)})

\* survivingControlPlane: the first listed one that is neither removed nor n.
survivingControlPlane(m, n) ==
  LET cps == Those(CPs, (Range(state.children) \ removed(m)) \ {n})
  IN  IF cps = <<>> THEN None ELSE Head(cps)

\* addNodesViaPlan: all VMs, then all installs, then all agents.
addNodesViaPlan(m) ==
  LET nodes == adds(m)
      join == survivingControlPlane(m, None)
  IN  IF nodes = <<>> THEN <<>>
      ELSE IF join = None THEN <<Do("stuck", None, None)>>
      ELSE Each("vm", nodes, None) \o Each("install", nodes, join) \o Each("agent", nodes, None)

\* respecNodesViaPlan: one node after the other, destroyed and recreated.  Stuck
\* at the first one that has nowhere to join.
respecNode(m, n) ==
  LET join == survivingControlPlane(m, n)
  IN  IF join = None THEN [i \in 1..6 |-> Do("stuck", None, None)]
      ELSE deleteNodeChildren(n) \o <<Do("vm", n, None), Do("install", n, join), Do("agent", n, None)>>

respecNodesViaPlan(m, respecs) == OneByOne(6, LAMBDA n : respecNode(m, n), respecs)

applyExisting(m, respecs) ==
  removeNodes(removeWorkers(m) \o removeCPs(m))
  \o addNodesViaPlan(m)
  \o respecNodesViaPlan(m, respecs)
  \o <<Do("rewrite", None, None)>>

------------------------------------------------------------------------------
(* The gates of applyExisting *)

Have(nodes) == Cardinality(Range(nodes) \cap Range(state.children))

\* Removing all control planes, more than quorum allows, or the last worker.
FaultyCatastrophicReason(m) ==
  \/ Have(CPs) - Len(removeCPs(m)) <= 0
  \/ Have(CPs) > 1 /\ Have(CPs) - Len(removeCPs(m)) < (Have(CPs) + 1) \div 2
  \/ Have(Workers) > 0 /\ Have(Workers) - Len(removeWorkers(m)) <= 0
catastrophicReason(m) ==
  \/ Have(CPs) - Len(removeCPs(m)) <= 0
  \/ Have(CPs) > 1 /\ Have(CPs) - Len(removeCPs(m)) < (Have(CPs) + 2) \div 2
  \/ Have(Workers) > 0 /\ Have(Workers) - Len(removeWorkers(m)) <= 0

\* Respeccing the only control plane or the only worker.
catastrophicRespecReason(respecs) ==
  \/ (\E n \in Range(respecs) : IsCP(n)) /\ Have(CPs) <= 1
  \/ (\E n \in Range(respecs) : ~IsCP(n)) /\ Have(Workers) <= 1

Gated(m, respecs) ==
  /\ removed(m) # {} \/ respecs # <<>> => m.allow
  /\ catastrophicReason(m) \/ catastrophicRespecReason(respecs) => m.force

------------------------------------------------------------------------------
(* Operations begin *)

Idle == op # None => op.todo = <<>>
Ready == state # None /\ state.phase = "Ready"

\* The files tell the truth about the machines.
FilesTrue ==
  \A n \in Node :
    /\ nodeState[n] # 0 => Up(n) /\ k3s[n].gen = nodeState[n]
    /\ agentState[n] => agent[n]
    /\ row[n] # None /\ vm[n] # None => row[n] = vm[n].size

\* Nothing is left over from another cluster: every k3s belongs to the cluster
\* of the first control plane.
OneCluster(nodes) ==
  \A n \in nodes : k3s[n] # None => k3s[CPs[1]] # None /\ k3s[n].gen = k3s[CPs[1]].gen

Sound ==
  /\ upgrade = None /\ FilesTrue /\ OneCluster(Node)
  /\ Ready => \A n \in Range(state.children) : Healthy(n) /\ nodeState[n] # 0

\* The two convergences during which the recreation of a control plane leaves
\* no majority although no gate objects: of two control planes, and of the few
\* that remain when control planes are removed at the same time.
Gap(m, respecs) ==
  LET voters == Have(CPs) + Len(Added(m, CPs))
  IN  /\ \E n \in Range(respecs) : IsCP(n)
      /\ 2 * (voters - Len(removeCPs(m)) - 1) <= voters

MayBegin == Idle /\ (upgrade = None \/ left.overlap)

Begins(type, m, todo, sound, gap) ==
  /\ op' = [type |-> type, m |-> m, todo |-> todo, gap |-> gap,
            listed |-> IF state = None THEN <<>> ELSE state.children, sound |-> sound]
  /\ upgrade' = IF upgrade = None THEN None ELSE [upgrade EXCEPT !.calm = FALSE]
  /\ UNCHANGED <<vmVars, nodeVars, ca, state, gen, unlisted>>

\* No state file, or one that an unfinished creation has left.
Create(m) ==
  /\ MayBegin /\ ~Ready /\ Spend("ops")
  /\ Begins("create", m, applyClusterViaPlan(m), Sound, FALSE)

\* Without a structural diff or spec drift the apply succeeds at once.  A
\* refused apply changes nothing, and has no step here.
Converge(m) ==
  /\ MayBegin /\ Ready
  /\ \E unseen \in {{}} \cup {{n} : n \in Range(state.children)} :
       LET respecs == computeSpecRespecs(m, unseen)
           changes == removed(m) # {} \/ adds(m) # <<>> \/ respecs # <<>>
       IN  /\ left.ops > 0 /\ (unseen # {} => left.faults > 0)
           /\ left' = [left EXCEPT !.ops = @ - 1, !.faults = IF unseen = {} THEN @ ELSE @ - 1]
           /\ changes => Gated(m, respecs)
           /\ Begins("converge", m, IF changes THEN applyExisting(m, respecs) ELSE <<>>,
                     Sound /\ unseen = {}, Gap(m, respecs))

\* Delete walks the listed children, then removes the files.
deleteListed(nodes) ==
  OneByOne(2, LAMBDA n : <<Do("destroy", n, None), Do("files", n, None)>>, nodes)
  \o <<Do("gone", None, None)>>
Delete ==
  /\ MayBegin /\ state # None /\ Spend("ops")
  /\ Begins("delete", None, deleteListed(state.children), FALSE, FALSE)

\* An error, a cancellation or the end of the process: what was done stays.
Fails ==
  /\ ~Idle
  /\ op' = None
  /\ UNCHANGED <<vmVars, nodeVars, ca, state, gen, upgrade, left, unlisted>>

------------------------------------------------------------------------------
(* The steps of an operation *)

At(what, n) == op # None /\ op.todo # <<>> /\ Head(op.todo).do = what /\ Head(op.todo).node = n
Join == Head(op.todo).join
Wanted(n) == desiredSizeFor(op.m, n)

\* The step is over, or goes on as another one.
Done == op' = [op EXCEPT !.todo = Tail(@)]
GoesOn(what) == op' = [op EXCEPT !.todo[1].do = what]

\* ApplyChild on a VirtualMachine.
VMCached(n) ==
  /\ At("vm", n) /\ CacheHit(n, Wanted(n))
  /\ Done
  /\ UNCHANGED <<vmVars, nodeVars, ca, state, gen, upgrade, left, unlisted>>

VMCreated(n) ==
  /\ At("vm", n) /\ createVM(n, Wanted(n))
  /\ GoesOn("start")
  /\ unlisted' = IF state # None /\ n \in Range(state.children) THEN unlisted ELSE unlisted \cup {n}
  /\ UNCHANGED <<nodeVars, ca, state, gen, upgrade, left>>

VMResized(n) ==
  /\ At("vm", n) /\ resizeVM(n, Wanted(n))
  /\ GoesOn("row")
  /\ UNCHANGED <<nodeVars, ca, state, gen, upgrade, left, unlisted>>

VMStarted(n) ==
  /\ At("start", n) /\ vm[n] # None
  /\ StartVM(n)
  /\ GoesOn("row")
  /\ UNCHANGED <<nodeVars, ca, state, gen, upgrade, left, unlisted>>

\* A row that cannot be saved is only logged.
VMSaved(n) ==
  /\ At("row", n)
  /\ \/ SaveRow(n, Wanted(n)) /\ UNCHANGED left
     \/ UNCHANGED vmVars /\ Spend("faults")
  /\ Done
  /\ UNCHANGED <<nodeVars, ca, state, gen, upgrade, unlisted>>

Write(phase, children) == state' = [phase |-> phase, children |-> children]

\* saveClusterStateStub replaces what an earlier, unfinished creation listed.
StubSaved ==
  /\ At("stub", None)
  /\ Write("Provisioning", NodeNames(op.m))
  /\ unlisted' = (unlisted \cup {n \in Range(op.listed) : vm[n] # None}) \ Range(NodeNames(op.m))
  /\ Done
  /\ UNCHANGED <<vmVars, nodeVars, ca, gen, upgrade, left>>

\* applyK3sNode: a node whose file says it is installed is left alone.
AlreadyInstalled(n) ==
  /\ At("install", n) /\ nodeState[n] # 0 /\ vm[n] # None
  /\ Done
  /\ UNCHANGED <<vmVars, nodeVars, ca, state, gen, upgrade, left, unlisted>>

\* The token of the node to join comes from its state file, or over SSH from
\* the node itself when it has none (setJoin); it must be that of the cluster
\* the node is in.
Joinable(c) == Up(c) /\ nodeState[c] \in {0, k3s[c].gen}

\* The installer keeps a cluster that it finds on the disk.
Installs(n, g) ==
  /\ At("install", n) /\ nodeState[n] = 0 /\ Runs(n)
  /\ k3s' = [k3s EXCEPT ![n] = [gen |-> IF @ = None THEN g ELSE @.gen, ver |-> 1, up |-> TRUE]]
  /\ GoesOn("installed")
  /\ UNCHANGED <<vmVars, nodeState, agent, agentState, ca, state, upgrade, left, unlisted>>

InstallFirst(n) ==
  /\ Installs(n, gen + 1) /\ Join = None
  /\ gen' = IF k3s[n] = None THEN gen + 1 ELSE gen

FaultyInstallAlone(n) ==
  /\ Installs(n, gen + 1) /\ Join # None
  /\ gen' = IF k3s[n] = None THEN gen + 1 ELSE gen
InstallJoining(n) ==
  /\ At("install", n) /\ Join # None /\ Joinable(Join)
  /\ Installs(n, k3s[Join].gen)
  /\ UNCHANGED gen

\* saveNodeState comes last.
NodeSaved(n) ==
  /\ At("installed", n) /\ k3s[n] # None
  /\ nodeState' = [nodeState EXCEPT ![n] = k3s[n].gen]
  /\ Done
  /\ UNCHANGED <<vmVars, k3s, agent, agentState, ca, state, gen, upgrade, left, unlisted>>

\* materializeClusterCABundle needs the state file of every node.
CASaved ==
  /\ At("ca", None) /\ \A n \in Range(NodeNames(op.m)) : nodeState[n] # 0
  /\ ca' = TRUE
  /\ Done
  /\ UNCHANGED <<vmVars, nodeVars, state, gen, upgrade, left, unlisted>>

\* applyAgentInstall waits for the VM's address, also to find its work done; with
\* static addresses it does not, and the VM may be stopped.
AgentAlready(n) ==
  /\ At("agent", n) /\ agentState[n]
  /\ Done
  /\ UNCHANGED <<vmVars, nodeVars, ca, state, gen, upgrade, left, unlisted>>

AgentInstalled(n) ==
  /\ At("agent", n) /\ Runs(n) /\ ~agentState[n] /\ ca
  /\ agent' = [agent EXCEPT ![n] = TRUE]
  /\ GoesOn("agentInstalled")
  /\ UNCHANGED <<vmVars, k3s, nodeState, agentState, ca, state, gen, upgrade, left, unlisted>>

AgentSaved(n) ==
  /\ At("agentInstalled", n)
  /\ agentState' = [agentState EXCEPT ![n] = TRUE]
  /\ Done
  /\ UNCHANGED <<vmVars, k3s, nodeState, agent, ca, state, gen, upgrade, left, unlisted>>

\* saveClusterStateFromChildren.
ReadySaved ==
  /\ At("ready", None) /\ nodeState[CPs[1]] # 0
  /\ Write("Ready", NodeNames(op.m))
  /\ unlisted' = unlisted \ Range(NodeNames(op.m))
  /\ Done
  /\ UNCHANGED <<vmVars, nodeVars, ca, gen, upgrade, left>>

\* rewriteState: the listed children that stay, and the added ones.
FaultyKeptOnly == Those(op.listed, Range(NodeNames(op.m)))
Kept == Those(op.listed, Range(NodeNames(op.m))) \o adds(op.m)

StateRewritten ==
  /\ At("rewrite", None)
  /\ Write("Ready", Kept)
  /\ unlisted' = unlisted \ Range(NodeNames(op.m))
  /\ Done
  /\ UNCHANGED <<vmVars, nodeVars, ca, gen, upgrade, left>>

\* deleteAgentInstall and deleteK3sNode: nothing without a state file; else a
\* best-effort uninstall, and then the file.
NothingToRemove(n) ==
  /\ \/ At("delAgent", n) /\ ~agentState[n]
     \/ At("delNode", n) /\ nodeState[n] = 0
  /\ Done
  /\ UNCHANGED <<vmVars, nodeVars, ca, state, gen, upgrade, left, unlisted>>

AgentUninstalled(n) ==
  /\ At("delAgent", n) /\ agentState[n]
  /\ \E done \in (IF Runs(n) THEN BOOLEAN ELSE {FALSE}) :
       agent' = [agent EXCEPT ![n] = @ /\ ~done]
  /\ GoesOn("agentFile")
  /\ UNCHANGED <<vmVars, k3s, nodeState, agentState, ca, state, gen, upgrade, left, unlisted>>

AgentForgotten(n) ==
  /\ At("agentFile", n)
  /\ agentState' = [agentState EXCEPT ![n] = FALSE]
  /\ Done
  /\ UNCHANGED <<vmVars, k3s, nodeState, agent, ca, state, gen, upgrade, left, unlisted>>

NodeUninstalled(n) ==
  /\ At("delNode", n) /\ nodeState[n] # 0
  /\ \/ k3s' = k3s
     \/ Runs(n) /\ k3s' = [k3s EXCEPT ![n] = None]
  /\ GoesOn("nodeFile")
  /\ UNCHANGED <<vmVars, nodeState, agent, agentState, ca, state, gen, upgrade, left, unlisted>>

NodeForgotten(n) ==
  /\ At("nodeFile", n)
  /\ nodeState' = [nodeState EXCEPT ![n] = 0]
  /\ Done
  /\ UNCHANGED <<vmVars, k3s, agent, agentState, ca, state, gen, upgrade, left, unlisted>>

\* The VM goes with what is on its disk.
Wiped(n) ==
  /\ k3s' = [k3s EXCEPT ![n] = None]
  /\ agent' = [agent EXCEPT ![n] = FALSE]
  /\ unlisted' = unlisted \ {n}
  /\ UNCHANGED <<nodeState, agentState>>

VMStopped(n) ==
  /\ At("delVM", n) \/ At("destroy", n)
  /\ StopVM(n)
  /\ UNCHANGED <<nodeVars, ca, state, gen, op, upgrade, left, unlisted>>

\* DeleteChild on a VirtualMachine, whose row goes next; a row that cannot be
\* removed is only logged.
VMDeleted(n) ==
  /\ At("delVM", n) /\ DeleteVM(n) /\ Wiped(n)
  /\ GoesOn("delRow")
  /\ UNCHANGED <<ca, state, gen, upgrade, left>>

RowDeleted(n) ==
  /\ At("delRow", n)
  /\ \/ DeleteRow(n) /\ UNCHANGED left
     \/ UNCHANGED vmVars /\ Spend("faults")
  /\ Done
  /\ UNCHANGED <<nodeVars, ca, state, gen, upgrade, unlisted>>

\* Delete calls the VM provider itself, and leaves the row.
VMDestroyed(n) ==
  /\ At("destroy", n) /\ DeleteVM(n) /\ Wiped(n)
  /\ Done
  /\ UNCHANGED <<ca, state, gen, upgrade, left>>

FilesRemoved(n) ==
  /\ At("files", n)
  /\ nodeState' = [nodeState EXCEPT ![n] = 0]
  /\ agentState' = [agentState EXCEPT ![n] = FALSE]
  /\ Done
  /\ UNCHANGED <<vmVars, k3s, agent, ca, state, gen, upgrade, left, unlisted>>

\* The state file, and then the directory with the CA bundle, go in one step.
StateRemoved ==
  /\ At("gone", None)
  /\ state' = None /\ ca' = FALSE
  /\ op' = None
  /\ UNCHANGED <<vmVars, nodeVars, gen, upgrade, left, unlisted>>

------------------------------------------------------------------------------
(* The rolling upgrade, and what happens outside *)

\* The agent answers: its Info reports the version of the binary on disk.
Answers(n) == Runs(n) /\ agent[n]
Health(n) == IF Answers(n) /\ k3s[n] # None THEN k3s[n].ver ELSE 0

\* upgradeOrder over enumerateUpgradeNodes: the listed nodes with a state file,
\* control planes first, with the versions of withCurrentVersions.
FaultyUpgradeOrder == Those(Workers \o CPs, {n \in Range(state.children) : nodeState[n] # 0})
upgradeOrder == Those(CPs \o Workers, {n \in Range(state.children) : nodeState[n] # 0})

\* No worker is ahead of a control plane.
ServersLead ==
  \A w \in Range(Workers), c \in Range(CPs) :
    {w, c} \subseteq Range(state.children) => k3s[w].ver <= k3s[c].ver

\* InvokeAction runs it beside operations.
UpgradeStarts ==
  /\ upgrade = None /\ state # None /\ ca /\ upgradeOrder # <<>>
  /\ Idle \/ left.overlap
  /\ upgrade' = [todo |-> [i \in DOMAIN upgradeOrder |->
                             [node |-> upgradeOrder[i], ver |-> Health(upgradeOrder[i])]],
                 at |-> "next", died |-> {},
                 calm |-> /\ Idle
                          /\ \A n \in Range(state.children) : Healthy(n) /\ nodeState[n] # 0
                          /\ ServersLead]
  /\ op' = IF op = None THEN None ELSE [op EXCEPT !.sound = FALSE]
  /\ Spend("upgrades")
  /\ UNCHANGED <<vmVars, nodeVars, ca, state, gen, unlisted>>

Upgrading(at) == upgrade # None /\ upgrade.at = at /\ upgrade.todo # <<>>
This == Head(upgrade.todo).node
NextNode == upgrade' = [upgrade EXCEPT !.todo = Tail(@), !.at = "next"]

UpgradeSkips ==
  /\ Upgrading("next") /\ Head(upgrade.todo).ver = 2
  /\ NextNode
  /\ UNCHANGED <<vmVars, nodeVars, ca, state, gen, op, left, unlisted>>

\* runUpgrade on the node: the binary is swapped while the service runs on.
UpgradeSwaps ==
  /\ Upgrading("next") /\ Head(upgrade.todo).ver # 2
  /\ Answers(This) /\ k3s[This] # None
  /\ k3s' = [k3s EXCEPT ![This].ver = 2]
  /\ upgrade' = [upgrade EXCEPT !.at = "swapped"]
  /\ UNCHANGED <<vmVars, nodeState, agent, agentState, ca, state, gen, op, left, unlisted>>

\* restart stops the service,
UpgradeStops ==
  /\ Upgrading("swapped") /\ k3s[This] # None
  /\ k3s' = [k3s EXCEPT ![This].up = FALSE]
  /\ upgrade' = [upgrade EXCEPT !.at = "restarting"]
  /\ UNCHANGED <<vmVars, nodeState, agent, agentState, ca, state, gen, op, left, unlisted>>

\* and starts it.  That restart returned no error does not tell whether the
\* service stays up.
UpgradeRestarts ==
  /\ Upgrading("restarting") /\ k3s[This] # None
  /\ \E stays \in BOOLEAN :
       /\ k3s' = [k3s EXCEPT ![This].up = stays]
       /\ upgrade' = [upgrade EXCEPT !.at = "check", !.died = IF stays THEN @ ELSE @ \cup {This}]
  /\ UNCHANGED <<vmVars, nodeState, agent, agentState, ca, state, gen, op, left, unlisted>>

\* The health gate, by what Info reports: the version of the binary on disk, not
\* the state of the service.
UpgradeChecks ==
  /\ Upgrading("check") /\ Health(This) = 2
  /\ NextNode
  /\ UNCHANGED <<vmVars, nodeVars, ca, state, gen, op, left, unlisted>>

\* Over, or halted: a call failed, the restart failed, the node does not
\* answer, the request was canceled or the process died.
UpgradeEnds ==
  /\ upgrade # None
  /\ upgrade' = None
  /\ UNCHANGED <<vmVars, nodeVars, ca, state, gen, op, left, unlisted>>

\* Somebody deletes a VM in Proxmox.
VMLost(n) ==
  /\ vm[n] # None
  /\ vm' = [vm EXCEPT ![n] = None]
  /\ Wiped(n)
  /\ op' = IF op = None THEN None ELSE [op EXCEPT !.sound = FALSE]
  /\ upgrade' = IF upgrade = None THEN None ELSE [upgrade EXCEPT !.calm = FALSE]
  /\ Spend("lost")
  /\ UNCHANGED <<row, ca, state, gen>>

NodeStep(n) ==
  \/ VMCached(n) \/ VMCreated(n) \/ VMResized(n) \/ VMStarted(n) \/ VMSaved(n)
  \/ AlreadyInstalled(n) \/ InstallFirst(n) \/ InstallJoining(n) \/ NodeSaved(n)
  \/ AgentAlready(n) \/ AgentInstalled(n) \/ AgentSaved(n)
  \/ NothingToRemove(n) \/ AgentUninstalled(n) \/ AgentForgotten(n)
  \/ NodeUninstalled(n) \/ NodeForgotten(n)
  \/ VMStopped(n) \/ VMDeleted(n) \/ RowDeleted(n) \/ VMDestroyed(n) \/ FilesRemoved(n)
  \/ VMLost(n)

Next ==
  \/ \E m \in left.manifests : Create(m) \/ Converge(m)
  \/ Delete \/ Fails
  \/ StubSaved \/ CASaved \/ ReadySaved \/ StateRewritten \/ StateRemoved
  \/ \E n \in Node : NodeStep(n)
  \/ UpgradeStarts \/ UpgradeSkips \/ UpgradeSwaps \/ UpgradeStops \/ UpgradeRestarts
  \/ UpgradeChecks \/ UpgradeEnds

ClusterSpec == Init /\ [][Next]_vars

------------------------------------------------------------------------------
(* Properties *)

\* "Cluster apply is `succeeded` only when all VMs are running, k3s is
\* responding, and agents are reachable" (CONTROLLER.md): when an apply has
\* succeeded that began with files that told the truth, all wanted nodes run
\* in one cluster, at the wanted size, with an agent, and the state file lists
\* exactly them, whatever failed operations came before.  (From files that do
\* not, it succeeds without: see the hazards of applyExisting.)
Converged ==
  op # None /\ op.type # "delete" /\ op.todo = <<>> /\ op.sound =>
    /\ Ready /\ Range(state.children) = Range(NodeNames(op.m))
    /\ \A n \in Range(NodeNames(op.m)) :
         Healthy(n) /\ nodeState[n] # 0 /\ vm[n].size = Wanted(n)
    /\ OneCluster(Range(NodeNames(op.m)))

\* The guardrails: a convergence that was not forced, and began with a healthy
\* cluster, keeps a majority of the etcd members up at every step, through
\* removals, additions and recreations, outside the two cases of Gap.
QuorumKept ==
  op # None /\ op.type = "converge" /\ op.sound /\ ~op.m.force /\ ~op.gap =>
    LET voters == {c \in Range(CPs) : c \in Range(op.listed) \/ nodeState[c] # 0}
    IN  2 * Cardinality({c \in voters : Up(c)}) > Cardinality(voters)

\* "So Cluster.Delete can find + clean up the child VMs": every VM is listed in
\* the state file, unless the operation that created it has yet to write its
\* list, or ended before that, or a repeated creation of a smaller cluster has
\* replaced the list.
DeleteFindsAll ==
  \A n \in Node : vm[n] # None =>
    n \in unlisted \/ (state # None /\ n \in Range(state.children))

\* "Serial CP upgrade preserves etcd quorum", as far as the code sees to it: an
\* upgrade that began with all listed nodes healthy and no worker ahead, and
\* beside which no operation ran, takes one node down at a time.  A node that is
\* down is the one whose restart is awaited, or one whose service did not stay up
\* after a restart that reported success (which the gate does not notice, see
\* UpgradeDoesNotMarchOn), and no worker gets the new version before every
\* control plane has it.
UpgradeOneAtATime ==
  upgrade # None /\ upgrade.calm =>
    /\ \A n \in Range(state.children) :
         Up(n) \/ n \in upgrade.died \/ (Upgrading("restarting") /\ n = This)
    /\ ServersLead

------------------------------------------------------------------------------
(* What documents and comments say and the code does not keep; each has a  *)
(* configuration, named after it, with which TLC refutes it.               *)

\* docs/k3s-rolling-upgrade.md: "waiting for each to rejoin healthy", "a node that
\* fails to come back healthy halts the upgrade rather than marching on and
\* taking down quorum", and re-running "continues from where it stopped": an
\* upgrade never takes a control plane down while another one that it has passed
\* is down.  The gate looks at the version of the binary on disk only.
UpgradeDoesNotMarchOn ==
  Ready /\ Upgrading("restarting") /\ IsCP(This) =>
    \A c \in Range(CPs) : c \in Range(state.children) /\ c # This => Up(c)
===============================================================================
