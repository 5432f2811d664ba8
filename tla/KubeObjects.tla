------------------------------ MODULE KubeObjects ------------------------------
(***************************************************************************)
(* One resource of the stateful k8s plugin (plugins/k8s): a Manifest or    *)
(* Kustomize (a set of objects), a Platform (a set of Helm releases) or a  *)
(* HelmRelease.  What it has put into which cluster is known only to the   *)
(* state blob that the plugin returns and the controller keeps for it      *)
(* (providers/external, providerstate).                                    *)
(*                                                                         *)
(* The dispatcher runs one operation of the resource at a time; drift      *)
(* checks, watches and the UI call Get meanwhile.  Each call loads the     *)
(* blob, sends it along, and may save the blob it gets back.  The plugin   *)
(* serves one request after the other and does not learn that a caller has *)
(* given up.                                                               *)
(***************************************************************************)
EXTENDS Naturals, Sequences, FiniteSets

CONSTANTS
  Item,       \* objects of a manifest, components of a platform
  Cluster, Namespace,
  Api,        \* the API versions by which an object may be named
  Specs,      \* kind -> the specs of a resource of that kind
  Getter,     \* goroutines that may be inside Get at the same time
  None,
  Scenarios   \* bounds to explore, each a record of Bounds

Kind == {"objects", "platform", "helm"}
Spec == [cluster : Cluster, ns : UNION {[S -> Namespace] : S \in SUBSET Item}, api : [Item -> Api]]
Bounds == [kind : Kind, ops : Nat, gets : Nat, cancels : Nat, failures : Nat, stops : Nat]

\* The blob says where each item is: it has the shape of a spec.
Blob == Spec

\* Where an item is: the cluster, the namespace and its name there.  The API
\* version it was named by is no part of that: the cluster serves one object
\* under each of them.
Place == Cluster \X Namespace \X Item
Places(b) == {<<b.cluster, b.ns[i], i>> : i \in DOMAIN b.ns}
Recorded(b) == IF b = None THEN {} ELSE Places(b)

Request == [type : {"apply", "get", "delete"}, spec : Spec \cup {None},
            state : Blob \cup {None}, from : Getter \cup {"op", "nobody"}]
Oper == [type : {"apply", "delete"}, spec : Spec \cup {None},
         at : {"starts", "loaded", "sent", "answered"},
         prior : Blob \cup {None}, blob : Blob \cup {None}]
GetCall == [at : {"loaded", "sent", "answered"}, blob : Blob \cup {None}]
Work == [req : Request, place : SUBSET Place, remove : SUBSET Place]

ASSUME KubeConstants ==
  /\ \A k \in Kind : Specs[k] \subseteq Spec
  /\ \A s \in Specs["helm"] : Cardinality(DOMAIN s.ns) = 1
  /\ \A s \in Specs["objects"] : DOMAIN s.ns # {}
  /\ None \notin Spec \cup Getter \cup Oper \cup GetCall \cup Work
  /\ {"op", "nobody"} \cap Getter = {} /\ Scenarios \subseteq Bounds

VARIABLES
  things,  \* place -> the spec that last wrote it, None where nothing is
  state,   \* the row of provider_state
  op,      \* the operation in progress, as seen by the adapter
  get,     \* getter -> its call
  queue,   \* requests on their way to the plugin
  work,    \* the request that the plugin works on
  ghost,   \* what the plugin of a controller that was killed still works on
  left,    \* what remains of the scenario's bounds
  last,    \* the operation that succeeded last, None after another (history)
  astray,  \* places that no blob is sure to list (history)
  haunted  \* the ghost has acted since an operation's request was taken (history)

vars == <<things, state, op, get, queue, work, ghost, left, last, astray, haunted>>

TypeOK ==
  /\ things \in [Place -> Spec \cup {None}]
  /\ state \in Blob \cup {None}
  /\ op \in Oper \cup {None}
  /\ get \in [Getter -> GetCall \cup {None}]
  /\ queue \in Seq(Request)
  /\ work \in Work \cup {None} /\ ghost \in Work \cup {None}
  /\ left \in Bounds
  /\ last \in Oper \cup {None}
  /\ astray \subseteq Place /\ haunted \in BOOLEAN

Init ==
  /\ things = [x \in Place |-> None]
  /\ state = None /\ op = None /\ get = [g \in Getter |-> None]
  /\ queue = <<>> /\ work = None /\ ghost = None
  /\ left \in Scenarios
  /\ last = None /\ astray = {} /\ haunted = FALSE

Spend(b) == left[b] > 0 /\ left' = [left EXCEPT ![b] = @ - 1]
Present == {x \in Place : things[x] # None}

------------------------------------------------------------------------------
(* The adapter: Apply, Delete and Get of providers/external *)

OpStarts(type, s) ==
  /\ op = None
  /\ op' = [type |-> type, spec |-> s, at |-> "starts", prior |-> None, blob |-> None]
  /\ last' = None
  /\ Spend("ops")
  /\ UNCHANGED <<things, state, get, queue, work, ghost, astray, haunted>>

OpLoads ==
  /\ op # None /\ op.at = "starts"
  /\ op' = [op EXCEPT !.at = "loaded", !.prior = state]
  /\ UNCHANGED <<things, state, get, queue, work, ghost, left, last, astray, haunted>>

OpSends ==
  /\ op # None /\ op.at = "loaded"
  /\ queue' = Append(queue, [type |-> op.type, spec |-> op.spec, state |-> op.prior, from |-> "op"])
  /\ op' = [op EXCEPT !.at = "sent"]
  /\ UNCHANGED <<things, state, get, work, ghost, left, last, astray, haunted>>

\* SaveState or DeleteState.
FaultySavedState(o) == IF o.type = "apply" /\ state # None THEN state ELSE o.blob
SavedState(o) == IF o.type = "delete" THEN None ELSE o.blob

OpSaves ==
  /\ op # None /\ op.at = "answered"
  /\ state' = SavedState(op)
  /\ last' = op /\ op' = None
  /\ UNCHANGED <<things, get, queue, work, ghost, left, astray, haunted>>

GetLoads(g) ==
  /\ get[g] = None
  /\ get' = [get EXCEPT ![g] = [at |-> "loaded", blob |-> state]]
  /\ Spend("gets")
  /\ UNCHANGED <<things, state, op, queue, work, ghost, last, astray, haunted>>

GetSends(g) ==
  /\ get[g] # None /\ get[g].at = "loaded"
  /\ queue' = Append(queue, [type |-> "get", spec |-> None, state |-> get[g].blob, from |-> g])
  /\ get' = [get EXCEPT ![g].at = "sent"]
  /\ UNCHANGED <<things, state, op, work, ghost, left, last, astray, haunted>>

\* "Persist refreshed state": whatever was stored since the load is replaced.
GetSaves(g) ==
  /\ get[g] # None /\ get[g].at = "answered"
  /\ state' = get[g].blob
  /\ get' = [get EXCEPT ![g] = None]
  /\ astray' = IF state = get[g].blob THEN astray
               ELSE astray \cup (Present \ Recorded(get[g].blob))
  /\ UNCHANGED <<things, op, queue, work, ghost, left, last, haunted>>

\* A caller that gives up leaves its request in the pipe or in the plugin.
Forsaken(r, f) == IF r.from = f THEN [r EXCEPT !.from = "nobody"] ELSE r
Abandon(f) ==
  /\ queue' = [k \in DOMAIN queue |-> Forsaken(queue[k], f)]
  /\ work' = IF work = None THEN None ELSE [work EXCEPT !.req = Forsaken(@, f)]

\* What an apply wants, and may have placed, is listed by nobody once its
\* result is lost.
Lost(o) == IF o # None /\ o.type = "apply" /\ o.at \in {"sent", "answered"}
           THEN Places(o.spec) ELSE {}

OpCanceled ==
  /\ op # None
  /\ Abandon("op")
  /\ op' = None
  /\ astray' = astray \cup Lost(op)
  /\ Spend("cancels")
  /\ UNCHANGED <<things, state, get, ghost, last, haunted>>

GetCanceled(g) ==
  /\ get[g] # None
  /\ Abandon(g)
  /\ get' = [get EXCEPT ![g] = None]
  /\ Spend("cancels")
  /\ UNCHANGED <<things, state, op, ghost, last, astray, haunted>>

------------------------------------------------------------------------------
(* The plugin: applyObjectSet, applyPlatform, applyHelmRelease and the rest *)

\* prunedRefs, prunedReleases: what is gone from the set goes, from the cluster
\* of the new spec.  An object is known by its namespace, its name and the API
\* version that named it (objectRef.id), a release of a platform by its
\* component; a HelmRelease is not compared with its past.
FaultyPruned(spec, prior) ==
  IF prior = None THEN {} ELSE {<<spec.cluster, prior.ns[i], i>> : i \in DOMAIN prior.ns}
Kept(i, spec, prior) ==
  /\ i \in DOMAIN spec.ns
  /\ left.kind = "objects" => spec.ns[i] = prior.ns[i] /\ spec.api[i] = prior.api[i]
Pruned(spec, prior) ==
  IF prior = None \/ left.kind = "helm" THEN {}
  ELSE {<<spec.cluster, prior.ns[i], i>> : i \in {j \in DOMAIN prior.ns : ~Kept(j, spec, prior)}}

Work0(r) ==
  [req |-> r,
   place |-> IF r.type = "apply" THEN Places(r.spec) ELSE {},
   remove |-> CASE r.type = "apply"  -> Pruned(r.spec, r.state)
                [] r.type = "delete" -> Recorded(r.state)
                [] OTHER             -> {}]

\* An apply that moves an item to another namespace or cluster, and one that
\* prunes in another cluster, leaves what was there.
Moved(r) ==
  IF r.type = "apply"
  THEN Recorded(r.state) \ (Places(r.spec) \cup Pruned(r.spec, r.state))
  ELSE {}

PluginTakes ==
  /\ work = None /\ queue # <<>>
  /\ work' = Work0(Head(queue))
  /\ queue' = Tail(queue)
  /\ haunted' = (haunted /\ Head(queue).from # "op")
  /\ astray' = astray \cup Moved(Head(queue))
  /\ UNCHANGED <<things, state, op, get, ghost, left, last>>

\* Items are applied one by one, then removed one by one; an item that is
\* already gone is no error.  (In the order of the set; any order here.)
Does(w, x) ==
  /\ IF w.place # {} THEN x \in w.place ELSE x \in w.remove
  /\ things' = [things EXCEPT ![x] = IF w.place # {} THEN w.req.spec ELSE None]

Done(w, x) == [w EXCEPT !.place = @ \ {x}, !.remove = IF w.place # {} THEN @ ELSE @ \ {x}]

PluginSteps(x) ==
  /\ work # None /\ Does(work, x)
  /\ work' = Done(work, x)
  /\ UNCHANGED <<state, op, get, queue, ghost, left, last, astray, haunted>>

\* getObjectSet, getPlatform, getHelmRelease: NotFound without a blob or when
\* nothing of it is there; else the blob comes back as it came.
Found(r) == r.state # None /\ Recorded(r.state) \cap Present # {}

PluginReplies ==
  /\ work # None /\ work.place = {} /\ work.remove = {}
  /\ LET r == work.req
     IN /\ op' = IF r.from = "op"
                 THEN [op EXCEPT !.at = "answered", !.blob = r.spec] ELSE op
        /\ get' = [g \in Getter |->
                     IF r.from # g THEN get[g]
                     ELSE IF Found(r) THEN [at |-> "answered", blob |-> r.state] ELSE None]
  /\ work' = None
  /\ UNCHANGED <<things, state, queue, ghost, left, last, astray, haunted>>

\* A request fails at any step: no state comes back, what was done stays.
PluginFails ==
  /\ work # None
  /\ op' = IF work.req.from = "op" THEN None ELSE op
  /\ get' = [g \in Getter |-> IF work.req.from = g THEN None ELSE get[g]]
  /\ astray' = IF work.req.from = "op" THEN astray \cup Lost(op) ELSE astray
  /\ work' = None
  /\ Spend("failures")
  /\ UNCHANGED <<things, state, queue, ghost, last, haunted>>

------------------------------------------------------------------------------
(* Process life *)

\* The controller or the plugin dies, and the controller starts again with a
\* new plugin.  A plugin that has lost its controller finishes the request at
\* hand (it ends on the broken pipe when it replies); the others are dropped.
Restarts ==
  /\ Spend("stops")
  /\ ghost' \in {None, work}
  /\ work' = None /\ queue' = <<>>
  /\ op' = None /\ get' = [g \in Getter |-> None]
  /\ astray' = astray \cup Lost(op)
  /\ UNCHANGED <<things, state, last, haunted>>

GhostSteps(x) ==
  /\ ghost # None /\ Does(ghost, x)
  /\ ghost' = Done(ghost, x)
  /\ haunted' = TRUE
  /\ UNCHANGED <<state, op, get, queue, work, left, last, astray>>

GhostEnds ==
  /\ ghost # None /\ ghost' = None
  /\ UNCHANGED <<things, state, op, get, queue, work, left, last, astray, haunted>>

Next ==
  \/ \E s \in Specs[left.kind] : OpStarts("apply", s)
  \/ OpStarts("delete", None)
  \/ OpLoads \/ OpSends \/ OpSaves \/ OpCanceled
  \/ \E g \in Getter : GetLoads(g) \/ GetSends(g) \/ GetSaves(g) \/ GetCanceled(g)
  \/ PluginTakes \/ PluginReplies \/ PluginFails
  \/ \E x \in Place : PluginSteps(x) \/ GhostSteps(x)
  \/ Restarts \/ GhostEnds

KubeSpec == Init /\ [][Next]_vars

------------------------------------------------------------------------------
(* Properties *)

\* Whatever the resource has put into a cluster is listed in the stored blob, or
\* will be by the operation in progress, so that a later apply can prune it and
\* a delete can remove it; except what astray names: items whose apply failed,
\* was canceled or cut off, items that were moved, and items that a Get which
\* overlapped an operation has dropped from the blob.
Tracked ==
  \A x \in Present :
    \/ x \in Recorded(state) \cup astray
    \/ op # None /\ op.type = "apply" /\ x \in Places(op.spec)

\* Objects of which an apply changes nothing but the API version that names them.
Renamed(s, prior) ==
  IF prior = None \/ left.kind # "objects" THEN {}
  ELSE {<<s.cluster, s.ns[i], i>> :
          i \in {j \in DOMAIN s.ns \cap DOMAIN prior.ns :
                  s.ns[j] = prior.ns[j] /\ s.api[j] # prior.api[j]}}

\* An operation that succeeded is what the cluster shows until the next one,
\* although requests that were given up before are still carried out: the
\* plugin takes requests in order.  Only the plugin of a killed controller can
\* come in between.  What is renamed to another API version is excepted: the
\* apply prunes it after it has placed it (see LeaversArePruned).
LastSucceeded ==
  last # None /\ ~haunted =>
    IF last.type = "apply"
    THEN \A x \in Places(last.spec) \ Renamed(last.spec, last.prior) : things[x] = last.spec
    ELSE Present \subseteq astray

------------------------------------------------------------------------------
(* What documents and comments say and the code does not keep; each has a  *)
(* configuration, named after it, with which TLC refutes it.               *)

\* schema.go: "objects that leave the manifest on a later apply are pruned":
\* where no apply has failed or been given up and none has moved anything, an
\* apply that succeeded leaves what the manifest names and nothing else.  A Get
\* beside an apply makes the next one forget what to prune, and an object whose
\* apiVersion alone changes is pruned although it has not left the manifest.
LeaversArePruned ==
  last # None /\ last.type = "apply" => Present = Places(last.spec)
===============================================================================
