------------------------------ MODULE Dispatcher ------------------------------
(***************************************************************************)
(* The controller's dispatcher (internal/controller/operations/            *)
(* dispatcher.go, crossop.go) with the operations table it drains, the     *)
(* graph engine that runs its batches, the desired-state table it          *)
(* maintains, and the providers it drives.                                 *)
(*                                                                         *)
(* Concurrency: RPC handlers, the git watcher and the reconciler submit    *)
(* and cancel at any time; one goroutine drains the table; every operation *)
(* of a batch executes in a goroutine of its own.  The process may be shut *)
(* down (its context is canceled, running work is awaited) or die at any   *)
(* point; a start first sweeps the rows a previous process left running.   *)
(***************************************************************************)
EXTENDS RunGraph, OpStore

CONSTANTS
  Refs,         \* resource -> manifest -> the resources it has $refs to
  Unserved,     \* resources whose apiVersion no registered provider serves
  Planner,      \* composite resources (their provider implements Planner)
  Emits,        \* resource -> the child manifests that its Plan may emit
  Forced,       \* manifests with the i-know-this-breaks-the-cluster annotation
  Requests,     \* what clients submit in this model
  CrossOp,      \* the settings of OPENCTL_CROSS_OP_SCHEDULING to consider
  MaxStops      \* bound on shutdowns and crashes

\* What a resource's content is determined by: its manifest and the values
\* its $refs had.  input_hash and refs_hash identify the two.
RefValues == [Resource -> Value \cup {None}]
Content   == [val : Value, refs : RefValues]
NoRefs    == [r \in Resource |-> None]

Child == [res : Resource, val : Value]
ChildrenOf(r) == {x.res : x \in Emits[r]}

ASSUME TaskIsOp == Task = Op
ASSUME ContentAssumption == None \notin Content
ASSUME RefsAssumption == Refs \in [Resource -> [Value -> SUBSET Resource]]
ASSUME EmitsAssumption ==
  /\ Emits \in [Resource -> SUBSET Child]
  /\ \A r \in Resource : r \notin ChildrenOf(r) /\ (r \notin Planner => Emits[r] = {})
ASSUME RequestsAssumption == Requests \subseteq Request
ASSUME CrossOpAssumption == CrossOp \subseteq BOOLEAN
ASSUME MaxStopsAssumption == MaxStops \in Nat

VARIABLES
  ops,            \* the operations table
  lastOp,         \* number of the latest submission
  manifest,       \* applied_manifests: resource -> input and refs hashes
  live,           \* resource -> what the provider really has
  loop,           \* the dispatcher goroutine, "down" when no process runs
  crossOp,        \* cross-op scheduling is on
  batch,          \* operations claimed and not yet executed to the end
  pc,             \* operation -> the next step of its execute call
  resolved,       \* operation -> the $ref values its execute call has read
  outcome,        \* operation -> the status its execute call will record
  registered,     \* keys of the dispatcher's running map
  userCancelled,  \* keys of the dispatcher's userCancelled map
  asked,          \* operations a user has asked to cancel (history)
  began,          \* operations that were ever executed (history)
  plan,           \* the batch as it was when RunGraph was called (history)
  stops           \* shutdowns and crashes so far

execVars == <<batch, pc, resolved, outcome, registered, userCancelled>>
dataVars == <<manifest, live>>
histVars == <<asked, began, plan>>
procVars == <<crossOp, stops>>
vars == <<ops, lastOp, loop, graphVars, ctxErr, execVars, dataVars, histVars,
          procVars>>

\* Whether $refs in a batch form a cycle, what it deletes, and the children of
\* its composites.
Plan   == [cyclic : BOOLEAN, deletes : SUBSET Resource, children : SUBSET Resource]
NoPlan == [cyclic |-> FALSE, deletes |-> {}, children |-> {}]

Steps == {"idle", "exec", "apply", "save", "complete", "leave"}

TypeOK ==
  /\ GraphTypeOK
  /\ ops \in Table
  /\ \A o \in Op : ops[o].type = "apply" => ops[o].val \in Value
  /\ lastOp \in Op \cup {0}
  /\ manifest \in [Resource -> Content \cup {None}]
  /\ live \in [Resource -> Content \cup {None}]
  /\ loop \in {"down", "wait", "claim", "graph", "exec"}
  /\ crossOp \in CrossOp
  /\ batch \subseteq Op
  /\ pc \in [Op -> Steps]
  /\ resolved \in [Op -> RefValues]
  /\ outcome \in [Op -> {"none", "succeeded", "failed", "canceled"}]
  /\ registered \subseteq Op /\ userCancelled \subseteq Op
  /\ asked \subseteq Op /\ began \subseteq Op /\ plan \in Plan
  /\ stops \in 0..MaxStops

Init ==
  /\ GraphInit
  /\ ops = [o \in Op |-> NoRow] /\ lastOp = 0
  /\ manifest = [r \in Resource |-> None] /\ live = [r \in Resource |-> None]
  /\ loop = "claim" /\ crossOp \in CrossOp
  /\ batch = {} /\ pc = [o \in Op |-> "idle"]
  /\ resolved = [o \in Op |-> NoRefs] /\ outcome = [o \in Op |-> "none"]
  /\ registered = {} /\ userCancelled = {}
  /\ asked = {} /\ began = {} /\ plan = NoPlan /\ stops = 0

Up == loop # "down"
Executing(o) == pc[o] # "idle"
Res(o) == ops[o].res

\* refs.Collect on the manifest of an operation; a delete carries none.
RefsOf(o) == IF ops[o].type = "apply" THEN Refs[Res(o)][ops[o].val] ELSE {}

\* The context handed to the provider and to the desired-state table is a
\* child of the dispatcher's, canceled with it or by CancelRunning.
CtxDone(o) == ctxErr \/ o \in userCancelled

-----------------------------------------------------------------------------
(* Clients.                                                                *)

Submit(o, q) ==
  /\ Up
  /\ \A p \in Op : (p < o) <=> (p <= lastOp)
  /\ ~ Busy(ops, q.res)
  /\ \E pruned \in BOOLEAN : ops' = Submitted(ops, o, q, pruned)
  /\ lastOp' = o
  /\ UNCHANGED <<loop, graphVars, ctxErr, execVars, dataVars, histVars, procVars>>

\* CancelOperation on a row that is still pending.
CancelPending(o) ==
  /\ Up
  /\ MayCancelPending(ops, o)
  /\ ops' = CanceledPending(ops, o)
  /\ asked' = asked \cup {o}
  /\ UNCHANGED <<lastOp, loop, graphVars, ctxErr, execVars, dataVars, began, plan, procVars>>

\* CancelOperation on a row it has read as running: refused unless execute has
\* registered the operation, accepted until execute deregisters it.
CancelRunning(o) ==
  /\ Up
  /\ o \in registered \ userCancelled
  /\ userCancelled' = userCancelled \cup {o}
  /\ asked' = asked \cup {o}
  /\ UNCHANGED <<ops, lastOp, loop, graphVars, ctxErr, batch, pc, resolved,
                 outcome, registered, dataVars, began, plan, procVars>>

-----------------------------------------------------------------------------
(* The drain loop.                                                         *)

\* The ticker fires or Notify is received.  (With the context canceled the
\* select may still pick them, but then nothing can be claimed.)
Wake ==
  /\ loop = "wait" /\ ~ ctxErr
  /\ loop' = "claim"
  /\ UNCHANGED <<ops, lastOp, graphVars, ctxErr, execVars, dataVars, histVars, procVars>>

\* One turn of the claiming loop: with cross-op scheduling the operation joins
\* the batch, otherwise it is executed before the next one is claimed.
Claim(o) ==
  /\ loop = "claim" /\ ~ ctxErr
  /\ NextPending(ops, o)
  /\ ops' = Claimed(ops, o)
  /\ batch' = batch \cup {o}
  /\ loop' = IF crossOp THEN "claim" ELSE "exec"
  /\ UNCHANGED <<lastOp, graphVars, ctxErr, pc, resolved, outcome, registered,
                 userCancelled, dataVars, histVars, procVars>>

\* As in RunGraph, the Faulty... definitions are variants that break a property.
FaultyClaimsOn ==
  /\ loop = "claim"
  /\ \A o \in Op : ops[o].status # "pending"

\* Claiming ends when no row is pending or the context is canceled.
ClaimingEnds ==
  /\ loop = "claim"
  /\ ctxErr \/ \A o \in Op : ops[o].status # "pending"

DrainEmpty ==
  /\ ClaimingEnds /\ batch = {}
  /\ loop' = "wait"
  /\ UNCHANGED <<ops, lastOp, graphVars, ctxErr, execVars, dataVars, histVars, procVars>>

FaultyReversed(T) ==
  [o \in Task |->
     {p \in T : /\ o \in T /\ p # o
                /\ ops[o].type = "apply" /\ Res(o) \in RefsOf(p)}]

\* crossOpEdges: an apply depends on the apply, in the same batch, of a
\* resource that its spec refers to.
crossOpEdges(T) ==
  [o \in Task |->
     {p \in T : /\ o \in T /\ p # o
                /\ ops[p].type = "apply" /\ Res(p) \in RefsOf(o)}]

\* No operations wait for each other in a circle.
crossOpAcyclic(T, D) ==
  \A S \in SUBSET T : S # {} => \E o \in S : D[o] \cap S = {}

FaultyUnordered(T) == NoDeps

FaultyNoFallback(T) == crossOpEdges(T)

\* A cycle makes the batch run unordered.
BatchEdges(T) ==
  IF crossOpAcyclic(T, crossOpEdges(T)) THEN crossOpEdges(T) ELSE NoDeps

\* The applies in the batch of what o refers to, and whether such needs form
\* a cycle anywhere in the batch.
Needs(o) == {p \in batch : p # o /\ ops[p].type = "apply" /\ Res(p) \in RefsOf(o)}
NeedsCyclic == \E S \in SUBSET batch : S # {} /\ \A o \in S : Needs(o) \cap S # {}

\* For the properties: rows of the batch may be pruned as it is worked off.
Planned ==
  /\ plan' = [cyclic |-> NeedsCyclic,
              deletes |-> {Res(o) : o \in {p \in batch : ops[p].type = "delete"}},
              children |-> UNION {ChildrenOf(Res(o)) : o \in batch}]
  /\ UNCHANGED <<asked, began>>

\* drainScheduled from the end of claiming into RunGraph.  Row IDs are random,
\* so any ready operations may come first in the order of IDs.
DrainStarts(c, S) ==
  /\ ClaimingEnds /\ batch # {}
  /\ CallStarts(batch, BatchEdges(batch), c, S)
  /\ loop' = "graph" /\ Planned
  /\ UNCHANGED <<ops, lastOp, execVars, dataVars, procVars>>

DrainCanceled(c) ==
  /\ ClaimingEnds /\ batch # {}
  /\ CallCanceled(batch, BatchEdges(batch), c)
  /\ loop' = "graph" /\ Planned
  /\ UNCHANGED <<ops, lastOp, execVars, dataVars, procVars>>

GraphReceive(t) ==
  /\ \/ ReceiveAndStop(t)
     \/ \E S \in SUBSET (ready \cup NewlyReady(t)) : ReceiveAndLaunch(t, S)
  /\ UNCHANGED <<ops, lastOp, loop, execVars, dataVars, histVars, procVars>>

GraphReturns ==
  /\ Return
  /\ UNCHANGED <<ops, lastOp, loop, execVars, dataVars, histVars, procVars>>

\* drainScheduled logs RunGraph's error, if any, and the loop goes on.
DrainDone ==
  /\ Discard
  /\ loop' = "wait"
  /\ batch' = {} /\ plan' = NoPlan
  /\ UNCHANGED <<ops, lastOp, ctxErr, pc, resolved, outcome, registered,
                 userCancelled, dataVars, asked, began, procVars>>

-----------------------------------------------------------------------------
(* execute.                                                                *)

Goto(o, step) == pc' = [pc EXCEPT ![o] = step]

\* The statuses execute hands to Complete.
EndsAs(o, st) == /\ Goto(o, "complete")
                 /\ outcome' = [outcome EXCEPT ![o] = st]

FaultyCtxMeansCanceled(o) == IF CtxDone(o) THEN "canceled" ELSE "failed"

FaultyInterrupted(o) ==
  IF o \in userCancelled THEN "canceled" ELSE IF ctxErr THEN "interrupted" ELSE "failed"

terminalOutcome(o) == IF o \in userCancelled THEN "canceled" ELSE "failed"

\* The call has been made and has not got anywhere yet.
Entered(o) ==
  /\ pc[o] = "idle"
  /\ \/ loop = "exec" /\ o \in batch
     \/ state[o] = "running"

\* Registration for CancelRunning, then the provider lookup.
Begin(o) ==
  /\ Entered(o)
  /\ registered' = registered \cup {o}
  /\ began' = began \cup {o}
  /\ IF Res(o) \in Unserved THEN EndsAs(o, "failed")
                            ELSE Goto(o, "exec") /\ UNCHANGED outcome
  /\ UNCHANGED <<ops, lastOp, loop, graphVars, ctxErr, batch, resolved,
                 userCancelled, dataVars, asked, plan, procVars>>

\* refs.Resolve: every referenced resource must exist.
Resolvable(o) == \A d \in RefsOf(o) : live[d] # None
Resolve(o) == [d \in Resource |-> IF d \in RefsOf(o) THEN live[d].val ELSE None]

\* tryCacheHitInline: same manifest, same $ref values, and the provider still
\* has something under that name.
CacheHit(o) ==
  LET r == Res(o) IN
  /\ Resolvable(o) /\ r \notin Planner /\ ops[o].val \notin Forced
  /\ ~ CtxDone(o)
  /\ manifest[r] # None
  /\ manifest[r].val = ops[o].val
  /\ manifest[r].refs = Resolve(o)
  /\ live[r] # None

ExecApply(o) == pc[o] = "exec" /\ ops[o].type = "apply"

ServeFromCache(o) ==
  /\ ExecApply(o)
  /\ CacheHit(o)
  /\ EndsAs(o, "succeeded")
  /\ UNCHANGED <<ops, lastOp, loop, graphVars, ctxErr, batch, resolved,
                 registered, userCancelled, dataVars, histVars, procVars>>

\* No hit: a hit needs every read of the check to succeed, so that also with
\* everything unchanged the operation may go on to the provider.
ResolveRefs(o) ==
  /\ ExecApply(o)
  /\ Resolvable(o)
  /\ resolved' = [resolved EXCEPT ![o] = Resolve(o)]
  /\ Goto(o, "apply")
  /\ UNCHANGED <<ops, lastOp, loop, graphVars, ctxErr, batch, outcome,
                 registered, userCancelled, dataVars, histVars, procVars>>

\* A referenced resource is absent, or reading it fails.
ResolveFails(o) ==
  /\ ExecApply(o)
  /\ RefsOf(o) # {}
  /\ EndsAs(o, terminalOutcome(o))
  /\ UNCHANGED <<ops, lastOp, loop, graphVars, ctxErr, batch, resolved,
                 registered, userCancelled, dataVars, histVars, procVars>>

\* The provider call.  Cancellation is cooperative, so a canceled call may
\* still succeed; a failed one may have taken effect.
Intended(o) == IF ops[o].type = "delete" THEN None
               ELSE [val |-> ops[o].val, refs |-> resolved[o]]

InProvider(o) == pc[o] = "apply" \/ (pc[o] = "exec" /\ ops[o].type = "delete")

\* Before it returns, the provider of a composite applies and deletes children
\* through ApplyManifest and DeleteManifest, which have no operation and no edge;
\* a composite's delete removes them from the provider only.  Which and in which
\* order is for module Cluster.  The call for a child and the write of its row
\* (which fails once the context is canceled) are one step.
ChildValue(x) ==
  [val |-> x.val,
   refs |-> [d \in Resource |-> IF d \in Refs[x.res][x.val] THEN live[d].val ELSE None]]

ChildMayBe(o, x) ==
  {None} \cup IF ops[o].type = "apply" /\ \A d \in Refs[x.res][x.val] : live[d] # None
              THEN {ChildValue(x)} ELSE {}

ChildStep(o, x) ==
  /\ InProvider(o) /\ x \in Emits[Res(o)]
  /\ \E new \in ChildMayBe(o, x) :
       /\ live' = [live EXCEPT ![x.res] = new]
       /\ \/ manifest' = manifest
          \/ /\ ops[o].type = "apply" /\ ~ CtxDone(o)
             /\ manifest' = [manifest EXCEPT ![x.res] = new]
  /\ UNCHANGED <<ops, lastOp, loop, graphVars, ctxErr, execVars, histVars, procVars>>

ProviderOk(o) ==
  /\ InProvider(o)
  /\ live' = [live EXCEPT ![Res(o)] = Intended(o)]
  /\ Goto(o, "save")
  /\ UNCHANGED <<ops, lastOp, loop, graphVars, ctxErr, batch, resolved, outcome,
                 registered, userCancelled, manifest, histVars, procVars>>

ProviderFails(o) ==
  /\ InProvider(o)
  /\ live' \in {live, [live EXCEPT ![Res(o)] = Intended(o)]}
  /\ EndsAs(o, terminalOutcome(o))
  /\ UNCHANGED <<ops, lastOp, loop, graphVars, ctxErr, batch, resolved,
                 registered, userCancelled, manifest, histVars, procVars>>

FaultyDeleteKeepsRow(o) ==
  IF CtxDone(o) \/ ops[o].type = "delete" THEN manifest
  ELSE [manifest EXCEPT ![Res(o)] = Intended(o)]

\* SaveWithRefsHash or Delete on the desired-state table, under the
\* operation's context: with the context canceled the write fails, which is
\* only logged.
Persisted(o) == IF CtxDone(o) THEN manifest
                ELSE [manifest EXCEPT ![Res(o)] = Intended(o)]

SaveManifest(o) ==
  /\ pc[o] = "save"
  /\ manifest' = Persisted(o)
  /\ EndsAs(o, "succeeded")
  /\ UNCHANGED <<ops, lastOp, loop, graphVars, ctxErr, batch, resolved,
                 registered, userCancelled, live, histVars, procVars>>

\* Complete runs under a context detached from the cancellation.
CompleteOp(o) ==
  /\ pc[o] = "complete"
  /\ ops' = Complete(ops, o, outcome[o])
  /\ Goto(o, "leave")
  /\ UNCHANGED <<lastOp, loop, graphVars, ctxErr, batch, resolved, outcome,
                 registered, userCancelled, dataVars, histVars, procVars>>

\* The deferred cleanup, then the return: to RunGraph, which never sees an
\* error, or to the FIFO loop.
Leave(o) ==
  /\ pc[o] = "leave"
  /\ Goto(o, "idle")
  /\ registered' = registered \ {o}
  /\ userCancelled' = userCancelled \ {o}
  /\ outcome' = [outcome EXCEPT ![o] = "none"]
  /\ resolved' = [resolved EXCEPT ![o] = NoRefs]
  /\ IF loop = "exec"
     THEN loop' = "claim" /\ batch' = {} /\ UNCHANGED <<graphVars, ctxErr>>
     ELSE TaskReturns(o, FALSE) /\ UNCHANGED <<loop, batch>>
  /\ UNCHANGED <<ops, lastOp, dataVars, histVars, procVars>>

-----------------------------------------------------------------------------
(* The process.                                                            *)

\* SIGTERM: the root context is canceled.
Shutdown ==
  /\ Up /\ ~ ctxErr /\ stops < MaxStops
  /\ ctxErr' = TRUE
  /\ stops' = stops + 1
  /\ UNCHANGED <<ops, lastOp, loop, graphVars, execVars, dataVars, histVars, crossOp>>

\* Everything in memory is gone.
ProcessEnds ==
  /\ loop' = "down" /\ ctxErr' = FALSE
  /\ phase' = "idle" /\ tasks' = {} /\ deps' = NoDeps /\ limit' = 1
  /\ indegree' = [t \in Task |-> 0] /\ ready' = {}
  /\ state' = [t \in Task |-> "waiting"]
  /\ firstErr' = {} /\ stopLaunch' = FALSE /\ ret' = NoRet
  /\ batch' = {} /\ pc' = [o \in Op |-> "idle"]
  /\ resolved' = [o \in Op |-> NoRefs] /\ outcome' = [o \in Op |-> "none"]
  /\ registered' = {} /\ userCancelled' = {} /\ plan' = NoPlan
  /\ UNCHANGED <<ops, lastOp, dataVars, asked, began, crossOp>>

\* run returns, which Stop has been waiting for.
Exit ==
  /\ loop = "wait" /\ ctxErr
  /\ ProcessEnds
  /\ UNCHANGED stops

Crash ==
  /\ Up /\ stops < MaxStops
  /\ ProcessEnds
  /\ stops' = stops + 1

\* The controller starts: sweep first, then the dispatcher, whose loop drains
\* before it waits.
Restart ==
  /\ loop = "down"
  /\ ops' = MarkRunningInterrupted(ops)
  /\ loop' = "claim"
  /\ UNCHANGED <<lastOp, graphVars, ctxErr, execVars, dataVars, histVars, procVars>>

-----------------------------------------------------------------------------

Client == \/ \E o \in Op, q \in Requests : Submit(o, q)
          \/ \E o \in Op : CancelPending(o) \/ CancelRunning(o)

Drain ==
  \/ Wake
  \/ \E o \in Op : Claim(o)
  \/ DrainEmpty
  \/ \E c \in Concurrency, S \in SUBSET batch : DrainStarts(c, S)
  \/ \E c \in Concurrency : DrainCanceled(c)
  \/ \E t \in Task : GraphReceive(t)
  \/ GraphReturns
  \/ DrainDone

Execute(o) ==
  \/ Begin(o)
  \/ ServeFromCache(o) \/ ResolveRefs(o) \/ ResolveFails(o)
  \/ ProviderOk(o) \/ ProviderFails(o)
  \/ SaveManifest(o)
  \/ CompleteOp(o)
  \/ Leave(o)

Next ==
  \/ Client
  \/ Drain
  \/ \E o \in Op : Execute(o)
  \/ \E o \in Op, x \in Child : ChildStep(o, x)
  \/ Shutdown \/ Exit \/ Crash \/ Restart

Spec == Init /\ [][Next]_vars

\* The dispatcher goroutine and every execute call are scheduled, providers
\* return, and a controller that is down is started again.  Nobody is obliged
\* to submit, cancel, shut down or crash, nor a composite to change a child.
Fairness ==
  /\ WF_vars(Drain)
  /\ \A o \in Op : WF_vars(Execute(o))
  /\ WF_vars(Exit)
  /\ WF_vars(Restart)

FairSpec == Spec /\ Fairness

-----------------------------------------------------------------------------
(* Properties.                                                             *)

\* Submit's fail-fast rule survives claims, cancellations, crashes and sweeps:
\* a resource never has two operations in flight.
OneInFlightPerResource ==
  \A o, p \in Op :
    /\ o # p
    /\ ops[o].status \in Active /\ ops[p].status \in Active
    => Res(o) # Res(p)

\* Complete overwrites any status; this is why that is harmless.  Until an
\* execute call has recorded its outcome, its row is running: nobody else
\* cancels, sweeps or prunes it meanwhile.
ExecutingRowIsRunning ==
  \A o \in Op : Executing(o) /\ pc[o] # "leave" => ops[o].status = "running"

\* A running row has somebody working on it: while the process lives and is
\* not shutting down, it belongs to the current batch and its execute call is
\* still to come or has not recorded its outcome yet.
NoOrphanRunning ==
  Up /\ ~ ctxErr =>
    \A o \in Op : ops[o].status = "running" =>
      /\ o \in batch
      /\ pc[o] # "leave"
      /\ Executing(o) \/ loop = "claim" \/ Entered(o)
           \/ (loop = "graph" /\ state[o] = "waiting" /\ phase = "loop")

\* drainScheduled's order: an operation executes only after the operations of
\* its batch that apply what it refers to have ended, unless there is a cycle.
DependentsWait ==
  loop = "graph" /\ ~ plan.cyclic =>
    \A o \in batch : Executing(o) =>
      \A p \in Needs(o) : ops[p].status \notin Active

\* The $ref values an apply has read are still the referenced resources'
\* values when the provider works with them, and when they are saved as its
\* refs hash: only a delete in the same batch, a composite in the same batch
\* (or the apply itself) that has the resource as a child, or a cycle, can get
\* between.
RefsFresh ==
  ~ plan.cyclic =>
    \A o \in Op : pc[o] \in {"apply", "save"} =>
      \A d \in RefsOf(o) \ ({Res(o)} \cup ChildrenOf(Res(o))) :
         \/ live[d] # None /\ live[d].val = resolved[o][d]
         \/ d \in plan.deletes \cup plan.children

\* A shutdown or a provider error is never recorded as a user's cancellation.
CanceledOnlyByUser == \A o \in Op : ops[o].status = "canceled" => o \in asked

\* The retention cap holds after every completion, also when Submit's prune
\* fails; only a sweep, which does not prune, adds a row beyond it.
RetentionBound ==
  Retain > 0 => \A r \in Resource : Cardinality(Prunable(ops, r)) <= Retain + stops

\* An operation that succeeds without having been canceled or shut down leaves
\* exactly its manifest (or its absence) as the desired state, also when it
\* was served from the cache; unless a composite of the same batch has the
\* resource as a child, and may write its row meanwhile.
SavedUnlessCanceled ==
  [][\A o \in Op :
       /\ pc[o] = "complete" /\ pc'[o] = "leave" /\ outcome[o] = "succeeded"
       /\ ~ CtxDone(o) /\ Res(o) \notin plan.children
       => CASE ops[o].type = "delete" -> manifest[Res(o)] = None
            [] OTHER -> manifest[Res(o)] # None /\ manifest[Res(o)].val = ops[o].val]_vars

\* The dispatcher and its table implement the life of an operation.
Stage(o) ==
  CASE ops[o].status = "pending" -> "queued"
    [] ops[o].status = "running" -> "started"
    [] ops[o].status = "none"    -> IF o <= lastOp THEN "forgotten" ELSE "none"
    [] OTHER                     -> ops[o].status

Stages  == [o \in Op |-> Stage(o)]
Targets == [o \in Op |-> Res(o)]

Lifecycle == INSTANCE OpLifecycle WITH target <- Targets, stage <- Stages

ImplementsOpLifecycle == Lifecycle!Spec

\* Every submitted operation ends, whatever crashes, shutdowns, failing
\* providers, cancellations and $ref cycles happen.
EventuallyTerminal ==
  \A o \in Op : ops[o].status \in Active ~> ops[o].status \notin Active

\* A shutdown completes: Stop never waits for a goroutine that waits for it.
ShutdownCompletes == ctxErr ~> loop = "down"

-----------------------------------------------------------------------------
(* What documents and comments say and the code does not keep; each has a  *)
(* configuration, named after it, with which TLC refutes it.               *)

\* "On each successful apply, the dispatcher saves the manifest's spec here;
\* on each successful delete, it removes the row" (manifests/store.go).
SuccessIsSaved ==
  [][\A o \in Op :
       pc[o] = "complete" /\ pc'[o] = "leave" /\ outcome[o] = "succeeded"
       => CASE ops[o].type = "delete" -> manifest[Res(o)] = None
            [] OTHER -> manifest[Res(o)] # None /\ manifest[Res(o)].val = ops[o].val]_vars

\* "User re-applies; the declarative model converges from whatever partial
\* state the previous run left" (CONTROLLER.md): an apply that succeeds
\* has left the provider with what was applied.
ReapplyConverges ==
  [][\A o \in Op :
       /\ pc[o] = "complete" /\ pc'[o] = "leave" /\ outcome[o] = "succeeded"
       /\ ops[o].type = "apply"
       => live[Res(o)] # None /\ live[Res(o)].val = ops[o].val]_vars

\* "a dependent whose predecessor failed still runs, and simply fails at ref
\* resolution because the referenced resource was never applied"
\* (drainScheduled): no dependent succeeds on top of an apply that failed
\* without taking effect.
FailedDependencyFailsDependent ==
  \A o, p \in batch :
    /\ loop = "graph" /\ p \in BatchEdges(batch)[o]
    /\ ops[p].status = "failed"
    /\ live[Res(p)] = None \/ live[Res(p)].val # ops[p].val
    => ops[o].status # "succeeded"

\* "A partially-run batch resumes as: completed ops stay completed, the rest
\* re-derive their edges next cycle" (docs/cross-op-scheduling.md): with its
\* dependency completed, an operation that was never executed is not ended by
\* the restart.
UnstartedResume ==
  \A o, p \in Op :
    /\ ops[p].status = "succeeded" /\ ops[p].type = "apply"
    /\ Res(p) \in RefsOf(o)
    /\ ops[o].status = "interrupted"
    => o \in began

=============================================================================
