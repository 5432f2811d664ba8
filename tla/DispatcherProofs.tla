--------------------------- MODULE DispatcherProofs ---------------------------
(***************************************************************************)
(* Proofs about the dispatcher, for any resources, manifests, $ref graphs, *)
(* retention cap and any number of operations, crashes and shutdowns.      *)
(*                                                                         *)
(* The invariant says who owns a row: from the claim to the recorded       *)
(* outcome an operation's row is running, because the only other writers   *)
(* are a cancellation (which takes pending rows only), pruning (completed  *)
(* rows only) and the sweep (which runs while nothing executes).           *)
(***************************************************************************)
EXTENDS Dispatcher, RunGraphProofs

\* The table: rows are well formed, numbers beyond the last are unused.
Fresh == \A o \in Op : o > lastOp => ops[o] = NoRow

\* Where execute calls can be, for each state of the dispatcher goroutine.
LoopShape ==
  /\ loop \in {"down", "wait"} => batch = {}
  /\ loop = "graph" => tasks = batch /\ phase # "idle"
  /\ loop # "graph" => phase = "idle"
  /\ loop = "exec" => \E o \in Op : batch = {o}
  /\ loop = "claim" /\ ~ crossOp => batch = {}
  /\ \A o \in Op : Executing(o) => \/ loop = "exec" /\ o \in batch
                                   \/ loop = "graph" /\ state[o] = "running"

\* An operation that is claimed and not executed yet.
Queued(o) ==
  /\ o \in batch /\ pc[o] = "idle"
  /\ \/ loop \in {"claim", "exec"}
     \/ loop = "graph" /\ state[o] \in {"waiting", "running"}

QueuedRowIsRunning == \A o \in Op : Queued(o) => ops[o].status = "running"

\* A call about to record its outcome has one.
OutcomeKnown == \A o \in Op : pc[o] = "complete" => outcome[o] # "none"

\* A cancellation that is in effect, or recorded, was asked for.
CancelAsked ==
  /\ userCancelled \subseteq asked
  /\ \A o \in Op : outcome[o] = "canceled" => o \in asked

DispInv ==
  /\ GraphInv /\ TypeOK /\ Fresh /\ LoopShape
  /\ QueuedRowIsRunning /\ ExecutingRowIsRunning
  /\ OutcomeKnown /\ CancelAsked
  /\ OneInFlightPerResource /\ CanceledOnlyByUser

-----------------------------------------------------------------------------
(* Facts about the table.                                                  *)

\* What is in the table is a row, or the absence of one.
LEMMA RowOrNone ==
  ASSUME NEW tab \in Table, NEW o \in Op
  PROVE  /\ tab[o] \in Row \/ tab[o] = NoRow
         /\ tab[o].status # "none" => tab[o] \in Row
         /\ tab[o].status = "none" => tab[o] = NoRow
<1>1. tab[o] \in Row \cup {NoRow}
  BY DEF Table
<1>2. NoRow.status = "none"
  BY DEF NoRow
<1>3. \A x \in Row : x.status # "none"
  BY DEF Row, Status
<1> QED BY <1>1, <1>2, <1>3

\* Pruning removes completed rows and changes nothing else.
LEMMA Pruning ==
  ASSUME NEW tab \in Table, NEW r
  PROVE  /\ gcResource(tab, r) \in Table
         /\ \A o \in Op :
              \/ gcResource(tab, r)[o] = tab[o]
              \/ /\ gcResource(tab, r)[o] = NoRow
                 /\ tab[o].status \in {"succeeded", "failed", "interrupted"}
<1>1. \A o \in Op : gcResource(tab, r)[o] \in Row \cup {NoRow}
  BY DEF gcResource, Table
<1>2. gcResource(tab, r) \in [Op -> Row \cup {NoRow}]
  BY <1>1 DEF gcResource
<1> QED BY <1>2 DEF gcResource, Prunable, Table

\* Changing the status of a row leaves a table.
LEMMA StatusChange ==
  ASSUME NEW tab \in Table, NEW o \in Op, tab[o].status # "none", NEW st \in Status
  PROVE  /\ WithStatus(tab, o, st) \in Table
         /\ WithStatus(tab, o, st)[o].status = st
         /\ WithStatus(tab, o, st)[o].res = tab[o].res
         /\ WithStatus(tab, o, st)[o].type = tab[o].type
         /\ WithStatus(tab, o, st)[o].val = tab[o].val
         /\ \A p \in Op : p # o => WithStatus(tab, o, st)[p] = tab[p]
<1>1. tab[o] \in Row
  BY RowOrNone
<1>2. [tab[o] EXCEPT !.status = st] \in Row
  BY <1>1 DEF Row
<1>3. tab \in [Op -> Row \cup {NoRow}]
  BY DEF Table
<1>4. [tab EXCEPT ![o] = [tab[o] EXCEPT !.status = st]] \in [Op -> Row \cup {NoRow}]
  BY <1>2, <1>3
<1> QED BY <1>1, <1>3, <1>4 DEF Table, Row, WithStatus

\* Submit adds a pending row and may prune completed ones.
LEMMA SubmitTable ==
  ASSUME NEW tab \in Table, NEW o \in Op, NEW q \in Request, NEW b \in BOOLEAN
  PROVE  /\ Submitted(tab, o, q, b) \in Table
         /\ Submitted(tab, o, q, b)[o] =
              [status |-> "pending", type |-> q.type, res |-> q.res, val |-> q.val]
         /\ \A p \in Op \ {o} :
              \/ Submitted(tab, o, q, b)[p] = tab[p]
              \/ /\ Submitted(tab, o, q, b)[p] = NoRow
                 /\ tab[p].status \in {"succeeded", "failed", "interrupted"}
<1> DEFINE new == [status |-> "pending", type |-> q.type, res |-> q.res, val |-> q.val]
           mid == [tab EXCEPT ![o] = new]
<1>1. new \in Row
  BY DEF Request, Row, Status
<1>2. tab \in [Op -> Row \cup {NoRow}]
  BY DEF Table
<1>3. mid \in Table /\ mid[o] = new /\ \A p \in Op \ {o} : mid[p] = tab[p]
  BY <1>1, <1>2 DEF Table
<1>4. Submitted(tab, o, q, b) \in {mid, gcResource(mid, q.res)}
  BY DEF Submitted, Inserted
<1>5. mid[o].status = "pending"
  BY <1>3
<1> HIDE DEF mid
<1> QED BY <1>3, <1>4, <1>5, Pruning

\* Complete records a status in a running row and may prune completed ones.
LEMMA CompleteTable ==
  ASSUME NEW tab \in Table, NEW o \in Op, tab[o].status = "running",
         NEW st \in {"succeeded", "failed", "canceled"}
  PROVE  /\ Complete(tab, o, st) \in Table
         /\ \A p \in Op \ {o} :
              \/ Complete(tab, o, st)[p] = tab[p]
              \/ /\ Complete(tab, o, st)[p] = NoRow
                 /\ tab[p].status \in {"succeeded", "failed", "interrupted"}
         /\ \/ Complete(tab, o, st)[o] = NoRow
            \/ /\ Complete(tab, o, st)[o].status = st
               /\ Complete(tab, o, st)[o].res = tab[o].res
               /\ Complete(tab, o, st)[o].type = tab[o].type
               /\ Complete(tab, o, st)[o].val = tab[o].val
<1> DEFINE mid == WithStatus(tab, o, st)
<1>1. st \in Status /\ tab[o].status # "none"
  BY DEF Status
<1>2. /\ mid \in Table /\ mid[o].status = st /\ mid[o].res = tab[o].res
      /\ mid[o].type = tab[o].type /\ mid[o].val = tab[o].val
      /\ \A p \in Op \ {o} : mid[p] = tab[p]
  BY <1>1, StatusChange
<1>3. Complete(tab, o, st) = gcResource(mid, tab[o].res)
  BY DEF Complete
<1> HIDE DEF mid
<1> QED BY <1>2, <1>3, Pruning

\* The sweep ends running rows and touches no other.
LEMMA SweepTable ==
  ASSUME NEW tab \in Table
  PROVE  /\ MarkRunningInterrupted(tab) \in Table
         /\ \A o \in Op :
              IF tab[o].status = "running"
              THEN /\ MarkRunningInterrupted(tab)[o].status = "interrupted"
                   /\ MarkRunningInterrupted(tab)[o].res = tab[o].res
                   /\ MarkRunningInterrupted(tab)[o].type = tab[o].type
                   /\ MarkRunningInterrupted(tab)[o].val = tab[o].val
              ELSE MarkRunningInterrupted(tab)[o] = tab[o]
<1>1. ASSUME NEW o \in Op, tab[o].status = "running"
      PROVE  /\ [tab[o] EXCEPT !.status = "interrupted"] \in Row
             /\ [tab[o] EXCEPT !.status = "interrupted"].status = "interrupted"
             /\ [tab[o] EXCEPT !.status = "interrupted"].res = tab[o].res
             /\ [tab[o] EXCEPT !.status = "interrupted"].type = tab[o].type
             /\ [tab[o] EXCEPT !.status = "interrupted"].val = tab[o].val
  <2>1. tab[o] \in Row
    BY <1>1, RowOrNone
  <2> QED BY <2>1 DEF Row, Status
<1>2. \A o \in Op : tab[o] \in Row \cup {NoRow}
  BY DEF Table
<1>3. \A o \in Op : MarkRunningInterrupted(tab)[o] =
                      IF tab[o].status = "running"
                      THEN [tab[o] EXCEPT !.status = "interrupted"] ELSE tab[o]
  BY DEF MarkRunningInterrupted
<1>4. \A o \in Op : MarkRunningInterrupted(tab)[o] \in Row \cup {NoRow}
  BY <1>1, <1>2, <1>3
<1>5. MarkRunningInterrupted(tab) \in Table
  BY <1>4 DEF MarkRunningInterrupted, Table
<1> QED BY <1>1, <1>3, <1>5

-----------------------------------------------------------------------------
(* Facts about steps.                                                      *)

\* A step that only ends, prunes or starts operations in flight keeps them
\* exclusive.
LEMMA StillExclusive ==
  ASSUME OneInFlightPerResource,
         \A p \in Op : ops'[p].status \in Active =>
                        ops[p].status \in Active /\ ops'[p].res = ops[p].res
  PROVE  OneInFlightPerResource'
BY DEF OneInFlightPerResource, Res

\* A step of an execute call, from the provider lookup to the outcome.
LEMMA ExecStep ==
  ASSUME DispInv, NEW o \in Op, pc[o] \in {"exec", "apply", "save"},
         NEW step \in {"apply", "save", "complete"},
         pc' = [pc EXCEPT ![o] = step],
         UNCHANGED <<ops, lastOp, loop, graphVars, ctxErr, batch, registered,
                     userCancelled, asked, began, plan, crossOp, stops>>,
         manifest' \in [Resource -> Content \cup {None}],
         live' \in [Resource -> Content \cup {None}],
         resolved' \in [Op -> RefValues],
         outcome' \in [Op -> {"none", "succeeded", "failed", "canceled"}],
         \A p \in Op \ {o} : outcome'[p] = outcome[p],
         step = "complete" => outcome'[o] # "none",
         outcome'[o] = "canceled" => o \in asked
  PROVE  DispInv'
<1>1. GraphInv'
  BY ContextInv DEF DispInv, GraphInv, GraphTypeOK
<1>2. pc \in [Op -> Steps]
  BY DEF DispInv, TypeOK
<1>3. /\ \A p \in Op : pc'[p] = IF p = o THEN step ELSE pc[p]
      /\ pc' \in [Op -> Steps]
  BY <1>2 DEF Steps
<1>4. UNCHANGED <<phase, tasks, deps, limit, indegree, ready, state, firstErr,
                  stopLaunch, ret>>
  BY DEF graphVars
<1>5. TypeOK'
  BY <1>1, <1>3 DEF DispInv, TypeOK, GraphInv
<1>6. LoopShape'
  <2>1. \A p \in Op : pc'[p] # "idle" => pc[p] # "idle"
    BY <1>3
  <2> QED BY <1>4, <2>1 DEF DispInv, LoopShape, Executing
<1>7. QueuedRowIsRunning'
  BY <1>3, <1>4 DEF DispInv, QueuedRowIsRunning, Queued
<1>8. ExecutingRowIsRunning'
  BY <1>3 DEF DispInv, ExecutingRowIsRunning, Executing
<1>9. OutcomeKnown' /\ CancelAsked'
  BY <1>3 DEF DispInv, OutcomeKnown, CancelAsked
<1>10. Fresh' /\ OneInFlightPerResource' /\ CanceledOnlyByUser'
  BY DEF DispInv, Fresh, OneInFlightPerResource, CanceledOnlyByUser, Res
<1> QED BY <1>1, <1>5, <1>6, <1>7, <1>8, <1>9, <1>10 DEF DispInv

\* The outcome that terminalOutcome gives is one, and canceled only if asked.
LEMMA TerminalOutcome ==
  ASSUME DispInv, NEW o \in Op
  PROVE  /\ terminalOutcome(o) \in {"failed", "canceled"}
         /\ terminalOutcome(o) = "canceled" => o \in asked
BY DEF terminalOutcome, DispInv, CancelAsked

\* What an operation intends for its resource is a content or none.
LEMMA IntendedType ==
  ASSUME DispInv, NEW o \in Op
  PROVE  ops[o].type \in {"apply", "delete"} => Intended(o) \in Content \cup {None}
<1> SUFFICES ASSUME ops[o].type \in {"apply", "delete"}
             PROVE  Intended(o) \in Content \cup {None}
  OBVIOUS
<1>1. resolved[o] \in RefValues
  BY DEF DispInv, TypeOK
<1>2. ops[o].type = "apply" => ops[o].val \in Value
  BY DEF DispInv, TypeOK
<1> QED BY <1>1, <1>2 DEF Intended, Content

\* The row of an executing operation.
LEMMA ExecutingRow ==
  ASSUME DispInv, NEW o \in Op, pc[o] \in {"exec", "apply", "save", "complete"}
  PROVE  /\ ops[o].status = "running" /\ ops[o] \in Row
         /\ ops[o].type \in {"apply", "delete"} /\ ops[o].res \in Resource
<1>1. ops[o].status = "running"
  BY DEF DispInv, ExecutingRowIsRunning, Executing
<1>2. ops[o] \in Row
  BY <1>1, RowOrNone DEF DispInv, TypeOK
<1> QED BY <1>1, <1>2 DEF Row

\* Every step between lookup and outcome is such a step.
LEMMA MiddleInv ==
  ASSUME DispInv, NEW o \in Op,
         \/ ServeFromCache(o) \/ ResolveRefs(o) \/ ResolveFails(o)
         \/ ProviderOk(o) \/ ProviderFails(o) \/ SaveManifest(o)
  PROVE  DispInv'
<1> USE DEF Goto, EndsAs, dataVars, histVars, procVars
<1>1. /\ manifest \in [Resource -> Content \cup {None}]
      /\ live \in [Resource -> Content \cup {None}]
      /\ resolved \in [Op -> RefValues]
      /\ outcome \in [Op -> {"none", "succeeded", "failed", "canceled"}]
  BY DEF DispInv, TypeOK
<1>2. /\ terminalOutcome(o) \in {"failed", "canceled"}
      /\ terminalOutcome(o) = "canceled" => o \in asked
  BY TerminalOutcome
<1>3. CASE ServeFromCache(o)
  <2>1. /\ pc[o] = "exec" /\ pc' = [pc EXCEPT ![o] = "complete"]
        /\ outcome' = [outcome EXCEPT ![o] = "succeeded"]
        /\ UNCHANGED <<ops, lastOp, loop, graphVars, ctxErr, batch, resolved,
                       registered, userCancelled, manifest, live, asked, began, plan,
                       crossOp, stops>>
    BY <1>3 DEF ServeFromCache, ExecApply
  <2> QED BY <1>1, <2>1, ExecStep
<1>4. CASE ResolveRefs(o)
  <2>1. /\ pc[o] = "exec" /\ pc' = [pc EXCEPT ![o] = "apply"]
        /\ resolved' = [resolved EXCEPT ![o] = Resolve(o)]
        /\ Resolvable(o)
        /\ UNCHANGED <<ops, lastOp, loop, graphVars, ctxErr, batch, outcome,
                       registered, userCancelled, manifest, live, asked, began, plan,
                       crossOp, stops>>
    BY <1>4 DEF ResolveRefs, ExecApply
  <2>2. Resolve(o) \in RefValues
    <3>1. \A d \in Resource : d \in RefsOf(o) => live[d] \in Content
      BY <1>1, <2>1 DEF Resolvable
    <3>2. \A d \in Resource : d \in RefsOf(o) => live[d].val \in Value
      BY <3>1 DEF Content
    <3> QED BY <3>2 DEF Resolve, RefValues
  <2>3. resolved' \in [Op -> RefValues]
    BY <1>1, <2>1, <2>2
  <2>4. outcome[o] = "canceled" => o \in asked
    BY DEF DispInv, CancelAsked
  <2> QED BY <1>1, <2>1, <2>3, <2>4, ExecStep
<1>5. CASE ResolveFails(o)
  <2>1. /\ pc[o] = "exec" /\ pc' = [pc EXCEPT ![o] = "complete"]
        /\ outcome' = [outcome EXCEPT ![o] = terminalOutcome(o)]
        /\ UNCHANGED <<ops, lastOp, loop, graphVars, ctxErr, batch, resolved,
                       registered, userCancelled, manifest, live, asked, began, plan,
                       crossOp, stops>>
    BY <1>5 DEF ResolveFails, ExecApply
  <2> QED BY <1>1, <1>2, <2>1, ExecStep
<1>6. CASE ProviderOk(o)
  <2>1. /\ pc[o] \in {"exec", "apply"} /\ pc' = [pc EXCEPT ![o] = "save"]
        /\ live' = [live EXCEPT ![Res(o)] = Intended(o)]
        /\ UNCHANGED <<ops, lastOp, loop, graphVars, ctxErr, batch, resolved, outcome,
                       registered, userCancelled, manifest, asked, began, plan,
                       crossOp, stops>>
    BY <1>6 DEF ProviderOk, InProvider
  <2>2. live' \in [Resource -> Content \cup {None}]
    BY <1>1, <2>1, ExecutingRow, IntendedType DEF Res
  <2>3. outcome[o] = "canceled" => o \in asked
    BY DEF DispInv, CancelAsked
  <2> QED BY <1>1, <2>1, <2>2, <2>3, ExecStep
<1>7. CASE ProviderFails(o)
  <2>1. /\ pc[o] \in {"exec", "apply"} /\ pc' = [pc EXCEPT ![o] = "complete"]
        /\ live' \in {live, [live EXCEPT ![Res(o)] = Intended(o)]}
        /\ outcome' = [outcome EXCEPT ![o] = terminalOutcome(o)]
        /\ UNCHANGED <<ops, lastOp, loop, graphVars, ctxErr, batch, resolved,
                       registered, userCancelled, manifest, asked, began, plan,
                       crossOp, stops>>
    BY <1>7 DEF ProviderFails, InProvider
  <2>2. live' \in [Resource -> Content \cup {None}]
    BY <1>1, <2>1, ExecutingRow, IntendedType DEF Res
  <2> QED BY <1>1, <1>2, <2>1, <2>2, ExecStep
<1>8. CASE SaveManifest(o)
  <2>1. /\ pc[o] = "save" /\ pc' = [pc EXCEPT ![o] = "complete"]
        /\ manifest' = Persisted(o)
        /\ outcome' = [outcome EXCEPT ![o] = "succeeded"]
        /\ UNCHANGED <<ops, lastOp, loop, graphVars, ctxErr, batch, resolved,
                       registered, userCancelled, live, asked, began, plan,
                       crossOp, stops>>
    BY <1>8 DEF SaveManifest
  <2>2. manifest' \in [Resource -> Content \cup {None}]
    BY <1>1, <2>1, ExecutingRow, IntendedType DEF Persisted, Res
  <2> QED BY <1>1, <2>1, <2>2, ExecStep
<1> QED BY <1>3, <1>4, <1>5, <1>6, <1>7, <1>8

\* The graph's part of the invariant and its variables, when a step leaves
\* them alone.
LEMMA GraphFrame ==
  ASSUME DispInv, UNCHANGED graphVars, ctxErr' \in BOOLEAN
  PROVE  /\ GraphInv' /\ GraphTypeOK'
         /\ UNCHANGED <<phase, tasks, state>>
BY ContextInv DEF DispInv, GraphInv, graphVars

\* What a composite gives a child is a content or nothing.
LEMMA ChildType ==
  ASSUME DispInv, NEW o \in Op, NEW x \in Child
  PROVE  ChildMayBe(o, x) \subseteq Content \cup {None}
<1>1. x.res \in Resource /\ x.val \in Value
  BY DEF Child
<1>2. Refs[x.res][x.val] \subseteq Resource
  BY <1>1, RefsAssumption
<1> SUFFICES ASSUME \A d \in Refs[x.res][x.val] : live[d] # None
             PROVE  ChildValue(x) \in Content
  BY DEF ChildMayBe
<1>3. \A d \in Refs[x.res][x.val] : live[d].val \in Value
  BY <1>2 DEF DispInv, TypeOK, Content
<1>4. [d \in Resource |-> IF d \in Refs[x.res][x.val] THEN live[d].val ELSE None] \in RefValues
  BY <1>3 DEF RefValues
<1> QED BY <1>1, <1>4 DEF ChildValue, Content

\* A composite works on a child: only the provider and the desired state change.
LEMMA ChildInv ==
  ASSUME DispInv, NEW o \in Op, NEW x \in Child, ChildStep(o, x)
  PROVE  DispInv'
<1>1. UNCHANGED <<ops, lastOp, loop, graphVars, ctxErr, batch, pc, resolved, outcome, registered,
                  userCancelled, asked, began, plan, crossOp, stops>>
  BY DEF ChildStep, execVars, histVars, procVars
<1>2. PICK new \in ChildMayBe(o, x) :
        /\ live' = [live EXCEPT ![x.res] = new]
        /\ manifest' \in {manifest, [manifest EXCEPT ![x.res] = new]}
  BY DEF ChildStep
<1>3. new \in Content \cup {None}
  BY <1>2, ChildType
<1>4. /\ live' \in [Resource -> Content \cup {None}]
      /\ manifest' \in [Resource -> Content \cup {None}]
  BY <1>2, <1>3 DEF DispInv, TypeOK
<1>5. GraphInv' /\ GraphTypeOK' /\ UNCHANGED <<phase, tasks, state>>
  BY <1>1, GraphFrame DEF DispInv, TypeOK, GraphTypeOK
<1>6. TypeOK'
  BY <1>1, <1>4, <1>5 DEF DispInv, TypeOK
<1>7. Fresh' /\ OneInFlightPerResource' /\ CanceledOnlyByUser'
  BY <1>1 DEF DispInv, Fresh, OneInFlightPerResource, CanceledOnlyByUser, Res
<1>8. LoopShape' /\ QueuedRowIsRunning' /\ ExecutingRowIsRunning'
  BY <1>1, <1>5
     DEF DispInv, LoopShape, QueuedRowIsRunning, Queued, ExecutingRowIsRunning, Executing
<1>9. OutcomeKnown' /\ CancelAsked'
  BY <1>1 DEF DispInv, OutcomeKnown, CancelAsked
<1> QED BY <1>5, <1>6, <1>7, <1>8, <1>9 DEF DispInv

\* Registration and provider lookup.
LEMMA BeginInv ==
  ASSUME DispInv, NEW o \in Op, Begin(o)
  PROVE  DispInv'
<1>1. /\ pc[o] = "idle" /\ ((loop = "exec" /\ o \in batch) \/ state[o] = "running")
      /\ registered' = registered \cup {o} /\ began' = began \cup {o} /\ plan' = plan
      /\ UNCHANGED <<ops, lastOp, loop, graphVars, ctxErr, batch, resolved,
                     userCancelled, manifest, live, asked, crossOp, stops>>
  BY DEF Begin, Entered, dataVars, procVars
<1>2. PICK step \in {"exec", "complete"} :
        /\ pc' = [pc EXCEPT ![o] = step]
        /\ step = "complete" => outcome' = [outcome EXCEPT ![o] = "failed"]
        /\ step = "exec" => outcome' = outcome
  BY DEF Begin, Goto, EndsAs
<1>3. /\ pc \in [Op -> Steps] /\ o \in Task
      /\ outcome \in [Op -> {"none", "succeeded", "failed", "canceled"}]
  BY TaskIsOp DEF DispInv, TypeOK
<1>4. /\ \A p \in Op : pc'[p] = IF p = o THEN step ELSE pc[p]
      /\ pc' \in [Op -> Steps]
      /\ outcome' \in [Op -> {"none", "succeeded", "failed", "canceled"}]
      /\ \A p \in Op : outcome'[p] = outcome[p] \/ (p = o /\ outcome'[p] = "failed")
      /\ step = "complete" => outcome'[o] = "failed"
  BY <1>2, <1>3 DEF Steps
<1>5. GraphInv' /\ GraphTypeOK' /\ UNCHANGED <<phase, tasks, state>>
  BY <1>1, GraphFrame DEF DispInv, TypeOK, GraphTypeOK
<1>6. \/ loop = "exec" /\ o \in batch
      \/ loop = "graph" /\ state[o] = "running" /\ o \in batch
  <2>1. CASE state[o] = "running"
    <3>1. o \in tasks /\ o \in InFlight
      BY <1>3, <2>1 DEF DispInv, GraphInv, StartedAreTasks, InFlight, InFlightStates
    <3>2. phase = "loop"
      BY <3>1 DEF DispInv, GraphInv, OverIsOver
    <3> QED BY <2>1, <3>1, <3>2 DEF DispInv, LoopShape
  <2> QED BY <1>1, <2>1
<1>7. ops[o].status = "running"
  BY <1>1, <1>6 DEF DispInv, QueuedRowIsRunning, Queued
<1>8. TypeOK'
  BY <1>1, <1>4, <1>5 DEF DispInv, TypeOK
<1>9. LoopShape'
  BY <1>1, <1>4, <1>5, <1>6 DEF DispInv, LoopShape, Executing
<1>10. QueuedRowIsRunning' /\ ExecutingRowIsRunning'
  BY <1>1, <1>4, <1>5, <1>7
     DEF DispInv, QueuedRowIsRunning, Queued, ExecutingRowIsRunning, Executing
<1>11. OutcomeKnown' /\ CancelAsked'
  BY <1>1, <1>4 DEF DispInv, OutcomeKnown, CancelAsked
<1>12. Fresh' /\ OneInFlightPerResource' /\ CanceledOnlyByUser'
  BY <1>1 DEF DispInv, Fresh, OneInFlightPerResource, CanceledOnlyByUser, Res
<1> QED BY <1>5, <1>8, <1>9, <1>10, <1>11, <1>12 DEF DispInv

\* The outcome is recorded, in a row that is still running.
LEMMA CompleteInv ==
  ASSUME DispInv, NEW o \in Op, CompleteOp(o)
  PROVE  DispInv'
<1>1. /\ pc[o] = "complete" /\ pc' = [pc EXCEPT ![o] = "leave"]
      /\ ops' = Complete(ops, o, outcome[o])
      /\ UNCHANGED <<lastOp, loop, graphVars, ctxErr, batch, resolved, outcome,
                     registered, userCancelled, manifest, live, asked, began, plan,
                     crossOp, stops>>
  BY DEF CompleteOp, Goto, dataVars, histVars, procVars
<1>2. ops[o].status = "running" /\ ops \in Table
  BY <1>1, ExecutingRow DEF DispInv, TypeOK
<1>3. outcome[o] \in {"succeeded", "failed", "canceled"}
  BY <1>1 DEF DispInv, TypeOK, OutcomeKnown
<1>4. /\ ops' \in Table
      /\ \A p \in Op \ {o} :
           \/ ops'[p] = ops[p]
           \/ /\ ops'[p] = NoRow
              /\ ops[p].status \in {"succeeded", "failed", "interrupted"}
      /\ \/ ops'[o] = NoRow
         \/ /\ ops'[o].status = outcome[o] /\ ops'[o].res = ops[o].res
            /\ ops'[o].type = ops[o].type /\ ops'[o].val = ops[o].val
  BY <1>1, <1>2, <1>3, CompleteTable
<1>5. NoRow.status = "none" /\ NoRow.type = "none"
  BY DEF NoRow
<1>6. /\ pc' \in [Op -> Steps]
      /\ \A p \in Op : pc'[p] = IF p = o THEN "leave" ELSE pc[p]
  BY <1>1 DEF DispInv, TypeOK, Steps
<1>7. GraphInv' /\ GraphTypeOK' /\ UNCHANGED <<phase, tasks, state>>
  BY <1>1, GraphFrame DEF DispInv, TypeOK, GraphTypeOK
<1>8. \A p \in Op : ops'[p].type = "apply" => ops'[p].val \in Value
  BY <1>4, <1>5 DEF DispInv, TypeOK
<1>9. TypeOK'
  BY <1>1, <1>4, <1>6, <1>7, <1>8 DEF DispInv, TypeOK
<1>10. Fresh'
  BY <1>1, <1>2, <1>4, <1>5 DEF DispInv, Fresh
<1>11. LoopShape'
  BY <1>1, <1>6, <1>7 DEF DispInv, LoopShape, Executing
<1>12. QueuedRowIsRunning' /\ ExecutingRowIsRunning'
  BY <1>1, <1>4, <1>6, <1>7
     DEF DispInv, QueuedRowIsRunning, Queued, ExecutingRowIsRunning, Executing
<1>13. OutcomeKnown' /\ CancelAsked'
  BY <1>1, <1>6 DEF DispInv, OutcomeKnown, CancelAsked
<1>14. OneInFlightPerResource'
  <2>1. \A p \in Op : ops'[p].status \in Active =>
                      ops[p].status \in Active /\ ops'[p].res = ops[p].res
    BY <1>3, <1>4, <1>5 DEF Active
  <2> QED BY <2>1, StillExclusive DEF DispInv
<1>15. CanceledOnlyByUser'
  BY <1>1, <1>4, <1>5 DEF DispInv, CanceledOnlyByUser, CancelAsked
<1> QED BY <1>7, <1>9, <1>10, <1>11, <1>12, <1>13, <1>14, <1>15 DEF DispInv

\* The call returns to the graph engine or to the FIFO loop.
LEMMA LeaveInv ==
  ASSUME DispInv, NEW o \in Op, Leave(o)
  PROVE  DispInv'
<1>1. /\ pc[o] = "leave" /\ pc' = [pc EXCEPT ![o] = "idle"]
      /\ registered' = registered \ {o} /\ userCancelled' = userCancelled \ {o}
      /\ outcome' = [outcome EXCEPT ![o] = "none"]
      /\ resolved' = [resolved EXCEPT ![o] = NoRefs]
      /\ UNCHANGED <<ops, lastOp, manifest, live, asked, began, plan, crossOp, stops>>
  BY DEF Leave, Goto, dataVars, histVars, procVars
<1>2. /\ pc' \in [Op -> Steps]
      /\ \A p \in Op : pc'[p] = IF p = o THEN "idle" ELSE pc[p]
  BY <1>1 DEF DispInv, TypeOK, Steps
<1>3. NoRefs \in RefValues
  BY DEF NoRefs, RefValues
<1>4. /\ resolved' \in [Op -> RefValues]
      /\ outcome' \in [Op -> {"none", "succeeded", "failed", "canceled"}]
      /\ \A p \in Op : outcome'[p] = IF p = o THEN "none" ELSE outcome[p]
  BY <1>1, <1>3 DEF DispInv, TypeOK
<1>5. OutcomeKnown' /\ CancelAsked'
  BY <1>1, <1>2, <1>4 DEF DispInv, OutcomeKnown, CancelAsked
<1>6. Fresh' /\ OneInFlightPerResource' /\ CanceledOnlyByUser'
  BY <1>1 DEF DispInv, Fresh, OneInFlightPerResource, CanceledOnlyByUser, Res
<1>7. ExecutingRowIsRunning'
  BY <1>1, <1>2 DEF DispInv, ExecutingRowIsRunning, Executing
<1>8. CASE loop = "exec"
  <2>1. loop' = "claim" /\ batch' = {} /\ UNCHANGED graphVars /\ ctxErr' = ctxErr
    BY <1>8 DEF Leave
  <2>2. GraphInv' /\ GraphTypeOK' /\ UNCHANGED <<phase, tasks, state>>
    BY <2>1, GraphFrame DEF DispInv, TypeOK, GraphTypeOK
  <2>3. TypeOK'
    BY <1>1, <1>2, <1>4, <2>1, <2>2 DEF DispInv, TypeOK
  <2>4. \A p \in Op : pc'[p] = "idle"
    BY <1>1, <1>2, <1>8 DEF DispInv, LoopShape, Executing
  <2>5. LoopShape' /\ QueuedRowIsRunning'
    BY <1>8, <2>1, <2>2, <2>4
       DEF DispInv, LoopShape, Executing, QueuedRowIsRunning, Queued
  <2> QED BY <1>5, <1>6, <1>7, <2>2, <2>3, <2>5 DEF DispInv
<1>9. CASE loop # "exec"
  <2>1. TaskReturns(o, FALSE) /\ UNCHANGED <<loop, batch>>
    BY <1>9 DEF Leave
  <2>2. o \in Task /\ state \in [Task -> TaskState]
    BY TaskIsOp DEF DispInv, TypeOK, GraphTypeOK
  <2>3. GraphInv'
    BY <2>1, <2>2, TaskReturnsInv DEF DispInv
  <2>4. /\ UNCHANGED <<phase, tasks, ctxErr>>
        /\ \A p \in Task : state'[p] = IF p = o THEN "sentOk" ELSE state[p]
    BY <2>1, <2>2 DEF TaskReturns
  <2>5. TypeOK'
    BY <1>1, <1>2, <1>4, <2>1, <2>3 DEF DispInv, TypeOK, GraphInv
  <2>6. LoopShape' /\ QueuedRowIsRunning'
    BY <1>1, <1>2, <1>9, <2>1, <2>4, TaskIsOp
       DEF DispInv, LoopShape, Executing, QueuedRowIsRunning, Queued
  <2> QED BY <1>5, <1>6, <1>7, <2>3, <2>5, <2>6 DEF DispInv
<1> QED BY <1>8, <1>9

-----------------------------------------------------------------------------
(* Clients.                                                                *)

\* A submission is admitted only for a resource with nothing in flight.
LEMMA SubmitInv ==
  ASSUME DispInv, NEW o \in Op, NEW q \in Requests, Submit(o, q)
  PROVE  DispInv'
<1>1. /\ ~ Busy(ops, q.res) /\ lastOp' = o
      /\ \E b \in BOOLEAN : ops' = Submitted(ops, o, q, b)
      /\ \A p \in Op : (p < o) <=> (p <= lastOp)
      /\ UNCHANGED <<loop, graphVars, ctxErr, batch, pc, resolved, outcome, registered,
                     userCancelled, manifest, live, asked, began, plan, crossOp, stops>>
  BY DEF Submit, execVars, dataVars, histVars, procVars
<1>2. /\ q \in Request /\ ops \in Table
      /\ q.type = "apply" => q.val \in Value
      /\ q.res \in Resource
  BY RequestsAssumption DEF DispInv, TypeOK, Request
<1>3. /\ ops' \in Table
      /\ ops'[o] = [status |-> "pending", type |-> q.type, res |-> q.res, val |-> q.val]
      /\ \A p \in Op \ {o} :
           \/ ops'[p] = ops[p]
           \/ /\ ops'[p] = NoRow
              /\ ops[p].status \in {"succeeded", "failed", "interrupted"}
  BY <1>1, <1>2, SubmitTable
<1>4. NoRow.status = "none" /\ NoRow.type = "none"
  BY DEF NoRow
<1>5. Op \subseteq Nat /\ lastOp \in Nat
  BY OpAssumption DEF DispInv, TypeOK
<1>6. ops[o].status = "none"
  BY <1>1, <1>4, <1>5 DEF DispInv, Fresh
<1>7. GraphInv' /\ GraphTypeOK' /\ UNCHANGED <<phase, tasks, state>>
  BY <1>1, GraphFrame DEF DispInv, TypeOK, GraphTypeOK
<1>8. TypeOK'
  <2>1. \A p \in Op : ops'[p].type = "apply" => ops'[p].val \in Value
    BY <1>2, <1>3, <1>4 DEF DispInv, TypeOK
  <2> QED BY <1>1, <1>3, <1>7, <2>1 DEF DispInv, TypeOK
<1>9. Fresh'
  BY <1>1, <1>3, <1>5 DEF DispInv, Fresh
<1>10. LoopShape'
  BY <1>1, <1>7 DEF DispInv, LoopShape, Executing
<1>11. QueuedRowIsRunning' /\ ExecutingRowIsRunning'
  BY <1>1, <1>3, <1>6, <1>7
     DEF DispInv, QueuedRowIsRunning, Queued, ExecutingRowIsRunning, Executing
<1>12. OutcomeKnown' /\ CancelAsked'
  BY <1>1 DEF DispInv, OutcomeKnown, CancelAsked
<1>13. OneInFlightPerResource'
  <2> SUFFICES ASSUME NEW p1 \in Op, NEW p2 \in Op, p1 # p2,
                      ops'[p1].status \in Active, ops'[p2].status \in Active
               PROVE  ops'[p1].res # ops'[p2].res
    BY DEF OneInFlightPerResource, Res
  <2>1. \A p \in Op \ {o} : ops'[p].status \in Active =>
          ops'[p] = ops[p] /\ ops[p].res # q.res
    BY <1>1, <1>3, <1>4 DEF Active, Busy
  <2>2. ops'[o].res = q.res
    BY <1>3
  <2> QED BY <2>1, <2>2 DEF DispInv, OneInFlightPerResource, Res
<1>14. CanceledOnlyByUser'
  BY <1>1, <1>3, <1>4 DEF DispInv, CanceledOnlyByUser
<1> QED BY <1>7, <1>8, <1>9, <1>10, <1>11, <1>12, <1>13, <1>14 DEF DispInv

\* A cancellation takes only a pending row, which nobody owns.
LEMMA CancelPendingInv ==
  ASSUME DispInv, NEW o \in Op, CancelPending(o)
  PROVE  DispInv'
<1>1. /\ ops[o].status = "pending" /\ ops' = WithStatus(ops, o, "canceled")
      /\ asked' = asked \cup {o}
      /\ UNCHANGED <<lastOp, loop, graphVars, ctxErr, batch, pc, resolved, outcome,
                     registered, userCancelled, manifest, live, began, plan, crossOp, stops>>
  BY DEF CancelPending, MayCancelPending, CanceledPending, execVars, dataVars, procVars
<1>2. ops \in Table /\ "canceled" \in Status
  BY DEF DispInv, TypeOK, Status
<1>3. /\ ops' \in Table /\ ops'[o].status = "canceled" /\ ops'[o].res = ops[o].res
      /\ ops'[o].type = ops[o].type /\ ops'[o].val = ops[o].val
      /\ \A p \in Op : p # o => ops'[p] = ops[p]
  <2>1. ops[o].status # "none"
    BY <1>1
  <2> QED BY <1>1, <1>2, <2>1, StatusChange
<1>4. GraphInv' /\ GraphTypeOK' /\ UNCHANGED <<phase, tasks, state>>
  BY <1>1, GraphFrame DEF DispInv, TypeOK, GraphTypeOK
<1>5. TypeOK'
  <2>1. \A p \in Op : ops'[p].type = "apply" => ops'[p].val \in Value
    BY <1>3 DEF DispInv, TypeOK
  <2> QED BY <1>1, <1>3, <1>4, <2>1 DEF DispInv, TypeOK
<1>6. Fresh'
  <2>1. NoRow.status = "none"
    BY DEF NoRow
  <2> QED BY <1>1, <1>3, <2>1 DEF DispInv, Fresh
<1>7. LoopShape'
  BY <1>1, <1>4 DEF DispInv, LoopShape, Executing
<1>8. QueuedRowIsRunning' /\ ExecutingRowIsRunning'
  BY <1>1, <1>3, <1>4
     DEF DispInv, QueuedRowIsRunning, Queued, ExecutingRowIsRunning, Executing
<1>9. OutcomeKnown' /\ CancelAsked'
  BY <1>1 DEF DispInv, OutcomeKnown, CancelAsked
<1>10. OneInFlightPerResource'
  <2>1. \A p \in Op : ops'[p].status \in Active =>
                      ops[p].status \in Active /\ ops'[p].res = ops[p].res
    BY <1>3 DEF Active
  <2> QED BY <2>1, StillExclusive DEF DispInv
<1>11. CanceledOnlyByUser' /\ asked' \subseteq Op
  BY <1>1, <1>3 DEF DispInv, CanceledOnlyByUser, TypeOK
<1> QED BY <1>4, <1>5, <1>6, <1>7, <1>8, <1>9, <1>10, <1>11 DEF DispInv

\* The cancellation of a running operation sets its flag.
LEMMA CancelRunningInv ==
  ASSUME DispInv, NEW o \in Op, CancelRunning(o)
  PROVE  DispInv'
<1>1. /\ userCancelled' = userCancelled \cup {o} /\ asked' = asked \cup {o}
      /\ UNCHANGED <<ops, lastOp, loop, graphVars, ctxErr, batch, pc, resolved,
                     outcome, registered, manifest, live, began, plan, crossOp, stops>>
  BY DEF CancelRunning, dataVars, procVars
<1>2. GraphInv' /\ GraphTypeOK' /\ UNCHANGED <<phase, tasks, state>>
  BY <1>1, GraphFrame DEF DispInv, TypeOK, GraphTypeOK
<1>3. TypeOK'
  BY <1>1, <1>2 DEF DispInv, TypeOK
<1>4. Fresh' /\ OneInFlightPerResource' /\ CanceledOnlyByUser'
  BY <1>1 DEF DispInv, Fresh, OneInFlightPerResource, CanceledOnlyByUser, Res
<1>5. LoopShape' /\ QueuedRowIsRunning' /\ ExecutingRowIsRunning'
  BY <1>1, <1>2
     DEF DispInv, LoopShape, QueuedRowIsRunning, Queued, ExecutingRowIsRunning, Executing
<1>6. OutcomeKnown' /\ CancelAsked'
  BY <1>1 DEF DispInv, OutcomeKnown, CancelAsked
<1> QED BY <1>2, <1>3, <1>4, <1>5, <1>6 DEF DispInv

-----------------------------------------------------------------------------
(* The drain loop and the process.                                         *)

\* What is noted of a batch when claiming has ended, and when there is none.
LEMMA NoPlanType == NoPlan \in Plan
BY DEF NoPlan, Plan

LEMMA PlanType ==
  ASSUME DispInv, loop = "claim", Planned
  PROVE  /\ plan' \in Plan
         /\ \A o \in batch : Res(o) \in Resource
<1>1. \A o \in batch : ops[o] \in Row /\ Res(o) \in Resource
  <2> SUFFICES ASSUME NEW o \in batch PROVE ops[o] \in Row /\ Res(o) \in Resource
    OBVIOUS
  <2>1. o \in Op /\ ops \in Table
    BY DEF DispInv, TypeOK
  <2>2. ops[o].status = "running"
    BY <2>1 DEF DispInv, LoopShape, Executing, QueuedRowIsRunning, Queued
  <2>3. ops[o] \in Row
    BY <2>1, <2>2, RowOrNone
  <2> QED BY <2>3 DEF Res, Row
<1>2. {Res(o) : o \in {p \in batch : ops[p].type = "delete"}} \in SUBSET Resource
  BY <1>1
<1>3. UNION {ChildrenOf(Res(o)) : o \in batch} \in SUBSET Resource
  <2>1. \A r \in Resource : ChildrenOf(r) \subseteq Resource
    BY EmitsAssumption DEF ChildrenOf, Child
  <2> QED BY <1>1, <2>1
<1>4. NeedsCyclic \in BOOLEAN
  BY DEF NeedsCyclic
<1> QED BY <1>1, <1>2, <1>3, <1>4 DEF Planned, Plan

\* A step that changes neither the table nor any execute call.
LEMMA LoopStep ==
  ASSUME DispInv, GraphInv', loop' \in {"down", "wait", "claim", "graph", "exec"},
         batch' \subseteq Op, LoopShape', QueuedRowIsRunning', crossOp' = crossOp,
         stops' \in 0..MaxStops,
         UNCHANGED <<ops, lastOp, pc, resolved, outcome, registered, userCancelled,
                     manifest, live, asked, began>>,
         plan' = plan \/ plan' \in Plan
  PROVE  DispInv'
<1>1. TypeOK'
  BY DEF DispInv, TypeOK, GraphInv
<1>2. Fresh' /\ OneInFlightPerResource' /\ CanceledOnlyByUser'
  BY DEF DispInv, Fresh, OneInFlightPerResource, CanceledOnlyByUser, Res
<1>3. ExecutingRowIsRunning' /\ OutcomeKnown' /\ CancelAsked'
  BY DEF DispInv, ExecutingRowIsRunning, Executing, OutcomeKnown, CancelAsked
<1> QED BY <1>1, <1>2, <1>3 DEF DispInv

\* Waking up, and finding nothing to do.
LEMMA IdleLoopInv ==
  ASSUME DispInv, Wake \/ DrainEmpty
  PROVE  DispInv'
<1>1. /\ loop \in {"wait", "claim"} /\ loop' \in {"wait", "claim"} /\ batch = {}
      /\ UNCHANGED <<graphVars, ctxErr>>
      /\ UNCHANGED <<ops, lastOp, batch, pc, resolved, outcome, registered,
                     userCancelled, manifest, live, asked, began, plan, crossOp, stops>>
  BY DEF Wake, DrainEmpty, ClaimingEnds, execVars, dataVars, histVars, procVars,
         DispInv, LoopShape
<1>2. GraphInv' /\ UNCHANGED <<phase, tasks, state>>
  BY <1>1, GraphFrame DEF DispInv, TypeOK, GraphTypeOK
<1>3. LoopShape' /\ QueuedRowIsRunning'
  BY <1>1, <1>2 DEF DispInv, LoopShape, Executing, QueuedRowIsRunning, Queued
<1>4. batch' \subseteq Op /\ stops' \in 0..MaxStops
  BY <1>1 DEF DispInv, TypeOK
<1> QED BY <1>1, <1>2, <1>3, <1>4, LoopStep

\* Claiming turns a pending row, of nobody, into a running one of the batch.
LEMMA ClaimInv ==
  ASSUME DispInv, NEW o \in Op, Claim(o)
  PROVE  DispInv'
<1>1. /\ loop = "claim" /\ ops[o].status = "pending"
      /\ ops' = WithStatus(ops, o, "running")
      /\ batch' = batch \cup {o} /\ loop' = IF crossOp THEN "claim" ELSE "exec"
      /\ UNCHANGED <<lastOp, graphVars, ctxErr, pc, resolved, outcome, registered,
                     userCancelled, manifest, live, asked, began, plan, crossOp, stops>>
  BY DEF Claim, NextPending, Claimed, dataVars, histVars, procVars
<1>2. ops \in Table /\ "running" \in Status
  BY DEF DispInv, TypeOK, Status
<1>3. /\ ops' \in Table /\ ops'[o].status = "running" /\ ops'[o].res = ops[o].res
      /\ ops'[o].type = ops[o].type /\ ops'[o].val = ops[o].val
      /\ \A p \in Op : p # o => ops'[p] = ops[p]
  <2>1. ops[o].status # "none"
    BY <1>1
  <2> QED BY <1>1, <1>2, <2>1, StatusChange
<1>4. GraphInv' /\ GraphTypeOK' /\ UNCHANGED <<phase, tasks, state>>
  BY <1>1, GraphFrame DEF DispInv, TypeOK, GraphTypeOK
<1>5. TypeOK'
  <2>1. \A p \in Op : ops'[p].type = "apply" => ops'[p].val \in Value
    BY <1>3 DEF DispInv, TypeOK
  <2>2. crossOp \in BOOLEAN
    BY CrossOpAssumption DEF DispInv, TypeOK
  <2> QED BY <1>1, <1>3, <1>4, <2>1, <2>2 DEF DispInv, TypeOK
<1>6. Fresh'
  <2>1. NoRow.status = "none"
    BY DEF NoRow
  <2> QED BY <1>1, <1>3, <2>1 DEF DispInv, Fresh
<1>7. \A p \in Op : pc[p] = "idle"
  BY <1>1 DEF DispInv, LoopShape, Executing
<1>8. LoopShape'
  BY <1>1, <1>4, <1>7 DEF DispInv, LoopShape, Executing
<1>9. QueuedRowIsRunning' /\ ExecutingRowIsRunning'
  BY <1>1, <1>3, <1>4, <1>7
     DEF DispInv, QueuedRowIsRunning, Queued, ExecutingRowIsRunning, Executing
<1>10. OutcomeKnown' /\ CancelAsked'
  BY <1>1 DEF DispInv, OutcomeKnown, CancelAsked
<1>11. OneInFlightPerResource'
  <2>1. \A p \in Op : ops'[p].status \in Active =>
                      ops[p].status \in Active /\ ops'[p].res = ops[p].res
    BY <1>1, <1>3 DEF Active
  <2> QED BY <2>1, StillExclusive DEF DispInv
<1>12. CanceledOnlyByUser'
  BY <1>1, <1>3 DEF DispInv, CanceledOnlyByUser
<1> QED BY <1>4, <1>5, <1>6, <1>8, <1>9, <1>10, <1>11, <1>12 DEF DispInv

\* The batch's edges are a graph over operations.
LEMMA BatchGraph ==
  ASSUME DispInv
  PROVE  batch \in SUBSET Task /\ BatchEdges(batch) \in [Task -> SUBSET Task]
<1>1. batch \in SUBSET Task
  BY TaskIsOp DEF DispInv, TypeOK
<1>2. crossOpEdges(batch) \in [Task -> SUBSET Task]
  BY <1>1 DEF crossOpEdges
<1>3. NoDeps \in [Task -> SUBSET Task]
  BY DEF NoDeps
<1> QED BY <1>1, <1>2, <1>3 DEF BatchEdges

\* The batch is handed to RunGraph.
LEMMA DrainStartsInv ==
  ASSUME DispInv, NEW c \in Concurrency, NEW S \in SUBSET batch,
         DrainStarts(c, S) \/ DrainCanceled(c)
  PROVE  DispInv'
<1>1. /\ loop = "claim" /\ loop' = "graph"
      /\ UNCHANGED <<ops, lastOp, batch, pc, resolved, outcome, registered,
                     userCancelled, manifest, live, asked, began, crossOp, stops>>
  BY DEF DrainStarts, DrainCanceled, ClaimingEnds, Planned, execVars, dataVars, procVars
<1>2. batch \in SUBSET Task /\ BatchEdges(batch) \in [Task -> SUBSET Task]
  BY BatchGraph
<1>3. GraphInv' /\ tasks' = batch /\ phase' # "idle"
  <2>1. CASE DrainStarts(c, S)
    <3>1. CallStarts(batch, BatchEdges(batch), c, S)
      BY <2>1 DEF DrainStarts
    <3>2. S \in SUBSET InitiallyReady(batch, BatchEdges(batch))
      BY <3>1 DEF CallStarts, Fills
    <3>3. GraphInv'
      BY <1>2, <3>1, <3>2, CallStartsInv DEF DispInv
    <3> QED BY <3>1, <3>3 DEF CallStarts
  <2>2. CASE DrainCanceled(c)
    <3>1. CallCanceled(batch, BatchEdges(batch), c)
      BY <2>2 DEF DrainCanceled
    <3>2. GraphInv'
      BY <1>2, <3>1, CallCanceledInv DEF DispInv
    <3> QED BY <3>1, <3>2 DEF CallCanceled
  <2> QED BY <2>1, <2>2
<1>4. \A p \in Op : pc[p] = "idle"
  BY <1>1 DEF DispInv, LoopShape, Executing
<1>5. LoopShape'
  BY <1>1, <1>3, <1>4 DEF LoopShape, Executing
<1>6. QueuedRowIsRunning'
  BY <1>1, <1>4 DEF DispInv, QueuedRowIsRunning, Queued
<1>7. batch' \subseteq Op /\ stops' \in 0..MaxStops /\ plan' \in Plan
  BY <1>1, PlanType DEF DispInv, TypeOK, DrainStarts, DrainCanceled, ClaimingEnds
<1> QED BY <1>1, <1>3, <1>5, <1>6, <1>7, LoopStep

\* RunGraph receives a result; what it launches then was claimed long ago.
LEMMA GraphReceiveInv ==
  ASSUME DispInv, NEW t \in Task, GraphReceive(t)
  PROVE  DispInv'
<1>1. UNCHANGED <<ops, lastOp, loop, batch, pc, resolved, outcome, registered,
                  userCancelled, manifest, live, asked, began, plan, crossOp, stops>>
  BY DEF GraphReceive, execVars, dataVars, histVars, procVars
<1>2. state \in [Task -> TaskState] /\ t \in Op
  BY TaskIsOp DEF DispInv, GraphInv, GraphTypeOK
<1> DEFINE Rcvd ==
      /\ GraphInv' /\ phase = "loop" /\ UNCHANGED <<phase, tasks>>
      /\ state[t] \in {"sentOk", "sentErr"}
      /\ state'[t] \in {"ok", "failed"}
      /\ \A u \in Task \ {t} : \/ state'[u] = state[u]
                               \/ state[u] = "waiting" /\ state'[u] = "running"
<1>3. Rcvd
  <2>1. CASE ReceiveAndStop(t)
    <3>1. GraphInv'
      BY <2>1, ReceiveAndStopInv DEF DispInv
    <3> QED BY <1>2, <2>1, <3>1 DEF ReceiveAndStop, Received
  <2>2. ASSUME NEW S \in SUBSET (ready \cup NewlyReady(t)), ReceiveAndLaunch(t, S)
        PROVE  Rcvd
    <3>1. GraphInv' /\ \A u \in S : state[u] = "waiting"
      BY <2>2, ReceiveAndLaunchInv DEF DispInv
    <3>2. /\ phase = "loop" /\ state[t] = "sentOk" /\ UNCHANGED <<phase, tasks>>
          /\ state' = Launch(Received(t), S)
      BY <2>2 DEF ReceiveAndLaunch
    <3>3. \A u \in Task : state'[u] = IF u \in S THEN "running"
                                     ELSE IF u = t THEN "ok" ELSE state[u]
      BY <1>2, <3>2 DEF Launch, Received
    <3> QED BY <3>1, <3>2, <3>3
  <2> QED BY <2>1, <2>2 DEF GraphReceive
<1>4. LoopShape'
  BY <1>1, <1>2, <1>3, TaskIsOp DEF DispInv, LoopShape, Executing
<1>5. QueuedRowIsRunning'
  BY <1>1, <1>2, <1>3, TaskIsOp DEF DispInv, QueuedRowIsRunning, Queued
<1>6. batch' \subseteq Op /\ stops' \in 0..MaxStops /\ loop' \in {"down", "wait", "claim", "graph", "exec"}
  BY <1>1 DEF DispInv, TypeOK
<1> QED BY <1>1, <1>3, <1>4, <1>5, <1>6, LoopStep

\* RunGraph returns when none of its tasks is in flight.
LEMMA GraphReturnsInv ==
  ASSUME DispInv, GraphReturns
  PROVE  DispInv'
<1>1. /\ Return
      /\ UNCHANGED <<ops, lastOp, loop, batch, pc, resolved, outcome, registered,
                     userCancelled, manifest, live, asked, began, plan, crossOp, stops>>
  BY DEF GraphReturns, execVars, dataVars, histVars, procVars
<1>2. GraphInv'
  BY <1>1, ReturnInv DEF DispInv
<1>3. /\ phase = "loop" /\ phase' = "returned" /\ UNCHANGED <<tasks, state>>
  BY <1>1 DEF Return
<1>4. LoopShape' /\ QueuedRowIsRunning'
  BY <1>1, <1>3 DEF DispInv, LoopShape, Executing, QueuedRowIsRunning, Queued
<1>5. batch' \subseteq Op /\ stops' \in 0..MaxStops
      /\ loop' \in {"down", "wait", "claim", "graph", "exec"}
  BY <1>1 DEF DispInv, TypeOK
<1> QED BY <1>1, <1>2, <1>4, <1>5, LoopStep

\* After RunGraph no execute call is left, and the loop waits again.
LEMMA DrainDoneInv ==
  ASSUME DispInv, DrainDone
  PROVE  DispInv'
<1>1. /\ Discard /\ loop' = "wait" /\ batch' = {} /\ ctxErr' = ctxErr /\ plan' = NoPlan
      /\ UNCHANGED <<ops, lastOp, pc, resolved, outcome, registered,
                     userCancelled, manifest, live, asked, began, crossOp, stops>>
  BY DEF DrainDone, dataVars, histVars, procVars
<1>2. GraphInv'
  BY <1>1, DiscardInv DEF DispInv, GraphInv, GraphTypeOK
<1>3. phase = "returned" /\ phase' = "idle"
  BY <1>1 DEF Discard
<1>4. \A p \in Op : pc[p] = "idle"
  <2>1. \A p \in Task : state[p] # "running"
    BY <1>3 DEF DispInv, GraphInv, OverIsOver, InFlight, InFlightStates
  <2> QED BY <1>3, <2>1, TaskIsOp DEF DispInv, LoopShape, Executing
<1>5. LoopShape' /\ QueuedRowIsRunning'
  BY <1>1, <1>3, <1>4 DEF LoopShape, Executing, QueuedRowIsRunning, Queued
<1>6. batch' \subseteq Op /\ stops' \in 0..MaxStops /\ plan' \in Plan
  BY <1>1, NoPlanType DEF DispInv, TypeOK
<1> QED BY <1>1, <1>2, <1>5, <1>6, LoopStep

\* A shutdown only cancels the context.
LEMMA ShutdownInv ==
  ASSUME DispInv, Shutdown
  PROVE  DispInv'
<1>1. /\ ctxErr' = TRUE /\ stops < MaxStops /\ stops' = stops + 1
      /\ UNCHANGED graphVars
      /\ UNCHANGED <<ops, lastOp, loop, batch, pc, resolved, outcome, registered,
                     userCancelled, manifest, live, asked, began, plan, crossOp>>
  BY DEF Shutdown, execVars, dataVars, histVars
<1>2. GraphInv' /\ UNCHANGED <<phase, tasks, state>>
  BY <1>1, GraphFrame
<1>3. LoopShape' /\ QueuedRowIsRunning'
  BY <1>1, <1>2 DEF DispInv, LoopShape, Executing, QueuedRowIsRunning, Queued
<1>4. batch' \subseteq Op /\ loop' \in {"down", "wait", "claim", "graph", "exec"}
  BY <1>1 DEF DispInv, TypeOK
<1>5. stops' \in 0..MaxStops
  BY <1>1, MaxStopsAssumption DEF DispInv, TypeOK
<1> QED BY <1>1, <1>2, <1>3, <1>4, <1>5, LoopStep

\* The end of the process, orderly or not, leaves only the tables.
LEMMA ProcessEndsInv ==
  ASSUME DispInv, Exit \/ Crash
  PROVE  DispInv'
<1>1. /\ ProcessEnds /\ stops' \in 0..MaxStops
  BY MaxStopsAssumption DEF Exit, Crash, DispInv, TypeOK
<1>2. /\ loop' = "down" /\ ctxErr' = FALSE /\ phase' = "idle" /\ batch' = {}
      /\ state' = [t \in Task |-> "waiting"]
      /\ pc' = [o \in Op |-> "idle"] /\ outcome' = [o \in Op |-> "none"]
      /\ resolved' = [o \in Op |-> NoRefs] /\ registered' = {} /\ userCancelled' = {}
      /\ plan' = NoPlan
      /\ UNCHANGED <<ops, lastOp, manifest, live, asked, began, crossOp>>
  BY <1>1 DEF ProcessEnds, dataVars, histVars
<1>3. GraphTypeOK'
  <2>1. /\ tasks' = {} /\ deps' = NoDeps /\ limit' = 1 /\ ready' = {} /\ firstErr' = {}
        /\ indegree' = [t \in Task |-> 0] /\ stopLaunch' = FALSE /\ ret' = NoRet
    BY <1>1 DEF ProcessEnds
  <2>2. ret' \in [kind : RetKind, tasks : SUBSET Task]
    BY <2>1 DEF NoRet, RetKind
  <2>3. /\ state' \in [Task -> TaskState] /\ indegree' \in [Task -> Nat]
        /\ deps' \in [Task -> SUBSET Task]
    BY <1>2, <2>1 DEF TaskState, NoDeps
  <2>4. stopLaunch' \in BOOLEAN /\ ctxErr' \in BOOLEAN
    BY <1>2, <2>1
  <2> QED BY <1>2, <2>1, <2>2, <2>3, <2>4 DEF GraphTypeOK
<1>4. GraphInv'
  BY <1>2, <1>3, BlankStep
<1>5. NoRefs \in RefValues
  BY DEF NoRefs, RefValues
<1>6. /\ pc' \in [Op -> Steps] /\ resolved' \in [Op -> RefValues]
      /\ outcome' \in [Op -> {"none", "succeeded", "failed", "canceled"}]
  BY <1>2, <1>5 DEF Steps
<1>7. TypeOK'
  BY <1>1, <1>2, <1>3, <1>6, NoPlanType DEF DispInv, TypeOK
<1>8. Fresh' /\ OneInFlightPerResource' /\ CanceledOnlyByUser'
  BY <1>2 DEF DispInv, Fresh, OneInFlightPerResource, CanceledOnlyByUser, Res
<1>9. LoopShape' /\ QueuedRowIsRunning' /\ ExecutingRowIsRunning'
  BY <1>2 DEF LoopShape, Executing, QueuedRowIsRunning, Queued, ExecutingRowIsRunning
<1>10. OutcomeKnown' /\ CancelAsked'
  BY <1>2 DEF OutcomeKnown, CancelAsked
<1> QED BY <1>4, <1>7, <1>8, <1>9, <1>10 DEF DispInv

\* The sweep meets no execute call: the process has only just started.
LEMMA RestartInv ==
  ASSUME DispInv, Restart
  PROVE  DispInv'
<1>1. /\ loop = "down" /\ loop' = "claim" /\ ops' = MarkRunningInterrupted(ops)
      /\ UNCHANGED <<lastOp, graphVars, ctxErr, batch, pc, resolved, outcome,
                     registered, userCancelled, manifest, live, asked, began, plan,
                     crossOp, stops>>
  BY DEF Restart, execVars, dataVars, histVars, procVars
<1>2. /\ ops' \in Table
      /\ \A o \in Op :
           IF ops[o].status = "running"
           THEN /\ ops'[o].status = "interrupted" /\ ops'[o].res = ops[o].res
                /\ ops'[o].type = ops[o].type /\ ops'[o].val = ops[o].val
           ELSE ops'[o] = ops[o]
  BY <1>1, SweepTable DEF DispInv, TypeOK
<1>3. GraphInv' /\ GraphTypeOK' /\ UNCHANGED <<phase, tasks, state>>
  BY <1>1, GraphFrame DEF DispInv, TypeOK, GraphTypeOK
<1>4. batch = {} /\ \A o \in Op : pc[o] = "idle"
  BY <1>1 DEF DispInv, LoopShape, Executing
<1>5. TypeOK'
  <2>1. \A o \in Op : ops'[o].type = "apply" => ops'[o].val \in Value
    BY <1>2 DEF DispInv, TypeOK
  <2> QED BY <1>1, <1>2, <1>3, <2>1 DEF DispInv, TypeOK
<1>6. Fresh'
  <2>1. NoRow.status = "none"
    BY DEF NoRow
  <2> QED BY <1>1, <1>2, <2>1 DEF DispInv, Fresh
<1>7. LoopShape' /\ QueuedRowIsRunning' /\ ExecutingRowIsRunning'
  BY <1>1, <1>3, <1>4
     DEF DispInv, LoopShape, Executing, QueuedRowIsRunning, Queued, ExecutingRowIsRunning
<1>8. OutcomeKnown' /\ CancelAsked'
  BY <1>1 DEF DispInv, OutcomeKnown, CancelAsked
<1>9. OneInFlightPerResource'
  <2>1. \A p \in Op : ops'[p].status \in Active =>
                      ops[p].status \in Active /\ ops'[p].res = ops[p].res
    BY <1>2 DEF Active
  <2> QED BY <2>1, StillExclusive DEF DispInv
<1>10. CanceledOnlyByUser'
  BY <1>1, <1>2 DEF DispInv, CanceledOnlyByUser
<1> QED BY <1>3, <1>5, <1>6, <1>7, <1>8, <1>9, <1>10 DEF DispInv

-----------------------------------------------------------------------------
(* The specification.                                                      *)

\* The invariant holds in an empty controller.
LEMMA InitDisp == Init => DispInv
<1> SUFFICES ASSUME Init PROVE DispInv
  OBVIOUS
<1>1. /\ ops = [o \in Op |-> NoRow] /\ lastOp = 0
      /\ manifest = [r \in Resource |-> None] /\ live = [r \in Resource |-> None]
      /\ loop = "claim" /\ crossOp \in CrossOp /\ batch = {} /\ stops = 0
      /\ pc = [o \in Op |-> "idle"] /\ outcome = [o \in Op |-> "none"]
      /\ resolved = [o \in Op |-> NoRefs]
      /\ registered = {} /\ userCancelled = {} /\ asked = {} /\ began = {}
      /\ plan = NoPlan
  BY DEF Init
<1>2. GraphInv /\ GraphTypeOK /\ phase = "idle"
  BY InitInv DEF Init, GraphInit, GraphIdle, GraphInv
<1>3. NoRow.status = "none" /\ NoRow.type = "none"
  BY DEF NoRow
<1>4. /\ pc \in [Op -> Steps]
      /\ outcome \in [Op -> {"none", "succeeded", "failed", "canceled"}]
      /\ ops \in Table
  BY <1>1 DEF Steps, Table
<1>5. NoRefs \in RefValues
  BY DEF NoRefs, RefValues
<1>6. resolved \in [Op -> RefValues]
  BY <1>1, <1>5
<1>7. \A o \in Op : ops[o].status = "none" /\ ops[o].type = "none"
  BY <1>1, <1>3
<1>8. TypeOK
  BY <1>1, <1>2, <1>4, <1>6, <1>7, MaxStopsAssumption DEF TypeOK, Plan, NoPlan
<1>9. Fresh /\ LoopShape /\ QueuedRowIsRunning
  BY <1>1, <1>2 DEF Fresh, LoopShape, Executing, QueuedRowIsRunning, Queued
<1>10. ExecutingRowIsRunning /\ OutcomeKnown /\ CancelAsked
  BY <1>1 DEF ExecutingRowIsRunning, Executing, OutcomeKnown, CancelAsked
<1>11. OneInFlightPerResource /\ CanceledOnlyByUser
  BY <1>7 DEF OneInFlightPerResource, CanceledOnlyByUser, Active
<1> QED BY <1>2, <1>8, <1>9, <1>10, <1>11 DEF DispInv

\* Nothing happens.
LEMMA StutterInv ==
  ASSUME DispInv, UNCHANGED vars
  PROVE  DispInv'
<1>1. /\ UNCHANGED graphVars /\ ctxErr' = ctxErr
      /\ UNCHANGED <<ops, lastOp, loop, batch, pc, resolved, outcome, registered,
                     userCancelled, manifest, live, asked, began, plan, crossOp, stops>>
  BY DEF vars, execVars, dataVars, histVars, procVars
<1>2. GraphInv' /\ UNCHANGED <<phase, tasks, state>>
  BY <1>1, GraphFrame DEF DispInv, TypeOK, GraphTypeOK
<1>3. LoopShape' /\ QueuedRowIsRunning'
  BY <1>1, <1>2 DEF DispInv, LoopShape, Executing, QueuedRowIsRunning, Queued
<1>4. /\ batch' \subseteq Op /\ stops' \in 0..MaxStops
      /\ loop' \in {"down", "wait", "claim", "graph", "exec"}
  BY <1>1 DEF DispInv, TypeOK
<1> QED BY <1>1, <1>2, <1>3, <1>4, LoopStep

\* Every step preserves the invariant.
LEMMA NextDisp == DispInv /\ [Next]_vars => DispInv'
<1> SUFFICES ASSUME DispInv, [Next]_vars PROVE DispInv'
  OBVIOUS
<1>1. CASE Client
  BY <1>1, SubmitInv, CancelPendingInv, CancelRunningInv DEF Client
<1>2. CASE Drain
  <2>1. \A c \in Concurrency, S \in SUBSET batch : DrainStarts(c, S) => DispInv'
    BY DrainStartsInv
  <2>2. \A c \in Concurrency : DrainCanceled(c) => DispInv'
    <3>1. {} \in SUBSET batch
      OBVIOUS
    <3> QED BY <3>1, DrainStartsInv
  <2> QED BY <1>2, <2>1, <2>2, IdleLoopInv, ClaimInv, GraphReceiveInv,
             GraphReturnsInv, DrainDoneInv DEF Drain
<1>3. ASSUME NEW o \in Op, Execute(o) PROVE DispInv'
  BY <1>3, BeginInv, MiddleInv, CompleteInv, LeaveInv DEF Execute
<1>4. CASE Shutdown
  BY <1>4, ShutdownInv
<1>5. CASE Exit \/ Crash
  BY <1>5, ProcessEndsInv
<1>6. CASE Restart
  BY <1>6, RestartInv
<1>7. ASSUME NEW o \in Op, NEW x \in Child, ChildStep(o, x) PROVE DispInv'
  BY <1>7, ChildInv
<1>8. CASE UNCHANGED vars
  BY <1>8, StutterInv
<1> QED BY <1>1, <1>2, <1>3, <1>4, <1>5, <1>6, <1>7, <1>8 DEF Next

-----------------------------------------------------------------------------
(* Theorems.                                                               *)

\* The whole invariant, for every configuration of the controller.
THEOREM DispatcherInvariant == Spec => []DispInv
<1> QED BY InitDisp, NextDisp, PTL DEF Spec

\* The tables and the dispatcher's memory keep their types: in particular
\* Complete only ever records succeeded, failed or canceled.
THEOREM DispatcherTypes == Spec => []TypeOK
<1>1. DispInv => TypeOK
  BY DEF DispInv
<1> QED BY <1>1, DispatcherInvariant, PTL

\* Submit's fail-fast rule: a resource never has two operations in flight.
THEOREM OneInFlight == Spec => []OneInFlightPerResource
<1>1. DispInv => OneInFlightPerResource
  BY DEF DispInv
<1> QED BY <1>1, DispatcherInvariant, PTL

\* Complete's unconditional update never overwrites a status that somebody
\* else has written: an executing operation's row is still running.
THEOREM ExecutingRows == Spec => []ExecutingRowIsRunning
<1>1. DispInv => ExecutingRowIsRunning
  BY DEF DispInv
<1> QED BY <1>1, DispatcherInvariant, PTL

\* The status canceled is the record of a user's request, never of a shutdown
\* or of a failing provider.
THEOREM CanceledByUser == Spec => []CanceledOnlyByUser
<1>1. DispInv => CanceledOnlyByUser
  BY DEF DispInv
<1> QED BY <1>1, DispatcherInvariant, PTL

-----------------------------------------------------------------------------
(* The dispatcher implements OpLifecycle.                                  *)

\* How one row may change in one step.
RowStep(o) ==
  \/ Stage(o)' = Stage(o) /\ Res(o)' = Res(o)
  \/ Stage(o) = "none" /\ Stage(o)' = "queued" /\ Res(o)' \in Resource
  \/ /\ Stage(o) = "queued" /\ Stage(o)' \in {"started", "canceled"}
     /\ Res(o)' = Res(o)
  \/ /\ Stage(o) = "started" /\ Stage(o)' \in Terminal
     /\ Res(o)' = Res(o)
  \/ /\ Stage(o) \in {"started"} \cup Terminal /\ Stage(o)' = "forgotten"
     /\ Res(o)' = None

\* What the mapping shows of a row.
LEMMA StageOf ==
  ASSUME DispInv, NEW o \in Op
  PROVE  /\ ops[o].status = "pending" <=> Stage(o) = "queued"
         /\ ops[o].status = "running" <=> Stage(o) = "started"
         /\ \A st \in Terminal : ops[o].status = st <=> Stage(o) = st
         /\ ops[o].status = "none" => Stage(o) = IF o <= lastOp THEN "forgotten" ELSE "none"
         /\ ops[o].status # "none" => o <= lastOp
<1>1. ops[o].status \in Status \cup {"none"}
  <2>1. ops[o] \in Row \/ ops[o] = NoRow
    BY RowOrNone DEF DispInv, TypeOK
  <2> QED BY <2>1 DEF Row, NoRow
<1>2. o \in Nat /\ lastOp \in Nat
  BY OpAssumption DEF DispInv, TypeOK
<1>3. ops[o].status # "none" => o <= lastOp
  BY <1>2 DEF DispInv, Fresh, NoRow
<1> QED BY <1>1, <1>3 DEF Stage, Status, Terminal

\* The same in the state after a step.
LEMMA StageNext ==
  ASSUME DispInv', NEW o \in Op
  PROVE  /\ ops'[o].status = "pending" <=> Stage(o)' = "queued"
         /\ ops'[o].status = "running" <=> Stage(o)' = "started"
         /\ \A st \in Terminal : ops'[o].status = st <=> Stage(o)' = st
         /\ ops'[o].status = "none" => Stage(o)' = IF o <= lastOp' THEN "forgotten" ELSE "none"
         /\ ops'[o].status # "none" => o <= lastOp'
<1>1. ops'[o].status \in Status \cup {"none"}
  <2>1. ops' \in Table
    BY DEF DispInv, TypeOK
  <2>2. ops'[o] \in Row \/ ops'[o] = NoRow
    BY <2>1, RowOrNone
  <2> QED BY <2>2 DEF Row, NoRow
<1>2. o \in Nat /\ lastOp' \in Nat
  BY OpAssumption DEF DispInv, TypeOK
<1>3. ops'[o].status # "none" => o <= lastOp'
  BY <1>2 DEF DispInv, Fresh, NoRow
<1> QED BY <1>1, <1>3 DEF Stage, Status, Terminal

\* A row that stays as it is, and one that is pruned, while no number is given.
LEMMA UntouchedRow ==
  ASSUME DispInv, DispInv', NEW o \in Op, lastOp' = lastOp,
         \/ ops'[o] = ops[o]
         \/ ops'[o] = NoRow /\ ops[o].status \in {"succeeded", "failed", "interrupted"}
  PROVE  RowStep(o)
<1>1. CASE ops'[o] = ops[o]
  BY <1>1 DEF RowStep, Stage, Res
<1>2. CASE ops'[o] = NoRow /\ ops[o].status \in {"succeeded", "failed", "interrupted"}
  <2>1. Stage(o) \in Terminal /\ o <= lastOp
    BY <1>2, StageOf DEF Terminal
  <2>2. Stage(o)' = "forgotten"
    BY <1>2, <2>1, StageNext DEF NoRow
  <2> QED BY <1>2, <2>1, <2>2 DEF RowStep, Res, NoRow
<1> QED BY <1>1, <1>2

LEMMA SubmitRows ==
  ASSUME DispInv, DispInv', NEW o \in Op, NEW q \in Requests, Submit(o, q), NEW p \in Op
  PROVE  RowStep(p)
<1>1. /\ \A x \in Op : (x < o) <=> (x <= lastOp)
      /\ lastOp' = o /\ lastOp \in Nat /\ o \in Nat /\ p \in Nat
  BY OpAssumption DEF Submit, DispInv, TypeOK
<1>2. PICK b \in BOOLEAN : ops' = Submitted(ops, o, q, b)
  BY DEF Submit
<1>3. /\ ops'[o] = [status |-> "pending", type |-> q.type, res |-> q.res, val |-> q.val]
      /\ \A x \in Op \ {o} :
              \/ ops'[x] = ops[x]
              \/ ops'[x] = NoRow /\ ops[x].status \in {"succeeded", "failed", "interrupted"}
  <2>1. q \in Request /\ ops \in Table
    BY RequestsAssumption DEF DispInv, TypeOK
  <2> QED BY <1>2, <2>1, SubmitTable
<1>4. CASE p = o
  <2>1. ops[o] = NoRow
    BY <1>1 DEF DispInv, Fresh
  <2>2. Stage(o) = "none"
    BY <1>1, <2>1, StageOf DEF NoRow
  <2>3. Stage(o)' = "queued"
    BY <1>3, StageNext
  <2>4. q.res \in Resource
    BY RequestsAssumption DEF Request
  <2> QED BY <1>3, <1>4, <2>2, <2>3, <2>4 DEF RowStep, Res
<1>5. CASE p # o /\ ops'[p] = ops[p]
  <2>1. p <= lastOp' <=> p <= lastOp
    BY <1>1, <1>5
  <2> QED BY <1>5, <2>1 DEF RowStep, Stage, Res
<1>6. CASE p # o /\ ops'[p] = NoRow /\ ops[p].status \in {"succeeded", "failed", "interrupted"}
  <2>1. Stage(p) \in Terminal /\ p <= lastOp
    BY <1>6, StageOf DEF Terminal
  <2>2. p <= lastOp'
    BY <1>1, <2>1
  <2>3. Stage(p)' = "forgotten"
    BY <1>6, <2>2, StageNext DEF NoRow
  <2> QED BY <1>6, <2>1, <2>3 DEF RowStep, Res, NoRow
<1> QED BY <1>3, <1>4, <1>5, <1>6

\* Cancellation of a pending row, and claims.
LEMMA StatusRows ==
  ASSUME DispInv, DispInv', NEW o \in Op, CancelPending(o) \/ Claim(o), NEW p \in Op
  PROVE  RowStep(p)
<1>1. /\ lastOp' = lastOp /\ ops[o].status = "pending"
      /\ \E st \in {"canceled", "running"} : ops' = WithStatus(ops, o, st)
  BY DEF CancelPending, MayCancelPending, CanceledPending, Claim, NextPending, Claimed
<1>2. PICK st \in {"canceled", "running"} : ops' = WithStatus(ops, o, st)
  BY <1>1
<1>3. /\ ops'[o].status = st /\ ops'[o].res = ops[o].res
      /\ \A x \in Op : x # o => ops'[x] = ops[x]
  BY <1>1, <1>2, StatusChange DEF DispInv, TypeOK, Status
<1>4. CASE p = o
  <2>1. Stage(o) = "queued" /\ Stage(o)' \in {"started", "canceled"}
    BY <1>1, <1>3, StageOf, StageNext DEF Terminal
  <2> QED BY <1>3, <1>4, <2>1 DEF RowStep, Res
<1>5. CASE p # o
  BY <1>1, <1>3, <1>5, UntouchedRow
<1> QED BY <1>4, <1>5

LEMMA CompleteRows ==
  ASSUME DispInv, DispInv', NEW o \in Op, CompleteOp(o), NEW p \in Op
  PROVE  RowStep(p)
<1>1. /\ lastOp' = lastOp /\ pc[o] = "complete" /\ ops' = Complete(ops, o, outcome[o])
  BY DEF CompleteOp
<1>2. ops[o].status = "running" /\ outcome[o] \in {"succeeded", "failed", "canceled"}
  BY <1>1 DEF DispInv, ExecutingRowIsRunning, Executing, OutcomeKnown, TypeOK
<1>3. /\ \A x \in Op \ {o} :
              \/ ops'[x] = ops[x]
              \/ ops'[x] = NoRow /\ ops[x].status \in {"succeeded", "failed", "interrupted"}
      /\ \/ ops'[o] = NoRow
         \/ ops'[o].status = outcome[o] /\ ops'[o].res = ops[o].res
  BY <1>1, <1>2, CompleteTable DEF DispInv, TypeOK
<1>4. CASE p = o
  <2>1. Stage(o) = "started" /\ o <= lastOp
    BY <1>2, StageOf
  <2>2. CASE ops'[o] = NoRow
    <3>1. Stage(o)' = "forgotten"
      BY <1>1, <2>1, <2>2, StageNext DEF NoRow
    <3> QED BY <1>4, <2>1, <2>2, <3>1 DEF RowStep, Res, NoRow
  <2>3. CASE ops'[o].status = outcome[o] /\ ops'[o].res = ops[o].res
    <3>1. Stage(o)' \in Terminal
      BY <1>2, <2>3, StageNext DEF Terminal
    <3> QED BY <1>4, <2>1, <2>3, <3>1 DEF RowStep, Res
  <2> QED BY <1>3, <2>2, <2>3
<1>5. CASE p # o
  BY <1>1, <1>3, <1>5, UntouchedRow
<1> QED BY <1>4, <1>5

LEMMA SweepRows ==
  ASSUME DispInv, DispInv', Restart, NEW p \in Op
  PROVE  RowStep(p)
<1>1. lastOp' = lastOp /\ ops' = MarkRunningInterrupted(ops)
  BY DEF Restart
<1>2. CASE ops[p].status = "running"
  <2>1. ops[p] \in Row
    BY <1>2, RowOrNone DEF DispInv, TypeOK
  <2>2. ops'[p].status = "interrupted" /\ ops'[p].res = ops[p].res
    BY <1>1, <1>2, <2>1 DEF MarkRunningInterrupted, Row
  <2>3. Stage(p) = "started" /\ Stage(p)' \in Terminal
    BY <1>2, <2>2, StageOf, StageNext DEF Terminal
  <2> QED BY <2>2, <2>3 DEF RowStep, Res
<1>3. CASE ops[p].status # "running"
  <2>1. ops'[p] = ops[p]
    BY <1>1, <1>3 DEF MarkRunningInterrupted
  <2> QED BY <1>1, <2>1, UntouchedRow
<1> QED BY <1>2, <1>3

\* All other steps leave the table alone.
LEMMA TableSteps ==
  ASSUME [Next]_vars
  PROVE  \/ \E o \in Op, q \in Requests : Submit(o, q)
         \/ \E o \in Op : CancelPending(o) \/ Claim(o) \/ CompleteOp(o)
         \/ Restart
         \/ UNCHANGED <<ops, lastOp>>
<1>1. CASE Client
  BY <1>1 DEF Client, CancelRunning
<1>2. CASE Drain
  BY <1>2 DEF Drain, Wake, DrainEmpty, DrainStarts, DrainCanceled, GraphReceive,
              GraphReturns, DrainDone
<1>3. ASSUME NEW o \in Op, Execute(o)
      PROVE  CompleteOp(o) \/ UNCHANGED <<ops, lastOp>>
  BY <1>3 DEF Execute, Begin, ServeFromCache, ResolveRefs, ResolveFails, ProviderOk,
              ProviderFails, SaveManifest, Leave
<1>4. CASE Shutdown \/ Exit \/ Crash
  BY <1>4 DEF Shutdown, Exit, Crash, ProcessEnds
<1>5. ASSUME NEW o \in Op, NEW x \in Child, ChildStep(o, x) PROVE UNCHANGED <<ops, lastOp>>
  BY <1>5 DEF ChildStep
<1>6. CASE UNCHANGED vars
  BY <1>6 DEF vars
<1> QED BY <1>1, <1>2, <1>3, <1>4, <1>5, <1>6 DEF Next

LEMMA NextLifecycle ==
  ASSUME DispInv, DispInv', [Next]_vars
  PROVE  [Lifecycle!Next]_(Lifecycle!olVars)
<1>1. \A o \in Op : RowStep(o)
  <2>1. CASE UNCHANGED <<ops, lastOp>>
    BY <2>1, UntouchedRow
  <2> QED BY <2>1, TableSteps, SubmitRows, StatusRows, CompleteRows, SweepRows
<1>2. \A o \in Op : Lifecycle!Moves(o) \/ (Stages'[o] = Stages[o] /\ Targets'[o] = Targets[o])
  <2> SUFFICES ASSUME NEW o \in Op
               PROVE  Lifecycle!Moves(o) \/ (Stages'[o] = Stages[o] /\ Targets'[o] = Targets[o])
    OBVIOUS
  <2>1. /\ Stages[o] = Stage(o) /\ Stages'[o] = Stage(o)'
        /\ Targets[o] = Res(o) /\ Targets'[o] = Res(o)'
    BY DEF Stages, Targets
  <2>2. RowStep(o)
    BY <1>1
  <2> QED BY <2>1, <2>2 DEF RowStep, Lifecycle!Moves, Lifecycle!After, Lifecycle!Ends, Terminal
<1>3. Lifecycle!Exclusive'
  <2>1. \A o \in Op : /\ Stages'[o] \in {"queued", "started"} => ops'[o].status \in Active
                      /\ Targets'[o] = ops'[o].res
    BY StageNext DEF Stages, Targets, Res, Active
  <2> QED BY <2>1 DEF Lifecycle!Exclusive, Lifecycle!InFlight, DispInv, OneInFlightPerResource, Res
<1> QED BY <1>2, <1>3 DEF Lifecycle!Next

\* The dispatcher and its table do what OpLifecycle allows, whatever batches,
\* goroutines, cancellations, crashes, sweeps and prunes do: an operation is
\* admitted alone, starts and ends at most once, and is then only forgotten.
THEOREM DispatcherImplements == Spec => ImplementsOpLifecycle
<1>1. Init => Lifecycle!Init
  <2> SUFFICES ASSUME Init PROVE Lifecycle!Init
    OBVIOUS
  <2>1. \A o \in Op : ops[o] = NoRow /\ lastOp = 0 /\ o \in Nat \ {0}
    BY OpAssumption DEF Init
  <2>2. \A o \in Op : Stage(o) = "none" /\ Res(o) = None
    BY <2>1 DEF Stage, Res, NoRow
  <2> QED BY <2>2 DEF Stages, Targets, Lifecycle!Init
<1>2. DispInv /\ DispInv' /\ [Next]_vars => [Lifecycle!Next]_(Lifecycle!olVars)
  BY NextLifecycle
<1> QED BY <1>1, <1>2, DispatcherInvariant, PTL DEF Spec, ImplementsOpLifecycle, Lifecycle!Spec
-----------------------------------------------------------------------------
(* The batch.  What the engine's invariants mean for rows: the rows of a   *)
(* batch are worked off in the order of the edges, none is forgotten, and  *)
(* what has ended stays ended although rows may be pruned meanwhile.       *)

\* An operation that was submitted and has ended, pruned or not.
Over(o) == o <= lastOp /\ ops[o].status \notin Active

\* execute reports no errors to RunGraph.
NoErrors == \A t \in Task : state[t] \notin {"sentErr", "failed"}

\* What the dispatcher hands to RunGraph has no cycle, so that RunGraph leaves
\* nothing unstarted unless it is shut down.
AcyclicBatch == loop = "graph" => crossOpAcyclic(tasks, deps)
AllStarted   == phase = "returned" /\ ~ ctxErr => \A t \in tasks : state[t] = "ok"

BatchOld == \A o \in batch : o <= lastOp

\* What has left execute has its outcome recorded.
EndedRows ==
  \A o \in Op : pc[o] = "leave" \/ (loop = "graph" /\ state[o] \in {"sentOk", "ok"})
                => Over(o)

RunningOwned == Up /\ ~ ctxErr => \A o \in Op : ops[o].status = "running" => o \in batch

\* The edges, the deletes and the children of the batch, as the rows still
\* tell them.
EdgesKept      == loop = "graph" /\ ~ plan.cyclic => \A o \in batch : Needs(o) \subseteq deps[o]
DeletesPlanned == loop = "graph" =>
                    \A o \in batch : ops[o].type = "delete" => Res(o) \in plan.deletes
ChildrenPlanned == loop = "graph" =>
                     \A o \in batch : ops[o].type # "none" => ChildrenOf(Res(o)) \subseteq plan.children
PlanTold == EdgesKept /\ DeletesPlanned /\ ChildrenPlanned

BatchInv == /\ ScheduleInv /\ NoErrors /\ AcyclicBatch /\ AllStarted
            /\ BatchOld /\ EndedRows /\ RunningOwned /\ PlanTold

\* What a step does to a row that was submitted before it.
LEMMA RowsKept ==
  ASSUME DispInv, [Next]_vars, NEW o \in Op, o <= lastOp
  PROVE  /\ o <= lastOp'
         /\ ops[o].status \notin Active => ops'[o].status \notin Active
         /\ \/ ops'[o] = NoRow
            \/ ops'[o].type = ops[o].type /\ ops'[o].res = ops[o].res /\ ops'[o].val = ops[o].val
<1>0. /\ Op \subseteq Nat /\ lastOp \in Nat /\ ops \in Table
      /\ NoRow.status = "none"
  BY OpAssumption DEF DispInv, TypeOK, NoRow
<1>1. ASSUME NEW x \in Op, NEW q \in Requests, Submit(x, q)
      PROVE  /\ x # o /\ o <= lastOp'
             /\ ops'[o] = ops[o] \/ ops'[o] = NoRow
  <2>1. /\ \A p \in Op : (p < x) <=> (p <= lastOp)
        /\ lastOp' = x
    BY <1>1 DEF Submit
  <2>2. x # o /\ o <= lastOp'
    BY <1>0, <2>1
  <2>3. PICK b \in BOOLEAN : ops' = Submitted(ops, x, q, b)
    BY <1>1 DEF Submit
  <2>4. \A p \in Op \ {x} :
          \/ ops'[p] = ops[p]
          \/ /\ ops'[p] = NoRow
             /\ ops[p].status \in {"succeeded", "failed", "interrupted"}
    <3>1. q \in Request
      BY RequestsAssumption
    <3>2. /\ ops'[x] = [status |-> "pending", type |-> q.type, res |-> q.res, val |-> q.val]
          /\ \A p \in Op \ {x} :
               \/ ops'[p] = ops[p]
               \/ /\ ops'[p] = NoRow
                  /\ ops[p].status \in {"succeeded", "failed", "interrupted"}
      BY <1>0, <2>3, <3>1, SubmitTable
    <3> QED BY <3>2
  <2> QED BY <2>2, <2>4
<1>2. ASSUME NEW x \in Op, CancelPending(x) \/ Claim(x)
      PROVE  /\ o <= lastOp'
             /\ ops'[o] = ops[o] \/ (o = x /\ ops[o].status \in Active)
             /\ ops'[o].type = ops[o].type /\ ops'[o].res = ops[o].res /\ ops'[o].val = ops[o].val
  <2>1. /\ lastOp' = lastOp /\ ops[x].status = "pending"
        /\ \E st \in {"canceled", "running"} : ops' = WithStatus(ops, x, st)
    BY <1>2 DEF CancelPending, MayCancelPending, CanceledPending, Claim, NextPending, Claimed
  <2>2. PICK st \in {"canceled", "running"} : ops' = WithStatus(ops, x, st)
    BY <2>1
  <2>3. /\ ops'[x].res = ops[x].res /\ ops'[x].type = ops[x].type /\ ops'[x].val = ops[x].val
        /\ \A p \in Op : p # x => ops'[p] = ops[p]
    <3>1. ops \in Table /\ ops[x].status # "none" /\ st \in Status
      BY <1>0, <2>1, <2>2 DEF Status
    <3> QED BY <2>2, <3>1, StatusChange
  <2> QED BY <1>0, <2>1, <2>3 DEF Active
<1>3. ASSUME NEW x \in Op, CompleteOp(x)
      PROVE  /\ o <= lastOp'
             /\ ops'[o] = ops[o] \/ ops'[o].status \notin Active
             /\ \/ ops'[o] = NoRow
                \/ /\ ops'[o].type = ops[o].type /\ ops'[o].res = ops[o].res
                   /\ ops'[o].val = ops[o].val
  <2>1. /\ lastOp' = lastOp /\ pc[x] = "complete" /\ ops' = Complete(ops, x, outcome[x])
    BY <1>3 DEF CompleteOp
  <2>2. ops[x].status = "running" /\ outcome[x] \in {"succeeded", "failed", "canceled"}
    BY <2>1 DEF DispInv, ExecutingRowIsRunning, Executing, OutcomeKnown, TypeOK
  <2>3. /\ \A p \in Op \ {x} : ops'[p] = ops[p] \/ ops'[p] = NoRow
        /\ \/ ops'[x] = NoRow
           \/ /\ ops'[x].status = outcome[x] /\ ops'[x].res = ops[x].res
              /\ ops'[x].type = ops[x].type /\ ops'[x].val = ops[x].val
    BY <1>0, <2>1, <2>2, CompleteTable
  <2> QED BY <1>0, <2>1, <2>2, <2>3 DEF Active
<1>4. CASE Restart
  <2>1. lastOp' = lastOp /\ ops' = MarkRunningInterrupted(ops)
    BY <1>4 DEF Restart
  <2>2. IF ops[o].status = "running"
        THEN /\ ops'[o].status = "interrupted" /\ ops'[o].res = ops[o].res
             /\ ops'[o].type = ops[o].type /\ ops'[o].val = ops[o].val
        ELSE ops'[o] = ops[o]
    BY <1>0, <2>1, SweepTable
  <2> QED BY <2>1, <2>2 DEF Active
<1>5. CASE UNCHANGED <<ops, lastOp>>
  BY <1>5
<1> QED BY <1>0, <1>1, <1>2, <1>3, <1>4, <1>5, TableSteps DEF Active

\* Only a claim makes a row running.
LEMMA OnlyClaimsRun ==
  ASSUME DispInv, [Next]_vars, NEW o \in Op, ops'[o].status = "running"
  PROVE  ~ Restart /\ (ops[o].status = "running" \/ Claim(o))
<1>0. /\ ops \in Table /\ NoRow.status = "none"
  BY DEF DispInv, TypeOK, NoRow
<1>1. ASSUME NEW x \in Op, NEW q \in Requests, Submit(x, q)
      PROVE  ops[o].status = "running"
  <2>1. PICK b \in BOOLEAN : ops' = Submitted(ops, x, q, b)
    BY <1>1 DEF Submit
  <2>2. q \in Request
    BY RequestsAssumption
  <2>3. /\ ops'[x] = [status |-> "pending", type |-> q.type, res |-> q.res, val |-> q.val]
        /\ \A p \in Op \ {x} :
             \/ ops'[p] = ops[p]
             \/ /\ ops'[p] = NoRow
                /\ ops[p].status \in {"succeeded", "failed", "interrupted"}
    BY <1>0, <2>1, <2>2, SubmitTable
  <2> QED BY <1>0, <2>3
<1>2. ASSUME NEW x \in Op, CancelPending(x)
      PROVE  ops[o].status = "running"
  <2>1. ops[x].status = "pending" /\ ops' = WithStatus(ops, x, "canceled")
    BY <1>2 DEF CancelPending, MayCancelPending, CanceledPending
  <2> QED BY <1>0, <2>1, StatusChange DEF Status
<1>3. ASSUME NEW x \in Op, Claim(x), x # o
      PROVE  ops[o].status = "running"
  <2>1. ops[x].status = "pending" /\ ops' = WithStatus(ops, x, "running")
    BY <1>3 DEF Claim, NextPending, Claimed
  <2> QED BY <1>0, <1>3, <2>1, StatusChange DEF Status
<1>4. ASSUME NEW x \in Op, CompleteOp(x)
      PROVE  ops[o].status = "running"
  <2>1. pc[x] = "complete" /\ ops' = Complete(ops, x, outcome[x])
    BY <1>4 DEF CompleteOp
  <2>2. ops[x].status = "running" /\ outcome[x] \in {"succeeded", "failed", "canceled"}
    BY <2>1 DEF DispInv, ExecutingRowIsRunning, Executing, OutcomeKnown, TypeOK
  <2> QED BY <1>0, <2>1, <2>2, CompleteTable
<1>5. ~ Restart
  BY <1>0, SweepTable DEF Restart
<1> QED BY <1>1, <1>2, <1>3, <1>4, <1>5, TableSteps

\* The outcome has been recorded: the operation is over.
LEMMA CompleteEnds ==
  ASSUME DispInv, NEW o \in Op, CompleteOp(o)
  PROVE  Over(o)'
<1>1. lastOp' = lastOp /\ pc[o] = "complete" /\ ops' = Complete(ops, o, outcome[o])
  BY DEF CompleteOp
<1>2. ops[o].status = "running" /\ outcome[o] \in {"succeeded", "failed", "canceled"}
  BY <1>1 DEF DispInv, ExecutingRowIsRunning, Executing, OutcomeKnown, TypeOK
<1>3. ops'[o] = NoRow \/ ops'[o].status = outcome[o]
  BY <1>1, <1>2, CompleteTable DEF DispInv, TypeOK
<1>4. o <= lastOp
  BY <1>2, StageOf
<1> QED BY <1>1, <1>2, <1>3, <1>4 DEF Over, NoRow, Active

\* A step outside the drain loop and the engine.
Quiet ==
  /\ UNCHANGED <<graphVars, loop, batch, plan>>
  /\ ctxErr' = ctxErr \/ ctxErr'
  /\ \A o \in Op : pc'[o] = "leave" => pc[o] = "leave" \/ CompleteOp(o)

LEMMA StepKinds ==
  ASSUME DispInv, [Next]_vars
  PROVE  \/ Quiet
         \/ Wake \/ DrainEmpty
         \/ \E o \in Op : Claim(o) \/ Leave(o)
         \/ \E c \in Concurrency, S \in SUBSET batch : DrainStarts(c, S) \/ DrainCanceled(c)
         \/ \E t \in Task : GraphReceive(t)
         \/ GraphReturns \/ DrainDone
         \/ Exit \/ Crash \/ Restart
<1> USE DEF execVars, dataVars, histVars, procVars
<1>0. pc \in [Op -> Steps]
  BY DEF DispInv, TypeOK
<1>1. ASSUME Client PROVE Quiet
  BY <1>1 DEF Client, Submit, CancelPending, CancelRunning, Quiet
<1>2. ASSUME NEW o \in Op, Execute(o), ~ Leave(o) PROVE Quiet
  <2>1. CASE CompleteOp(o)
    BY <1>0, <2>1 DEF CompleteOp, Goto, Quiet
  <2>2. CASE Begin(o)
    BY <1>0, <2>2 DEF Begin, EndsAs, Goto, Quiet
  <2>3. CASE ServeFromCache(o) \/ ResolveRefs(o) \/ ResolveFails(o)
    BY <1>0, <2>3 DEF ServeFromCache, ResolveRefs, ResolveFails, EndsAs, Goto, Quiet
  <2>4. CASE ProviderOk(o) \/ ProviderFails(o) \/ SaveManifest(o)
    BY <1>0, <2>4 DEF ProviderOk, ProviderFails, SaveManifest, EndsAs, Goto, Quiet
  <2> QED BY <1>2, <2>1, <2>2, <2>3, <2>4 DEF Execute
<1>3. ASSUME Shutdown PROVE Quiet
  BY <1>3 DEF Shutdown, Quiet
<1>4. ASSUME UNCHANGED vars PROVE Quiet
  BY <1>4 DEF vars, Quiet
<1>5. CASE Drain
  <2>1. {} \in SUBSET batch
    OBVIOUS
  <2> QED BY <1>5, <2>1 DEF Drain
<1>6. ASSUME NEW o \in Op, NEW x \in Child, ChildStep(o, x) PROVE Quiet
  BY <1>6 DEF ChildStep, Quiet
<1> QED BY <1>1, <1>2, <1>3, <1>4, <1>5, <1>6 DEF Next

\* What is over stays over.
LEMMA OverStays ==
  ASSUME DispInv, [Next]_vars
  PROVE  \A o \in Op : Over(o) => Over(o)'
BY RowsKept DEF Over

\* The rows of the batch keep telling its edges, deletes and children, or are
\* pruned.
LEMMA PlanKept ==
  ASSUME DispInv, BatchInv, [Next]_vars, UNCHANGED <<loop, batch, plan, deps>>
  PROVE  PlanTold'
<1>1. batch \subseteq Op /\ \A o \in batch : o <= lastOp
  BY DEF DispInv, TypeOK, BatchInv, BatchOld
<1>2. \A o \in batch :
        \/ ops'[o].type = "none" /\ RefsOf(o)' = {}
        \/ ops'[o].type = ops[o].type /\ Res(o)' = Res(o) /\ RefsOf(o)' = RefsOf(o)
  BY <1>1, RowsKept DEF RefsOf, Res, NoRow
<1>3. \A o \in batch : Needs(o)' \subseteq Needs(o)
  BY <1>2 DEF Needs
<1>4. EdgesKept'
  BY <1>3 DEF EdgesKept, BatchInv, PlanTold
<1>5. DeletesPlanned'
  BY <1>2 DEF DeletesPlanned, BatchInv, PlanTold
<1>6. ChildrenPlanned'
  <2>1. \A o \in batch : Res(o)' = Res(o) => ChildrenOf(Res(o))' = ChildrenOf(Res(o))
    BY DEF ChildrenOf
  <2> QED BY <1>2, <2>1 DEF ChildrenPlanned, BatchInv, PlanTold
<1> QED BY <1>4, <1>5, <1>6 DEF PlanTold

\* A running row stays with the batch while that does not shrink.
LEMMA OwnedKept ==
  ASSUME DispInv, BatchInv, [Next]_vars, batch \subseteq batch', Up' => Up, ctxErr => ctxErr'
  PROVE  RunningOwned'
<1> SUFFICES ASSUME Up', ~ ctxErr', NEW o \in Op, ops'[o].status = "running"
             PROVE  o \in batch'
  BY DEF RunningOwned
<1>1. ops[o].status = "running" \/ Claim(o)
  BY OnlyClaimsRun
<1> QED BY <1>1 DEF BatchInv, RunningOwned, Claim

\* Steps of clients and of execute calls.
LEMMA QuietBatch ==
  ASSUME DispInv, BatchInv, [Next]_vars, Quiet
  PROVE  BatchInv'
<1>1. /\ UNCHANGED <<phase, tasks, deps, limit, indegree, ready, state, firstErr,
                     stopLaunch, ret>>
      /\ UNCHANGED <<loop, batch, plan>> /\ (ctxErr => ctxErr')
  BY DEF Quiet, graphVars
<1>2. ScheduleInv'
  <2>1. InFlight' = InFlight /\ Ok' = Ok
    BY <1>1 DEF InFlight, Ok
  <2> QED BY <1>1, <2>1 DEF BatchInv, ScheduleInv, NothingMissed, KnownDeps, StopsForReason,
                            FirstErrFailed
<1>3. NoErrors' /\ AcyclicBatch' /\ AllStarted'
  BY <1>1 DEF BatchInv, NoErrors, AcyclicBatch, AllStarted, crossOpAcyclic
<1>4. BatchOld'
  BY <1>1, RowsKept DEF BatchInv, BatchOld, DispInv, TypeOK
<1>5. EndedRows'
  <2>1. \A o \in Op : pc'[o] = "leave" => pc[o] = "leave" \/ CompleteOp(o)
    BY DEF Quiet
  <2> QED BY <1>1, <2>1, CompleteEnds, OverStays DEF BatchInv, EndedRows
<1>6. RunningOwned'
  BY <1>1, OwnedKept DEF Up
<1>7. PlanTold'
  BY <1>1, PlanKept
<1> QED BY <1>2, <1>3, <1>4, <1>5, <1>6, <1>7 DEF BatchInv

\* Steps of the loop while the engine is idle.
LEMMA IdleBatch ==
  ASSUME DispInv, BatchInv, [Next]_vars, UNCHANGED <<graphVars, ctxErr, pc>>,
         loop # "graph", loop' # "graph", RunningOwned', BatchOld'
  PROVE  BatchInv'
<1>1. UNCHANGED <<phase, tasks, deps, limit, indegree, ready, state, firstErr, stopLaunch, ret>>
  BY DEF graphVars
<1>2. ScheduleInv'
  <2>1. InFlight' = InFlight /\ Ok' = Ok
    BY <1>1 DEF InFlight, Ok
  <2> QED BY <1>1, <2>1 DEF BatchInv, ScheduleInv, NothingMissed, KnownDeps, StopsForReason,
                            FirstErrFailed
<1>3. NoErrors' /\ AcyclicBatch' /\ AllStarted'
  BY <1>1 DEF BatchInv, NoErrors, AcyclicBatch, AllStarted
<1>4. EndedRows'
  BY OverStays DEF BatchInv, EndedRows
<1>5. PlanTold'
  BY DEF PlanTold, EdgesKept, DeletesPlanned, ChildrenPlanned
<1> QED BY <1>2, <1>3, <1>4, <1>5 DEF BatchInv

LEMMA WakeAndClaimBatch ==
  ASSUME DispInv, BatchInv, [Next]_vars,
         Wake \/ DrainEmpty \/ (\E o \in Op : Claim(o)) \/ Restart
  PROVE  BatchInv'
<1>1. CASE Wake \/ DrainEmpty
  <2>1. /\ UNCHANGED <<graphVars, ctxErr, pc, batch, lastOp>>
        /\ loop \in {"wait", "claim"} /\ loop' \in {"wait", "claim"}
    BY <1>1 DEF Wake, DrainEmpty, ClaimingEnds, execVars
  <2>2. RunningOwned'
    BY <2>1, OwnedKept DEF Up
  <2>3. BatchOld'
    BY <2>1 DEF BatchInv, BatchOld
  <2> QED BY <2>1, <2>2, <2>3, IdleBatch
<1>2. ASSUME NEW o \in Op, Claim(o) PROVE BatchInv'
  <2>1. /\ UNCHANGED <<graphVars, ctxErr, pc, lastOp>> /\ batch' = batch \cup {o}
        /\ loop = "claim" /\ loop' \in {"claim", "exec"} /\ ops[o].status = "pending"
    BY <1>2 DEF Claim, NextPending
  <2>2. RunningOwned'
    BY <2>1, OwnedKept DEF Up
  <2>3. BatchOld'
    BY <2>1, StageOf DEF BatchInv, BatchOld
  <2> QED BY <2>1, <2>2, <2>3, IdleBatch
<1>3. CASE Restart
  <2>1. /\ UNCHANGED <<graphVars, ctxErr, pc, lastOp, batch>>
        /\ loop = "down" /\ loop' = "claim"
    BY <1>3 DEF Restart, execVars
  <2>2. RunningOwned'
    BY <1>3, OnlyClaimsRun DEF RunningOwned
  <2>3. BatchOld'
    BY <2>1 DEF BatchInv, BatchOld
  <2> QED BY <2>1, <2>2, <2>3, IdleBatch
<1> QED BY <1>1, <1>2, <1>3

\* The engine is given an acyclic graph, with all edges unless there is a cycle.
LEMMA EdgesFit ==
  ASSUME DispInv
  PROVE  /\ crossOpAcyclic(batch, BatchEdges(batch))
         /\ ~ NeedsCyclic => \A o \in batch : Needs(o) = BatchEdges(batch)[o]
<1>1. batch \subseteq Task
  BY TaskIsOp DEF DispInv, TypeOK
<1>2. \A o \in batch : Needs(o) = crossOpEdges(batch)[o]
  BY <1>1 DEF Needs, crossOpEdges
<1>3. crossOpAcyclic(batch, NoDeps)
  BY <1>1 DEF crossOpAcyclic, NoDeps
<1>4. ~ NeedsCyclic => crossOpAcyclic(batch, crossOpEdges(batch))
  BY <1>2 DEF NeedsCyclic, crossOpAcyclic
<1> QED BY <1>2, <1>3, <1>4 DEF BatchEdges

LEMMA DrainStartsBatch ==
  ASSUME DispInv, BatchInv, [Next]_vars, NEW c \in Concurrency, NEW S \in SUBSET batch,
         DrainStarts(c, S) \/ DrainCanceled(c)
  PROVE  BatchInv'
<1> DEFINE D == BatchEdges(batch)
<1>1. /\ UNCHANGED <<ops, lastOp, batch, pc>> /\ loop = "claim" /\ loop' = "graph"
      /\ plan' = [cyclic |-> NeedsCyclic,
                  deletes |-> {Res(o) : o \in {p \in batch : ops[p].type = "delete"}},
                  children |-> UNION {ChildrenOf(Res(o)) : o \in batch}]
  BY DEF DrainStarts, DrainCanceled, ClaimingEnds, Planned, execVars
<1>2. batch \in SUBSET Task /\ D \in [Task -> SUBSET Task]
  BY BatchGraph
<1>3. /\ ScheduleInv' /\ deps' = D /\ tasks' = batch /\ ctxErr' = ctxErr
      /\ \A t \in Task : state'[t] \in {"waiting", "running"}
      /\ phase' = "returned" => ctxErr
  <2>1. CASE DrainStarts(c, S)
    <3>1. CallStarts(batch, D, c, S)
      BY <2>1 DEF DrainStarts
    <3>2. S \in SUBSET InitiallyReady(batch, D)
      BY <3>1 DEF CallStarts, Fills
    <3>3. ScheduleInv'
      BY <1>2, <3>1, <3>2, CallStartsSchedule
    <3>4. \A t \in Task : state'[t] \in {"waiting", "running"}
      BY <3>1 DEF CallStarts, Launch
    <3> QED BY <3>1, <3>3, <3>4 DEF CallStarts
  <2>2. CASE DrainCanceled(c)
    <3>1. CallCanceled(batch, D, c)
      BY <2>2 DEF DrainCanceled
    <3> QED BY <3>1, BlankSchedule DEF CallCanceled
  <2> QED BY <2>1, <2>2
<1>4. NoErrors' /\ AllStarted'
  BY <1>3 DEF NoErrors, AllStarted
<1>5. AcyclicBatch'
  BY <1>3, EdgesFit DEF AcyclicBatch, crossOpAcyclic
<1>6. BatchOld'
  BY <1>1 DEF BatchInv, BatchOld
<1>7. EndedRows'
  BY <1>1, <1>3, TaskIsOp DEF BatchInv, EndedRows, Over
<1>8. RunningOwned'
  BY <1>1, <1>3 DEF BatchInv, RunningOwned, Up
<1>9. \A o \in Op : Needs(o)' = Needs(o) /\ Res(o)' = Res(o)
  BY <1>1 DEF Needs, Res, RefsOf
<1>10. PlanTold'
  <2>1. batch \subseteq Op
    BY DEF DispInv, TypeOK
  <2>2. EdgesKept' /\ DeletesPlanned'
    BY <1>1, <1>3, <1>9, <2>1, EdgesFit DEF EdgesKept, DeletesPlanned
  <2>3. \A o \in batch : ChildrenOf(Res(o))' = ChildrenOf(Res(o))
    BY <1>9, <2>1 DEF ChildrenOf
  <2>4. ChildrenPlanned'
    BY <1>1, <2>3 DEF ChildrenPlanned
  <2> QED BY <2>2, <2>4 DEF PlanTold
<1> QED BY <1>3, <1>4, <1>5, <1>6, <1>7, <1>8, <1>10 DEF BatchInv

\* RunGraph receives a success, never an error, and may launch.
LEMMA GraphReceiveBatch ==
  ASSUME DispInv, BatchInv, [Next]_vars, NEW t \in Task, GraphReceive(t)
  PROVE  BatchInv'
<1>1. UNCHANGED <<ops, lastOp, loop, batch, pc, plan>>
  BY DEF GraphReceive, execVars, histVars
<1>2. state \in [Task -> TaskState] /\ GraphInv /\ ScheduleInv
  BY DEF DispInv, GraphInv, GraphTypeOK, BatchInv
<1>3. /\ ScheduleInv' /\ phase = "loop" /\ UNCHANGED <<phase, tasks, deps, ctxErr>>
      /\ state[t] = "sentOk" /\ state'[t] \in {"ok", "running"}
      /\ \A u \in Task \ {t} : state'[u] \in {state[u], "running"}
  <2>1. CASE ReceiveAndStop(t)
    <3>1. ScheduleInv'
      BY <1>2, <2>1, ReceiveAndStopSchedule
    <3>2. state[t] = "sentOk"
      BY <2>1 DEF ReceiveAndStop, BatchInv, NoErrors
    <3> QED BY <1>2, <2>1, <3>1, <3>2 DEF ReceiveAndStop, Received
  <2>2. CASE \E S \in SUBSET (ready \cup NewlyReady(t)) : ReceiveAndLaunch(t, S)
    <3>1. PICK S \in SUBSET (ready \cup NewlyReady(t)) : ReceiveAndLaunch(t, S)
      BY <2>2
    <3>2. ScheduleInv'
      BY <1>2, <3>1, ReceiveAndLaunchSchedule
    <3>3. \A u \in Task : state'[u] = IF u \in S THEN "running"
                                     ELSE IF u = t THEN "ok" ELSE state[u]
      BY <1>2, <3>1 DEF ReceiveAndLaunch, Launch, Received
    <3> QED BY <3>1, <3>2, <3>3 DEF ReceiveAndLaunch
  <2> QED BY <2>1, <2>2 DEF GraphReceive
<1>4. NoErrors' /\ AllStarted'
  BY <1>3 DEF BatchInv, NoErrors, AllStarted
<1>5. AcyclicBatch' /\ BatchOld' /\ RunningOwned'
  BY <1>1, <1>3 DEF BatchInv, AcyclicBatch, crossOpAcyclic, BatchOld, RunningOwned, Up
<1>6. EndedRows'
  BY <1>1, <1>3, TaskIsOp DEF BatchInv, EndedRows, Over
<1>7. PlanTold'
  BY <1>1, <1>3, PlanKept
<1> QED BY <1>3, <1>4, <1>5, <1>6, <1>7 DEF BatchInv

\* When RunGraph has nothing in flight and was not shut down, every operation
\* of the batch has been executed: those left would form a cycle.
LEMMA NothingLeft ==
  ASSUME DispInv, BatchInv, phase = "loop", InFlight = {}, ~ ctxErr
  PROVE  \A t \in tasks : state[t] = "ok"
<1>1. /\ tasks \subseteq Task /\ deps \in [Task -> SUBSET Task]
      /\ state \in [Task -> TaskState] /\ firstErr \subseteq Task
  BY DEF DispInv, GraphInv, GraphTypeOK
<1>2. ~ stopLaunch
  BY <1>1 DEF BatchInv, ScheduleInv, StopsForReason, FirstErrFailed, NoErrors
<1>3. /\ \A t \in tasks : state[t] = "waiting" /\ deps[t] \subseteq Ok => t \in ready
      /\ ready = {} /\ \A t \in tasks : deps[t] \subseteq tasks
  BY <1>2 DEF BatchInv, ScheduleInv, NothingMissed, KnownDeps
<1>4. \A t \in Task : state[t] \in {"waiting", "ok"}
  BY <1>1 DEF BatchInv, NoErrors, InFlight, InFlightStates, TaskState
<1> DEFINE W == {t \in tasks : state[t] = "waiting"}
<1>5. loop = "graph"
  BY DEF DispInv, LoopShape
<1>6. W # {} => \E t \in W : deps[t] \cap W = {}
  BY <1>5 DEF BatchInv, AcyclicBatch, crossOpAcyclic
<1>7. \A t \in W : deps[t] \cap W = {} => deps[t] \subseteq Ok
  BY <1>1, <1>3, <1>4 DEF Ok
<1>8. W = {}
  BY <1>3, <1>6, <1>7
<1> QED BY <1>1, <1>4, <1>8

LEMMA ReturnsBatch ==
  ASSUME DispInv, BatchInv, [Next]_vars, GraphReturns
  PROVE  BatchInv'
<1>1. /\ Return /\ UNCHANGED <<ops, lastOp, loop, batch, pc, plan>>
  BY DEF GraphReturns, execVars, histVars
<1>2. /\ phase = "loop" /\ InFlight = {} /\ phase' = "returned"
      /\ UNCHANGED <<tasks, deps, state, ctxErr>>
  BY <1>1 DEF Return
<1>3. ScheduleInv'
  BY <1>1, ReturnSchedule DEF BatchInv
<1>4. AllStarted'
  BY <1>2, NothingLeft DEF AllStarted
<1>5. NoErrors' /\ AcyclicBatch' /\ BatchOld' /\ RunningOwned' /\ EndedRows'
  BY <1>1, <1>2 DEF BatchInv, NoErrors, AcyclicBatch, crossOpAcyclic, BatchOld, RunningOwned, Up,
                    EndedRows, Over
<1>6. PlanTold'
  BY <1>1, <1>2, PlanKept
<1> QED BY <1>3, <1>4, <1>5, <1>6 DEF BatchInv

\* The loop lets go of a batch only when its rows have ended.
LEMMA DrainDoneBatch ==
  ASSUME DispInv, BatchInv, [Next]_vars, DrainDone
  PROVE  BatchInv'
<1>1. /\ Discard /\ UNCHANGED <<ops, lastOp, pc, ctxErr>> /\ loop' = "wait" /\ batch' = {}
  BY DEF DrainDone
<1>2. phase = "returned" /\ loop = "graph" /\ tasks = batch
  BY <1>1 DEF Discard, DispInv, LoopShape
<1>3. /\ phase' = "idle" /\ state' = [t \in Task |-> "waiting"]
      /\ firstErr' = {} /\ stopLaunch' = FALSE
  BY <1>1 DEF Discard
<1>4. ScheduleInv' /\ NoErrors' /\ AcyclicBatch' /\ AllStarted'
  BY <1>1, <1>3, BlankSchedule DEF NoErrors, AcyclicBatch, AllStarted
<1>5. EndedRows'
  BY <1>1, <1>3 DEF BatchInv, EndedRows, Over
<1>6. RunningOwned'
  <2> SUFFICES ASSUME ~ ctxErr, NEW o \in Op, ops[o].status = "running" PROVE FALSE
    BY <1>1 DEF RunningOwned
  <2>1. o \in tasks
    BY <1>2 DEF BatchInv, RunningOwned, Up
  <2>2. state[o] = "ok"
    BY <1>2, <2>1 DEF BatchInv, AllStarted
  <2> QED BY <1>2, <2>2 DEF BatchInv, EndedRows, Over, Active
<1>7. BatchOld' /\ PlanTold'
  BY <1>1 DEF BatchOld, PlanTold, EdgesKept, DeletesPlanned, ChildrenPlanned
<1> QED BY <1>4, <1>5, <1>6, <1>7 DEF BatchInv

\* An execute call returns.
LEMMA LeaveBatch ==
  ASSUME DispInv, BatchInv, [Next]_vars, NEW o \in Op, Leave(o)
  PROVE  BatchInv'
<1>1. /\ pc[o] = "leave" /\ pc' = [pc EXCEPT ![o] = "idle"] /\ UNCHANGED <<ops, lastOp, plan>>
  BY DEF Leave, Goto, histVars
<1>2. pc \in [Op -> Steps] /\ o \in Task /\ Over(o)
  BY <1>1, TaskIsOp DEF DispInv, TypeOK, BatchInv, EndedRows
<1>3. \A p \in Op : pc'[p] = "leave" => pc[p] = "leave"
  BY <1>1, <1>2
<1>4. CASE loop = "exec"
  <2>1. loop' = "claim" /\ batch' = {} /\ UNCHANGED <<graphVars, ctxErr>>
    BY <1>4 DEF Leave
  <2>2. UNCHANGED <<phase, tasks, deps, ready, state, firstErr, stopLaunch>>
    BY <2>1 DEF graphVars
  <2>3. ScheduleInv'
    <3>1. InFlight' = InFlight /\ Ok' = Ok
      BY <2>2 DEF InFlight, Ok
    <3> QED BY <2>1, <2>2, <3>1 DEF BatchInv, ScheduleInv, NothingMissed, KnownDeps,
                                    StopsForReason, FirstErrFailed
  <2>4. NoErrors' /\ AcyclicBatch' /\ AllStarted'
    BY <2>1, <2>2 DEF BatchInv, NoErrors, AcyclicBatch, AllStarted
  <2>5. EndedRows'
    BY <1>1, <1>3, <2>1 DEF BatchInv, EndedRows, Over
  <2>6. RunningOwned'
    <3>1. \A p \in batch : p = o
      BY <1>1, <1>4 DEF DispInv, LoopShape, Executing
    <3>2. ops[o].status # "running"
      BY <1>2 DEF Over, Active
    <3> QED BY <1>1, <1>4, <2>1, <3>1, <3>2 DEF BatchInv, RunningOwned, Up
  <2>7. BatchOld' /\ PlanTold'
    BY <2>1 DEF BatchOld, PlanTold, EdgesKept, DeletesPlanned, ChildrenPlanned
  <2> QED BY <2>3, <2>4, <2>5, <2>6, <2>7 DEF BatchInv
<1>5. CASE loop # "exec"
  <2>1. TaskReturns(o, FALSE) /\ UNCHANGED <<loop, batch>>
    BY <1>5 DEF Leave
  <2>2. /\ UNCHANGED <<phase, tasks, deps, ctxErr>> /\ state[o] = "running"
        /\ \A p \in Task : state'[p] = IF p = o THEN "sentOk" ELSE state[p]
    BY <1>2, <2>1 DEF TaskReturns, DispInv, GraphInv, GraphTypeOK
  <2>3. ScheduleInv'
    BY <1>2, <2>1, TaskReturnsSchedule DEF DispInv, BatchInv
  <2>4. NoErrors' /\ AcyclicBatch' /\ BatchOld' /\ RunningOwned'
    BY <1>1, <2>1, <2>2 DEF BatchInv, NoErrors, AcyclicBatch, crossOpAcyclic, BatchOld, RunningOwned, Up
  <2>5. AllStarted'
    <3>1. o \in InFlight
      BY <1>2, <2>2 DEF InFlight, InFlightStates
    <3>2. phase = "loop"
      BY <3>1 DEF DispInv, GraphInv, OverIsOver
    <3> QED BY <2>2, <3>2 DEF AllStarted
  <2>6. EndedRows'
    BY <1>1, <1>2, <1>3, <2>1, <2>2, TaskIsOp DEF BatchInv, EndedRows, Over
  <2>7. PlanTold'
    BY <1>1, <2>1, <2>2, PlanKept
  <2> QED BY <2>3, <2>4, <2>5, <2>6, <2>7 DEF BatchInv
<1> QED BY <1>4, <1>5

LEMMA ProcessEndsBatch ==
  ASSUME Exit \/ Crash
  PROVE  BatchInv'
<1>1. /\ loop' = "down" /\ phase' = "idle" /\ state' = [t \in Task |-> "waiting"]
      /\ firstErr' = {} /\ stopLaunch' = FALSE /\ batch' = {} /\ pc' = [o \in Op |-> "idle"]
  BY DEF Exit, Crash, ProcessEnds
<1>2. ScheduleInv'
  BY <1>1, BlankSchedule
<1>3. NoErrors' /\ AcyclicBatch' /\ AllStarted'
  BY <1>1 DEF NoErrors, AcyclicBatch, AllStarted
<1>4. BatchOld' /\ EndedRows' /\ RunningOwned' /\ PlanTold'
  BY <1>1 DEF BatchOld, EndedRows, RunningOwned, PlanTold, EdgesKept, DeletesPlanned,
              ChildrenPlanned, Up
<1> QED BY <1>2, <1>3, <1>4 DEF BatchInv

LEMMA NextBatch == DispInv /\ BatchInv /\ [Next]_vars => BatchInv'
BY StepKinds, QuietBatch, WakeAndClaimBatch, DrainStartsBatch, GraphReceiveBatch, ReturnsBatch,
   DrainDoneBatch, LeaveBatch, ProcessEndsBatch

LEMMA InitBatch == Init => BatchInv
<1> SUFFICES ASSUME Init PROVE BatchInv
  OBVIOUS
<1>1. /\ ops = [o \in Op |-> NoRow] /\ loop = "claim" /\ batch = {}
      /\ pc = [o \in Op |-> "idle"]
      /\ phase = "idle" /\ state = [t \in Task |-> "waiting"]
      /\ firstErr = {} /\ stopLaunch = FALSE
  BY DEF Init, GraphInit, GraphIdle
<1>2. ScheduleInv
  BY InitSchedule DEF Init
<1>3. NoErrors /\ AcyclicBatch /\ AllStarted
  BY <1>1 DEF NoErrors, AcyclicBatch, AllStarted
<1>4. BatchOld /\ EndedRows /\ RunningOwned /\ PlanTold
  BY <1>1 DEF BatchOld, EndedRows, RunningOwned, PlanTold, EdgesKept, DeletesPlanned,
              ChildrenPlanned, Up, NoRow
<1> QED BY <1>2, <1>3, <1>4 DEF BatchInv

LEMMA BatchHolds == Spec => []BatchInv
<1> QED BY InitBatch, NextBatch, DispatcherInvariant, PTL DEF Spec

\* A running row has somebody working on it: while the controller lives and
\* is not shutting down it is in the batch, and executed or still to be.
THEOREM NoOrphans == Spec => []NoOrphanRunning
<1>1. DispInv /\ BatchInv => NoOrphanRunning
  <2> SUFFICES ASSUME DispInv, BatchInv, Up, ~ ctxErr, NEW o \in Op, ops[o].status = "running"
               PROVE  /\ o \in batch /\ pc[o] # "leave"
                      /\ Executing(o) \/ loop = "claim" \/ Entered(o)
                           \/ (loop = "graph" /\ state[o] = "waiting" /\ phase = "loop")
    BY DEF NoOrphanRunning
  <2>1. o \in batch /\ loop \in {"claim", "exec", "graph"}
    BY DEF BatchInv, RunningOwned, DispInv, LoopShape, TypeOK, Up
  <2>2. ~ Over(o)
    BY DEF Over, Active
  <2>3. pc[o] # "leave"
    BY <2>2 DEF BatchInv, EndedRows
  <2>4. CASE loop = "graph"
    <3>1. /\ tasks = batch /\ phase \in {"loop", "returned"} /\ o \in Task
          /\ state \in [Task -> TaskState]
      BY <2>4, TaskIsOp DEF DispInv, LoopShape, GraphInv, GraphTypeOK
    <3>2. state[o] \in {"waiting", "running"}
      BY <2>2, <2>4, <3>1 DEF BatchInv, EndedRows, NoErrors, TaskState
    <3>3. state[o] = "waiting" => phase = "loop"
      BY <2>1, <3>1 DEF BatchInv, AllStarted
    <3> QED BY <2>1, <2>3, <2>4, <3>1, <3>2, <3>3 DEF Executing, Entered
  <2> QED BY <2>1, <2>3, <2>4 DEF Executing, Entered
<1> QED BY <1>1, DispatcherInvariant, BatchHolds, PTL

\* The order of a batch, from the invariants of the engine and of the rows.
LEMMA OrderedBatch == DispInv /\ BatchInv => DependentsWait
<1> SUFFICES ASSUME DispInv, BatchInv, loop = "graph", ~ plan.cyclic, NEW o \in batch, Executing(o),
                    NEW p \in Needs(o)
             PROVE  ops[p].status \notin Active
  BY DEF DependentsWait
<1>1. p \in batch /\ p \in deps[o] /\ batch \subseteq Task /\ batch \subseteq Op
  BY TaskIsOp DEF BatchInv, PlanTold, EdgesKept, Needs, DispInv, TypeOK
<1>2. o \in InFlight
  BY <1>1 DEF DispInv, LoopShape, InFlight, InFlightStates
<1>3. state[p] = "ok"
  BY <1>1, <1>2 DEF DispInv, GraphInv, DependenciesFirst
<1> QED BY <1>1, <1>3 DEF BatchInv, EndedRows, Over

\* An operation executes only after those of its batch that apply what it
\* refers to have ended, unless the $refs of the batch form a cycle.
THEOREM DependentsAreLast == Spec => []DependentsWait
<1> QED BY OrderedBatch, DispatcherInvariant, BatchHolds, PTL

-----------------------------------------------------------------------------
(* What an execute call has read, and what it leaves behind.               *)

\* Operations between resolution and save, in every other step.
LEMMA ValueSteps ==
  ASSUME DispInv, DispInv', [Next]_vars, NEW o \in Op, pc'[o] \in {"apply", "save"}
  PROVE  \/ ResolveRefs(o)
         \/ \E p \in Op : /\ ProviderOk(p) \/ ProviderFails(p)
                          /\ p # o => pc[o] \in {"apply", "save"}
                          /\ resolved' = resolved /\ plan' = plan
         \/ \E p \in Op, x \in Child : ChildStep(p, x)
         \/ /\ pc[o] \in {"apply", "save"} /\ resolved'[o] = resolved[o]
            /\ live' = live /\ plan' = plan
<1> USE DEF execVars, dataVars, histVars, procVars
<1>0. pc \in [Op -> Steps] /\ resolved \in [Op -> RefValues]
  BY DEF DispInv, TypeOK
<1>1. CASE Client
  BY <1>1 DEF Client, Submit, CancelPending, CancelRunning
<1>2. CASE Drain
  <2>1. Executing(o)' /\ pc' = pc /\ live' = live /\ resolved' = resolved
    BY <1>2 DEF Executing, Drain, Wake, Claim, DrainEmpty, DrainStarts, DrainCanceled, GraphReceive,
                GraphReturns, DrainDone
  <2>2. loop' \in {"exec", "graph"}
    BY <2>1 DEF DispInv, LoopShape
  <2>3. loop \in {"exec", "graph"}
    BY <2>1 DEF DispInv, LoopShape, Executing
  <2>4. plan' = plan
    BY <1>2, <2>2, <2>3 DEF Drain, Wake, Claim, DrainEmpty, DrainStarts, DrainCanceled, ClaimingEnds,
                            GraphReceive, GraphReturns, DrainDone
  <2> QED BY <2>1, <2>4
<1>3. ASSUME NEW p \in Op, Execute(p)
      PROVE  \/ p = o /\ ResolveRefs(p)
             \/ /\ ProviderOk(p) \/ ProviderFails(p)
                /\ p # o => pc[o] \in {"apply", "save"}
                /\ resolved' = resolved /\ plan' = plan
             \/ /\ pc[o] \in {"apply", "save"} /\ resolved'[o] = resolved[o]
                /\ live' = live /\ plan' = plan
  <2>1. CASE Begin(p) \/ ServeFromCache(p) \/ ResolveFails(p) \/ SaveManifest(p)
    BY <1>0, <2>1 DEF Begin, ServeFromCache, ResolveFails, SaveManifest, EndsAs, Goto
  <2>2. CASE CompleteOp(p) \/ Leave(p)
    BY <1>0, <2>2 DEF CompleteOp, Leave, Goto
  <2>3. CASE ResolveRefs(p)
    BY <1>0, <2>3 DEF ResolveRefs, Goto
  <2>4. CASE ProviderOk(p) \/ ProviderFails(p)
    BY <1>0, <2>4 DEF ProviderOk, ProviderFails, EndsAs, Goto
  <2> QED BY <1>3, <2>1, <2>2, <2>3, <2>4 DEF Execute
<1>4. CASE Shutdown \/ Restart
  BY <1>4 DEF Shutdown, Restart
<1>5. ~ (Exit \/ Crash)
  BY DEF Exit, Crash, ProcessEnds
<1>6. CASE UNCHANGED vars
  BY <1>6 DEF vars
<1> QED BY <1>1, <1>2, <1>3, <1>4, <1>5, <1>6 DEF Next

\* Only a planned delete can work on what an executing operation refers to.
LEMMA NoMeddling ==
  ASSUME DispInv, BatchInv, ~ plan.cyclic, NEW o \in Op, NEW p \in Op, p # o,
         Executing(o), pc[p] \in {"exec", "apply"}, Res(p) \in RefsOf(o)
  PROVE  Res(p) \in plan.deletes
<1>1. Executing(p) /\ ops[p].status \in Active /\ ops[p].type \in {"apply", "delete"}
  BY ExecutingRow DEF Executing, Active
<1>2. loop = "graph" /\ state[o] = "running" /\ state[p] = "running"
  BY <1>1 DEF DispInv, LoopShape
<1>3. o \in batch /\ p \in batch
  BY <1>2, TaskIsOp DEF DispInv, GraphInv, StartedAreTasks, LoopShape
<1>4. ops[p].type # "apply"
  BY <1>1, <1>2, <1>3, OrderedBatch DEF DependentsWait, Needs
<1> QED BY <1>1, <1>2, <1>3, <1>4 DEF BatchInv, PlanTold, DeletesPlanned

\* $refs name resources.
LEMMA RefsAreResources ==
  ASSUME DispInv, NEW o \in Op
  PROVE  RefsOf(o) \subseteq Resource
<1>1. CASE ops[o].type = "apply"
  <2>1. ops[o] \in Row /\ ops[o].val \in Value
    BY <1>1, RowOrNone DEF DispInv, TypeOK, NoRow
  <2>2. Res(o) \in Resource
    BY <2>1 DEF Res, Row
  <2> QED BY <2>1, <2>2, RefsAssumption DEF RefsOf
<1> QED BY <1>1 DEF RefsOf

\* The children of a composite that executes beside another operation are noted.
LEMMA BesideOthers ==
  ASSUME DispInv, BatchInv, NEW o \in Op, NEW p \in Op, p # o, Executing(o),
         pc[p] \in {"exec", "apply"}
  PROVE  ChildrenOf(Res(p)) \subseteq plan.children
<1>1. Executing(p) /\ ops[p].type \in {"apply", "delete"}
  BY ExecutingRow DEF Executing
<1>2. loop = "graph" /\ state[p] = "running"
  BY <1>1 DEF DispInv, LoopShape
<1>3. p \in batch
  BY <1>2, TaskIsOp DEF DispInv, GraphInv, StartedAreTasks, LoopShape
<1> QED BY <1>1, <1>2, <1>3 DEF BatchInv, PlanTold, ChildrenPlanned

LEMMA NextFresh == DispInv /\ DispInv' /\ BatchInv /\ RefsFresh /\ [Next]_vars => RefsFresh'
<1> SUFFICES ASSUME DispInv, DispInv', BatchInv, RefsFresh, [Next]_vars, ~ plan'.cyclic,
                    NEW o \in Op, pc'[o] \in {"apply", "save"},
                    NEW d \in RefsOf(o)', d # Res(o)', d \notin ChildrenOf(Res(o))'
             PROVE  \/ live'[d] # None /\ live'[d].val = resolved'[o][d]
                    \/ d \in plan'.deletes \cup plan'.children
  BY DEF RefsFresh
<1>0. /\ live \in [Resource -> Content \cup {None}] /\ resolved \in [Op -> RefValues]
      /\ pc \in [Op -> Steps]
  BY DEF DispInv, TypeOK
<1>1. CASE ResolveRefs(o)
  <2>1. /\ Resolvable(o) /\ resolved' = [resolved EXCEPT ![o] = Resolve(o)]
        /\ UNCHANGED <<ops, live, plan>>
    BY <1>1 DEF ResolveRefs, dataVars, histVars
  <2>2. d \in RefsOf(o)
    BY <2>1 DEF RefsOf, Res
  <2>3. d \in Resource
    BY <2>2, RefsAreResources
  <2> QED BY <1>0, <2>1, <2>2, <2>3 DEF Resolvable, Resolve
<1>2. ASSUME pc[o] \in {"apply", "save"}
      PROVE  RefsOf(o)' = RefsOf(o) /\ Res(o)' = Res(o)
  <2>1. ops[o].status = "running" /\ ops'[o].status = "running"
    <3>1. ops[o].status = "running"
      BY <1>2 DEF DispInv, ExecutingRowIsRunning, Executing
    <3>2. ops'[o].status = "running"
      BY DEF DispInv, ExecutingRowIsRunning, Executing
    <3> QED BY <3>1, <3>2
  <2>2. o <= lastOp /\ ops'[o] # NoRow
    BY <2>1, StageOf DEF NoRow
  <2> QED BY <2>2, RowsKept DEF RefsOf, Res
<1>3. ASSUME NEW p \in Op, ProviderOk(p) \/ ProviderFails(p), resolved' = resolved, plan' = plan,
             p # o => pc[o] \in {"apply", "save"}
      PROVE  \/ live'[d] # None /\ live'[d].val = resolved'[o][d]
             \/ d \in plan'.deletes \cup plan'.children
  <2>1. /\ pc[p] \in {"exec", "apply"} /\ InProvider(p) /\ UNCHANGED ops
        /\ live' \in {live, [live EXCEPT ![Res(p)] = Intended(p)]}
    BY <1>3 DEF ProviderOk, ProviderFails, InProvider
  <2>2. Res(p) \in Resource
    BY <2>1, ExecutingRow DEF Res
  <2>3. d \in RefsOf(o) /\ d # Res(o) /\ d \notin ChildrenOf(Res(o))
    BY <2>1 DEF RefsOf, Res, ChildrenOf
  <2>4. pc[o] \in {"apply", "save"}
    <3>1. CASE p = o
      BY <2>1, <2>3, <3>1 DEF RefsOf, InProvider
    <3> QED BY <1>3, <3>1
  <2>5. CASE d # Res(p)
    <3>1. live'[d] = live[d]
      BY <1>0, <2>1, <2>3, <2>5, RefsAreResources
    <3> QED BY <1>3, <2>3, <2>4, <3>1 DEF RefsFresh
  <2>6. CASE d = Res(p)
    <3>1. p # o
      BY <2>3, <2>6
    <3> QED BY <1>3, <2>1, <2>3, <2>4, <2>6, <3>1, NoMeddling DEF Executing
  <2> QED BY <2>5, <2>6
<1>4. CASE /\ pc[o] \in {"apply", "save"} /\ resolved'[o] = resolved[o]
           /\ live' = live /\ plan' = plan
  <2>1. ChildrenOf(Res(o))' = ChildrenOf(Res(o))
    BY <1>2, <1>4 DEF ChildrenOf
  <2> QED BY <1>2, <1>4, <2>1 DEF RefsFresh
<1>5. ASSUME NEW p \in Op, NEW x \in Child, ChildStep(p, x)
      PROVE  \/ live'[d] # None /\ live'[d].val = resolved'[o][d]
             \/ d \in plan'.deletes \cup plan'.children
  <2>1. /\ InProvider(p) /\ x \in Emits[Res(p)] /\ UNCHANGED <<ops, pc, resolved, plan>>
        /\ \E new \in ChildMayBe(p, x) : live' = [live EXCEPT ![x.res] = new]
    BY <1>5 DEF ChildStep, execVars, histVars
  <2>2. /\ d \in RefsOf(o) /\ d # Res(o) /\ d \notin ChildrenOf(Res(o))
        /\ pc[o] \in {"apply", "save"}
    BY <2>1 DEF RefsOf, Res, ChildrenOf
  <2>3. CASE d # x.res
    <3>1. live'[d] = live[d]
      BY <1>0, <2>1, <2>2, <2>3, RefsAreResources
    <3> QED BY <2>1, <2>2, <3>1 DEF RefsFresh
  <2>4. CASE d = x.res
    <3>1. d \in ChildrenOf(Res(p))
      BY <2>1, <2>4 DEF ChildrenOf
    <3>2. p # o
      BY <2>2, <3>1
    <3>3. d \in plan.children
      BY <2>1, <2>2, <3>1, <3>2, BesideOthers DEF Executing, InProvider
    <3> QED BY <2>1, <3>3
  <2> QED BY <2>3, <2>4
<1> QED BY <1>1, <1>3, <1>4, <1>5, ValueSteps

\* The $ref values an apply works with, and records in its refs hash, are still
\* the referenced resources' values: nothing but a delete in its batch, a
\* composite in its batch (or itself) with such a child, or a cycle gets between
\* reading and using them.
THEOREM RefsStayFresh == Spec => []RefsFresh
<1>1. Init => RefsFresh
  BY DEF Init, RefsFresh
<1> QED BY <1>1, NextFresh, DispatcherInvariant, BatchHolds, PTL DEF Spec

\* The desired state is what the operation asked for.
AsAsked(o) ==
  CASE ops[o].type = "delete" -> manifest[Res(o)] = None
    [] OTHER -> manifest[Res(o)] # None /\ manifest[Res(o)].val = ops[o].val

SavedInv ==
  \A o \in Op : /\ pc[o] = "complete" /\ outcome[o] = "succeeded" /\ ~ CtxDone(o)
                 /\ Res(o) \notin plan.children
                 => AsAsked(o)

\* Where a call that is about to record success comes from.
LEMMA SuccessSteps ==
  ASSUME DispInv, DispInv', [Next]_vars, NEW o \in Op, pc'[o] = "complete", outcome'[o] = "succeeded",
         ~ CtxDone(o)'
  PROVE  \/ ServeFromCache(o) \/ SaveManifest(o)
         \/ /\ pc[o] = "complete" /\ outcome[o] = "succeeded" /\ ~ CtxDone(o)
            /\ plan' = plan
            /\ \/ manifest' = manifest
               \/ \E p \in Op \ {o} : SaveManifest(p)
               \/ \E p \in Op, x \in Child : ChildStep(p, x)
<1> USE DEF execVars, dataVars, histVars, procVars, CtxDone
<1>0. /\ pc \in [Op -> Steps] /\ ctxErr \in BOOLEAN
      /\ outcome \in [Op -> {"none", "succeeded", "failed", "canceled"}]
  BY DEF DispInv, TypeOK, GraphTypeOK
<1>1. CASE Client
  BY <1>1 DEF Client, Submit, CancelPending, CancelRunning
<1>2. CASE Drain
  <2>1. /\ UNCHANGED <<pc, outcome, manifest, userCancelled>>
    BY <1>2 DEF Drain, Wake, Claim, DrainEmpty, DrainStarts, DrainCanceled, GraphReceive,
                GraphReturns, DrainDone
  <2>2. ctxErr' = ctxErr
    BY <1>2 DEF Drain, Wake, Claim, DrainEmpty, DrainStarts, DrainCanceled, GraphReceive,
                GraphReturns, DrainDone, CallStarts, CallCanceled, ReceiveAndStop, ReceiveAndLaunch,
                Return
  <2>3. loop \in {"exec", "graph"} /\ loop' \in {"exec", "graph"}
    <3>1. loop' \in {"exec", "graph"}
      BY DEF DispInv, LoopShape, Executing
    <3> QED BY <2>1, <3>1 DEF DispInv, LoopShape, Executing
  <2>4. plan' = plan
    BY <1>2, <2>3 DEF Drain, Wake, Claim, DrainEmpty, DrainStarts, DrainCanceled, ClaimingEnds,
                      GraphReceive, GraphReturns, DrainDone
  <2> QED BY <2>1, <2>2, <2>4
<1>3. ASSUME NEW p \in Op, Execute(p)
      PROVE  \/ p = o /\ (ServeFromCache(p) \/ SaveManifest(p))
             \/ /\ pc[o] = "complete" /\ outcome[o] = "succeeded" /\ ~ CtxDone(o)
                /\ plan' = plan
                /\ manifest' = manifest \/ (p # o /\ SaveManifest(p))
  <2>1. CASE Begin(p)
    BY <1>0, <2>1 DEF Begin, EndsAs, Goto
  <2>2. CASE ServeFromCache(p) \/ SaveManifest(p)
    BY <1>0, <2>2 DEF ServeFromCache, SaveManifest, EndsAs, Goto
  <2>3. CASE ResolveRefs(p) \/ ProviderOk(p)
    BY <1>0, <2>3 DEF ResolveRefs, ProviderOk, Goto
  <2>4. CASE ResolveFails(p) \/ ProviderFails(p)
    <3>1. terminalOutcome(p) # "succeeded"
      BY DEF terminalOutcome
    <3> QED BY <1>0, <2>4, <3>1 DEF ResolveFails, ProviderFails, EndsAs, Goto
  <2>5. CASE CompleteOp(p)
    BY <1>0, <2>5 DEF CompleteOp, Goto
  <2>6. CASE Leave(p)
    <3>1. /\ pc' = [pc EXCEPT ![p] = "idle"] /\ outcome' = [outcome EXCEPT ![p] = "none"]
          /\ userCancelled' = userCancelled \ {p} /\ manifest' = manifest /\ ctxErr' = ctxErr
          /\ plan' = plan
      BY <2>6 DEF Leave, Goto, TaskReturns
    <3> QED BY <1>0, <3>1
  <2> QED BY <1>3, <2>1, <2>2, <2>3, <2>4, <2>5, <2>6 DEF Execute
<1>4. CASE Shutdown \/ Restart
  BY <1>4 DEF Shutdown, Restart
<1>5. ~ (Exit \/ Crash)
  BY DEF Exit, Crash, ProcessEnds
<1>6. ASSUME NEW p \in Op, NEW x \in Child, ChildStep(p, x)
      PROVE  pc[o] = "complete" /\ outcome[o] = "succeeded" /\ ~ CtxDone(o) /\ plan' = plan
  BY <1>6 DEF ChildStep
<1>7. CASE UNCHANGED vars
  BY <1>7 DEF vars
<1> QED BY <1>1, <1>2, <1>3, <1>4, <1>5, <1>6, <1>7 DEF Next

LEMMA NextSaved == DispInv /\ DispInv' /\ BatchInv /\ SavedInv /\ [Next]_vars => SavedInv'
<1> SUFFICES ASSUME DispInv, DispInv', BatchInv, SavedInv, [Next]_vars, NEW o \in Op,
                    pc'[o] = "complete", outcome'[o] = "succeeded", ~ CtxDone(o)',
                    Res(o)' \notin plan'.children
             PROVE  AsAsked(o)'
  BY DEF SavedInv
<1>0. manifest \in [Resource -> Content \cup {None}]
  BY DEF DispInv, TypeOK
<1>1. CASE ServeFromCache(o)
  <2>1. ops[o].type = "apply" /\ CacheHit(o) /\ UNCHANGED <<ops, manifest>>
    BY <1>1 DEF ServeFromCache, ExecApply, dataVars
  <2> QED BY <2>1 DEF CacheHit, AsAsked, Res
<1>2. CASE SaveManifest(o)
  <2>1. /\ UNCHANGED <<ops, ctxErr, userCancelled>> /\ manifest' = Persisted(o) /\ pc[o] = "save"
    BY <1>2 DEF SaveManifest
  <2>2. /\ manifest' = [manifest EXCEPT ![Res(o)] = Intended(o)]
        /\ Res(o) \in Resource /\ ops[o].type \in {"apply", "delete"}
    BY <2>1, ExecutingRow DEF Persisted, CtxDone, Res
  <2>3. manifest'[Res(o)] = Intended(o)
    BY <1>0, <2>2
  <2>4. Intended(o) \in Content \cup {None}
    BY <2>2, IntendedType
  <2>5. ops[o].type = "apply" => Intended(o) # None /\ Intended(o).val = ops[o].val
    <3>1. ops[o].type = "apply" => Intended(o) = [val |-> ops[o].val, refs |-> resolved[o]]
      BY DEF Intended
    <3> QED BY <3>1, ContentAssumption DEF DispInv, TypeOK, Content
  <2>6. ops[o].type = "delete" => Intended(o) = None
    BY DEF Intended
  <2> QED BY <2>1, <2>2, <2>3, <2>5, <2>6 DEF AsAsked, Res
<1>3. ASSUME pc[o] = "complete"
      PROVE  ops'[o].type = ops[o].type /\ ops'[o].val = ops[o].val /\ Res(o)' = Res(o)
  <2>1. ops[o].status = "running"
    BY <1>3 DEF DispInv, ExecutingRowIsRunning, Executing
  <2>2. ops'[o].status = "running"
    BY DEF DispInv, ExecutingRowIsRunning, Executing
  <2>3. o <= lastOp /\ ops'[o] # NoRow
    BY <2>1, <2>2, StageOf DEF NoRow
  <2> QED BY <2>3, RowsKept DEF Res
<1>4. CASE /\ pc[o] = "complete" /\ outcome[o] = "succeeded" /\ ~ CtxDone(o)
           /\ manifest' = manifest /\ plan' = plan
  BY <1>3, <1>4 DEF SavedInv, AsAsked
<1>5. ASSUME NEW p \in Op \ {o}, SaveManifest(p),
             pc[o] = "complete", outcome[o] = "succeeded", ~ CtxDone(o), plan' = plan
      PROVE  AsAsked(o)'
  <2>1. pc[p] = "save" /\ manifest' = Persisted(p) /\ p \in Op
    BY <1>5 DEF SaveManifest
  <2>2. ops[o].status \in Active /\ ops[p].status \in Active /\ Res(p) \in Resource
    BY <1>5, <2>1, ExecutingRow DEF Active, Res
  <2>3. Res(o) # Res(p)
    BY <1>5, <2>1, <2>2 DEF DispInv, OneInFlightPerResource
  <2>4. manifest'[Res(o)] = manifest[Res(o)]
    BY <1>0, <2>1, <2>2, <2>3 DEF Persisted
  <2>5. AsAsked(o)
    BY <1>3, <1>5 DEF SavedInv
  <2> QED BY <1>3, <1>5, <2>4, <2>5 DEF AsAsked
<1>6. ASSUME NEW p \in Op, NEW x \in Child, ChildStep(p, x),
             pc[o] = "complete", outcome[o] = "succeeded", ~ CtxDone(o), plan' = plan
      PROVE  AsAsked(o)'
  <2>1. /\ InProvider(p) /\ x \in Emits[Res(p)]
        /\ \E new \in ChildMayBe(p, x) : manifest' \in {manifest, [manifest EXCEPT ![x.res] = new]}
    BY <1>6 DEF ChildStep
  <2>2. p # o /\ pc[p] \in {"exec", "apply"} /\ Executing(o)
    BY <1>6, <2>1 DEF InProvider, Executing
  <2>3. x.res \in plan.children
    <3>1. x.res \in ChildrenOf(Res(p))
      BY <2>1 DEF ChildrenOf
    <3> QED BY <2>2, <3>1, BesideOthers
  <2>4. Res(o) \in Resource /\ Res(o) # x.res
    BY <1>3, <1>6, <2>3, ExecutingRow DEF Res
  <2>5. manifest'[Res(o)] = manifest[Res(o)]
    BY <1>0, <2>1, <2>4
  <2>6. AsAsked(o)
    BY <1>3, <1>6 DEF SavedInv
  <2> QED BY <1>3, <1>6, <2>5, <2>6 DEF AsAsked
<1> QED BY <1>1, <1>2, <1>4, <1>5, <1>6, SuccessSteps

\* An operation that succeeds without having been canceled or shut down leaves
\* exactly its manifest, or its absence, in the desired-state table, unless a
\* composite of its batch has the resource as a child.
THEOREM SavedIsAsked == Spec => SavedUnlessCanceled
<1>1. Init => SavedInv
  BY DEF Init, SavedInv
<1>2. SavedInv /\ [Next]_vars =>
        [\A o \in Op :
           /\ pc[o] = "complete" /\ pc'[o] = "leave" /\ outcome[o] = "succeeded"
           /\ ~ CtxDone(o) /\ Res(o) \notin plan.children
           => CASE ops[o].type = "delete" -> manifest[Res(o)] = None
                [] OTHER -> manifest[Res(o)] # None /\ manifest[Res(o)].val = ops[o].val]_vars
  BY DEF SavedInv, AsAsked
<1> QED BY <1>1, <1>2, NextSaved, DispatcherInvariant, BatchHolds, PTL DEF Spec, SavedUnlessCanceled

-----------------------------------------------------------------------------
(* Retention.  The text order of submitted_at is not the order of time, but *)
(* it orders all rows, and that is all pruning needs: rows that are kept    *)
(* have different numbers of newer rows, all below the cap.                 *)

LEMMA DivMod ==
  ASSUME NEW n \in Nat
  PROVE  /\ n % Second \in 0..(Second - 1) /\ n \div Second \in Nat
         /\ n = Second * (n \div Second) + (n % Second)
BY SecondAssumption

LEMMA NoMultipleBelow ==
  ASSUME NEW a \in Int, NEW r \in Nat, r < Second, Second * a = r
  PROVE  r = 0
<1>1. Second \in Nat /\ Second > 0
  BY SecondAssumption
<1>2. CASE a <= 0
  <2>1. Second * a <= 0
    BY <1>1, <1>2
  <2> QED BY <1>1, <2>1
<1>3. CASE a >= 1
  <2>1. PICK k \in Nat : a = k + 1
    <3>1. a - 1 \in Nat /\ a = (a - 1) + 1
      BY <1>3
    <3> QED BY <3>1
  <2>2. Second * a = Second * k + Second
    BY <1>1, <2>1
  <2>3. Second * k >= 0 /\ Second * k \in Int
    BY <1>1, <2>1
  <2> QED BY <1>1, <2>2, <2>3
<1> QED BY <1>2, <1>3

\* Dropping trailing zeros never makes two instants equal.
LEMMA SortKeysDiffer ==
  ASSUME NEW n \in Nat, NEW m \in Nat, SortKey(n) = SortKey(m)
  PROVE  n = m
<1>1. Second \in Nat /\ Second > 0
  BY SecondAssumption
<1>2. ASSUME NEW x \in Nat, NEW y \in Nat, x % Second = 0, y % Second # 0, y = x + Second
      PROVE  FALSE
  <2> DEFINE q == x \div Second
             k == y \div Second
             r == y % Second
  <2>1. q \in Nat /\ x = Second * q + 0
    BY <1>2, DivMod
  <2>2. k \in Nat /\ r \in 0..(Second - 1) /\ y = Second * k + r
    BY DivMod
  <2> HIDE DEF q, k, r
  <2>3. Second * (q + 1 - k) = Second * q + Second - Second * k
    BY <1>1, <2>1, <2>2
  <2>4. Second * q \in Nat /\ Second * k \in Nat
    BY <1>1, <2>1, <2>2
  <2>5. Second * (q + 1 - k) = r
    BY <1>1, <1>2, <2>1, <2>2, <2>3, <2>4
  <2>6. r = 0
    BY <1>1, <2>1, <2>2, <2>5, NoMultipleBelow
  <2> QED BY <1>2, <2>6 DEF r
<1> QED BY <1>1, <1>2 DEF SortKey

\* Sets of operations have a size.
LEMMA OpSets ==
  ASSUME NEW S \in SUBSET Op
  PROVE  IsFiniteSet(S) /\ Cardinality(S) \in Nat
BY OpAssumption, FS_Subset, FS_CardinalityType

\* Of two completed rows the one that is ordered first has more newer rows.
LEMMA NewerCounts ==
  ASSUME NEW tab, NEW r, NEW o \in Prunable(tab, r), NEW p \in Prunable(tab, r),
         SortKey(o) < SortKey(p)
  PROVE  Cardinality(Newer(tab, r, p)) < Cardinality(Newer(tab, r, o))
<1>1. Op \subseteq Nat /\ Prunable(tab, r) \subseteq Op
  BY OpAssumption DEF Prunable
<1>2. \A x \in Op : SortKey(x) \in Nat
  BY <1>1, SecondAssumption DEF SortKey
<1>3. Newer(tab, r, p) \cup {p} \subseteq Newer(tab, r, o) /\ p \notin Newer(tab, r, p)
  <2>1. /\ SortKey(o) \in Nat /\ SortKey(p) \in Nat
        /\ \A x \in Prunable(tab, r) : SortKey(x) \in Nat
    BY <1>1, <1>2
  <2>2. \A x \in Prunable(tab, r) : SortKey(x) > SortKey(p) => SortKey(x) > SortKey(o)
    BY <2>1
  <2>3. SortKey(p) > SortKey(o) /\ ~ (SortKey(p) > SortKey(p))
    BY <2>1
  <2> QED BY <2>2, <2>3 DEF Newer
<1>4. Newer(tab, r, o) \in SUBSET Op /\ Newer(tab, r, p) \in SUBSET Op
  BY <1>1 DEF Newer
<1>5. /\ IsFiniteSet(Newer(tab, r, o)) /\ IsFiniteSet(Newer(tab, r, p))
      /\ Cardinality(Newer(tab, r, o)) \in Nat /\ Cardinality(Newer(tab, r, p)) \in Nat
  BY <1>4, OpSets
<1>6. Cardinality(Newer(tab, r, p) \cup {p}) = Cardinality(Newer(tab, r, p)) + 1
  BY <1>3, <1>5, FS_AddElement
<1>7. Cardinality(Newer(tab, r, p) \cup {p}) <= Cardinality(Newer(tab, r, o))
  BY <1>3, <1>5, FS_Subset
<1> QED BY <1>5, <1>6, <1>7

\* Pruning leaves at most the cap.
LEMMA PruningBounds ==
  ASSUME NEW tab, NEW r, Retain > 0
  PROVE  Cardinality(Prunable(gcResource(tab, r), r)) <= Retain
<1> DEFINE K == Prunable(gcResource(tab, r), r)
           f == [o \in K |-> Cardinality(Newer(tab, r, o))]
<1>1. \A o \in K : o \in Prunable(tab, r) /\ ~ (Cardinality(Newer(tab, r, o)) >= Retain)
  BY DEF Prunable, gcResource, NoRow
<1>2. \A o \in Op : Newer(tab, r, o) \in SUBSET Op
  BY DEF Newer, Prunable
<1>3. Op \subseteq Nat /\ Prunable(tab, r) \subseteq Op /\ Retain \in Nat
  BY OpAssumption, RetainAssumption DEF Prunable
<1>4. \A o \in K : Cardinality(Newer(tab, r, o)) \in 0..(Retain - 1)
  <2> SUFFICES ASSUME NEW o \in K PROVE Cardinality(Newer(tab, r, o)) \in 0..(Retain - 1)
    OBVIOUS
  <2>1. Newer(tab, r, o) \in SUBSET Op /\ ~ (Cardinality(Newer(tab, r, o)) >= Retain)
    BY <1>1, <1>2, <1>3
  <2>2. Cardinality(Newer(tab, r, o)) \in Nat
    BY <2>1, OpSets
  <2> QED BY <1>3, <2>1, <2>2
<1>5. \A o, p \in K : Cardinality(Newer(tab, r, o)) = Cardinality(Newer(tab, r, p)) => o = p
  <2> SUFFICES ASSUME NEW o \in K, NEW p \in K, o # p
               PROVE  Cardinality(Newer(tab, r, o)) # Cardinality(Newer(tab, r, p))
    OBVIOUS
  <2>0. o \in Nat /\ p \in Nat
    BY <1>1, <1>3
  <2>1. SortKey(o) # SortKey(p) /\ SortKey(o) \in Nat /\ SortKey(p) \in Nat
    <3>1. SortKey(o) # SortKey(p)
      BY <2>0, SortKeysDiffer
    <3>2. SortKey(o) \in Nat /\ SortKey(p) \in Nat
      BY <2>0, SecondAssumption DEF SortKey
    <3> QED BY <3>1, <3>2
  <2>2. SortKey(o) < SortKey(p) \/ SortKey(p) < SortKey(o)
    BY <2>1
  <2>3. Cardinality(Newer(tab, r, o)) \in Nat /\ Cardinality(Newer(tab, r, p)) \in Nat
    BY <1>4, <1>3
  <2> QED BY <1>1, <2>2, <2>3, NewerCounts
<1>6. f \in Injection(K, 0..(Retain - 1))
  BY <1>4, <1>5 DEF Injection, IsInjective
<1>7. IsFiniteSet(0..(Retain - 1)) /\ Cardinality(0..(Retain - 1)) = Retain
  BY <1>3, FS_Interval
<1>8. Cardinality(K) <= Cardinality(0..(Retain - 1))
  BY <1>6, <1>7, FS_Injection
<1> QED BY <1>7, <1>8

\* Pruning another resource leaves these rows alone.
LEMMA PruningShrinks ==
  ASSUME NEW tab, NEW x, NEW r
  PROVE  Prunable(gcResource(tab, x), r) \subseteq Prunable(tab, r)
BY DEF Prunable, gcResource, NoRow

\* What a step does to the completed rows of a resource.
LEMMA PrunableSteps ==
  ASSUME DispInv, [Next]_vars, NEW r \in Resource
  PROVE  \/ Prunable(ops', r) \subseteq Prunable(ops, r)
         \/ (Retain > 0 => Cardinality(Prunable(ops', r)) <= Retain)
         \/ Restart /\ \E x \in Op : Prunable(ops', r) \subseteq Prunable(ops, r) \cup {x}
<1>0. ops \in Table
  BY DEF DispInv, TypeOK
<1>1. ASSUME NEW o \in Op, NEW q \in Requests, Submit(o, q)
      PROVE  Prunable(ops', r) \subseteq Prunable(ops, r)
  <2>1. PICK b \in BOOLEAN : ops' = Submitted(ops, o, q, b)
    BY <1>1 DEF Submit
  <2>2. q \in Request
    BY RequestsAssumption
  <2>3. /\ ops'[o] = [status |-> "pending", type |-> q.type, res |-> q.res, val |-> q.val]
        /\ \A p \in Op \ {o} :
             \/ ops'[p] = ops[p]
             \/ /\ ops'[p] = NoRow
                /\ ops[p].status \in {"succeeded", "failed", "interrupted"}
    BY <1>0, <2>1, <2>2, SubmitTable
  <2> QED BY <2>3 DEF Prunable, NoRow
<1>2. ASSUME NEW o \in Op, CancelPending(o) \/ Claim(o)
      PROVE  Prunable(ops', r) \subseteq Prunable(ops, r)
  <2>1. /\ ops[o].status = "pending"
        /\ \E st \in {"canceled", "running"} : ops' = WithStatus(ops, o, st)
    BY <1>2 DEF CancelPending, MayCancelPending, CanceledPending, Claim, NextPending, Claimed
  <2>2. PICK st \in {"canceled", "running"} : ops' = WithStatus(ops, o, st)
    BY <2>1
  <2>3. ops'[o].status = st /\ \A p \in Op : p # o => ops'[p] = ops[p]
    BY <1>0, <2>1, <2>2, StatusChange DEF Status
  <2> QED BY <2>3 DEF Prunable
<1>3. ASSUME NEW o \in Op, CompleteOp(o)
      PROVE  \/ Prunable(ops', r) \subseteq Prunable(ops, r)
             \/ Retain > 0 => Cardinality(Prunable(ops', r)) <= Retain
  <2>1. pc[o] = "complete" /\ ops' = Complete(ops, o, outcome[o])
    BY <1>3 DEF CompleteOp
  <2>2. ops[o].status = "running" /\ outcome[o] \in Status
    BY <2>1 DEF DispInv, ExecutingRowIsRunning, Executing, OutcomeKnown, TypeOK, Status
  <2> DEFINE mid == WithStatus(ops, o, outcome[o])
  <2>3. mid[o].res = ops[o].res /\ \A p \in Op : p # o => mid[p] = ops[p]
    BY <1>0, <2>2, StatusChange
  <2>4. ops' = gcResource(mid, ops[o].res)
    BY <2>1 DEF Complete
  <2> HIDE DEF mid
  <2>5. CASE ops[o].res = r
    BY <2>4, <2>5, PruningBounds
  <2>6. CASE ops[o].res # r
    <3>1. Prunable(mid, r) \subseteq Prunable(ops, r)
      BY <2>3, <2>6 DEF Prunable
    <3> QED BY <2>4, <3>1, PruningShrinks
  <2> QED BY <2>5, <2>6
<1>4. CASE Restart
  <2>1. ops' = MarkRunningInterrupted(ops)
    BY <1>4 DEF Restart
  <2>2. \A p \in Op : IF ops[p].status = "running" THEN ops'[p].res = ops[p].res
                                                  ELSE ops'[p] = ops[p]
    BY <1>0, <2>1, SweepTable
  <2>3. CASE \E x \in Op : ops[x].status = "running" /\ ops[x].res = r
    <3>1. PICK x \in Op : ops[x].status = "running" /\ ops[x].res = r
      BY <2>3
    <3>2. \A p \in Op : p # x /\ ops[p].status = "running" => ops[p].res # r
      BY <3>1 DEF DispInv, OneInFlightPerResource, Active, Res
    <3> QED BY <1>4, <2>2, <3>2 DEF Prunable
  <2>4. CASE ~ \E x \in Op : ops[x].status = "running" /\ ops[x].res = r
    BY <2>2, <2>4 DEF Prunable
  <2> QED BY <2>3, <2>4
<1>5. CASE UNCHANGED <<ops, lastOp>>
  BY <1>5
<1> QED BY <1>1, <1>2, <1>3, <1>4, <1>5, TableSteps

\* The sweeps that have taken place: one for each stop that is over.
Sweeps == IF loop = "down" \/ ctxErr THEN stops - 1 ELSE stops

StopsCount ==
  /\ loop = "down" => ~ ctxErr
  /\ loop = "down" \/ ctxErr => stops > 0

RetainInv ==
  /\ StopsCount
  /\ Retain > 0 => \A r \in Resource : Cardinality(Prunable(ops, r)) <= Retain + Sweeps

LEMMA StopSteps ==
  ASSUME DispInv, [Next]_vars
  PROVE  \/ Shutdown \/ Exit \/ Crash \/ Restart
         \/ /\ UNCHANGED <<stops, ctxErr>>
            /\ (loop' = "down") = (loop = "down")
<1> USE DEF procVars
<1>1. CASE Client
  BY <1>1 DEF Client, Submit, CancelPending, CancelRunning
<1>2. CASE Drain
  <2>1. UNCHANGED stops
    BY <1>2 DEF Drain, Wake, Claim, DrainEmpty, DrainStarts, DrainCanceled, GraphReceive,
                GraphReturns, DrainDone
  <2>2. ctxErr' = ctxErr
    BY <1>2 DEF Drain, Wake, Claim, DrainEmpty, DrainStarts, DrainCanceled, GraphReceive,
                GraphReturns, DrainDone, CallStarts, CallCanceled, ReceiveAndStop, ReceiveAndLaunch,
                Return
  <2>3. (loop' = "down") = (loop = "down")
    <3>1. CASE DrainDone
      BY <3>1 DEF DrainDone, Discard, DispInv, LoopShape
    <3> QED BY <1>2, <3>1 DEF Drain, Wake, Claim, DrainEmpty, ClaimingEnds, DrainStarts, DrainCanceled,
                              GraphReceive, GraphReturns
  <2> QED BY <2>1, <2>2, <2>3
<1>3. ASSUME NEW p \in Op, Execute(p)
      PROVE  UNCHANGED <<stops, ctxErr>> /\ (loop' = "down") = (loop = "down")
  <2>1. CASE Leave(p)
    BY <2>1 DEF Leave, TaskReturns
  <2> QED BY <1>3, <2>1 DEF Execute, Begin, ServeFromCache, ResolveRefs, ResolveFails, ProviderOk,
                            ProviderFails, SaveManifest, CompleteOp
<1>4. ASSUME NEW p \in Op, NEW x \in Child, ChildStep(p, x)
      PROVE  UNCHANGED <<stops, ctxErr, loop>>
  BY <1>4 DEF ChildStep
<1>5. CASE UNCHANGED vars
  BY <1>5 DEF vars
<1> QED BY <1>1, <1>2, <1>3, <1>4, <1>5 DEF Next

LEMMA NextRetain == DispInv /\ RetainInv /\ [Next]_vars => RetainInv'
<1> SUFFICES ASSUME DispInv, RetainInv, [Next]_vars PROVE RetainInv'
  OBVIOUS
<1>0. stops \in Nat /\ ctxErr \in BOOLEAN /\ Retain \in Nat /\ ops \in Table
  BY MaxStopsAssumption, RetainAssumption DEF DispInv, TypeOK, GraphTypeOK
<1>1. /\ StopsCount' /\ Sweeps \in Nat /\ Sweeps' \in Nat /\ Sweeps <= Sweeps'
      /\ Restart => Sweeps' = Sweeps + 1
  <2>1. CASE Shutdown
    <3>1. /\ loop # "down" /\ ctxErr = FALSE /\ ctxErr' = TRUE /\ loop' = loop /\ stops' = stops + 1
      BY <1>0, <2>1 DEF Shutdown, Up
    <3>2. ~ Restart
      BY <3>1 DEF Restart
    <3> QED BY <1>0, <3>1, <3>2 DEF StopsCount, Sweeps
  <2>2. CASE Exit \/ Crash
    BY <1>0, <2>2 DEF Exit, Crash, ProcessEnds, RetainInv, StopsCount, Sweeps, Restart, Up
  <2>3. CASE Restart
    BY <1>0, <2>3 DEF Restart, procVars, RetainInv, StopsCount, Sweeps
  <2>4. CASE ~ Restart /\ UNCHANGED <<stops, ctxErr>> /\ (loop' = "down") = (loop = "down")
    BY <1>0, <2>4 DEF RetainInv, StopsCount, Sweeps
  <2> QED BY <2>1, <2>2, <2>3, <2>4, StopSteps
<1>2. ASSUME Retain > 0, NEW r \in Resource
      PROVE  Cardinality(Prunable(ops', r)) <= Retain + Sweeps'
  <2>0. /\ Prunable(ops', r) \in SUBSET Op /\ Prunable(ops, r) \in SUBSET Op
        /\ Cardinality(Prunable(ops, r)) <= Retain + Sweeps
    BY <1>2 DEF Prunable, RetainInv
  <2>1. /\ IsFiniteSet(Prunable(ops, r)) /\ Cardinality(Prunable(ops, r)) \in Nat
        /\ Cardinality(Prunable(ops', r)) \in Nat
    BY <2>0, OpSets
  <2>2. CASE Prunable(ops', r) \subseteq Prunable(ops, r)
    <3>1. Cardinality(Prunable(ops', r)) <= Cardinality(Prunable(ops, r))
      BY <2>1, <2>2, FS_Subset
    <3> QED BY <1>0, <1>1, <2>0, <2>1, <3>1
  <2>3. CASE Cardinality(Prunable(ops', r)) <= Retain
    BY <1>0, <1>1, <2>1, <2>3
  <2>4. CASE Restart /\ \E x \in Op : Prunable(ops', r) \subseteq Prunable(ops, r) \cup {x}
    <3>1. PICK x \in Op : Prunable(ops', r) \subseteq Prunable(ops, r) \cup {x}
      BY <2>4
    <3>2. /\ IsFiniteSet(Prunable(ops, r) \cup {x})
          /\ Cardinality(Prunable(ops, r) \cup {x}) <= Cardinality(Prunable(ops, r)) + 1
          /\ Cardinality(Prunable(ops, r) \cup {x}) \in Nat
      <4> DEFINE S == Prunable(ops, r)
      <4>1. IsFiniteSet(S) /\ Cardinality(S) \in Nat
        BY <2>1
      <4> HIDE DEF S
      <4>2. /\ IsFiniteSet(S \cup {x})
            /\ Cardinality(S \cup {x}) = IF x \in S THEN Cardinality(S) ELSE Cardinality(S) + 1
        BY <4>1, FS_AddElement
      <4>3. /\ Cardinality(S \cup {x}) <= Cardinality(S) + 1
            /\ Cardinality(S \cup {x}) \in Nat
        BY <4>1, <4>2
      <4> QED BY <4>2, <4>3 DEF S
    <3>3. Cardinality(Prunable(ops', r)) <= Cardinality(Prunable(ops, r) \cup {x})
      BY <3>1, <3>2, FS_Subset
    <3> QED BY <1>0, <1>1, <2>0, <2>1, <2>4, <3>2, <3>3
  <2> QED BY <1>2, <2>2, <2>3, <2>4, PrunableSteps
<1> QED BY <1>1, <1>2 DEF RetainInv

\* The retention cap holds at all times, also when Submit's prune fails, but
\* for one row for every sweep, because the sweep does not prune.
THEOREM RetentionHolds == Spec => []RetentionBound
<1>1. Init => RetainInv
  <2> SUFFICES ASSUME Init PROVE RetainInv
    OBVIOUS
  <2>1. loop = "claim" /\ ctxErr = FALSE /\ stops = 0 /\ ops = [o \in Op |-> NoRow]
    BY DEF Init, GraphInit
  <2>2. \A r \in Resource : Prunable(ops, r) = {}
    BY <2>1 DEF Prunable, NoRow
  <2>3. \A r \in Resource : Cardinality(Prunable(ops, r)) = 0
    BY <2>2, FS_EmptySet
  <2> QED BY <2>1, <2>3, RetainAssumption DEF RetainInv, StopsCount, Sweeps
<1>2. DispInv /\ RetainInv => RetentionBound
  <2> SUFFICES ASSUME DispInv, RetainInv, Retain > 0, NEW r \in Resource
               PROVE  Cardinality(Prunable(ops, r)) <= Retain + stops
    BY DEF RetentionBound
  <2>1. stops \in Nat /\ Retain \in Nat
    BY MaxStopsAssumption, RetainAssumption DEF DispInv, TypeOK
  <2>2. Prunable(ops, r) \in SUBSET Op
    BY DEF Prunable
  <2>3. Cardinality(Prunable(ops, r)) \in Nat
    BY <2>2, OpSets
  <2>4. Sweeps \in Int /\ Sweeps <= stops
    BY <2>1 DEF Sweeps
  <2> QED BY <2>1, <2>3, <2>4 DEF RetainInv
<1> QED BY <1>1, <1>2, NextRetain, DispatcherInvariant, PTL DEF Spec

=============================================================================
