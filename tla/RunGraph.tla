------------------------------- MODULE RunGraph -------------------------------
(***************************************************************************)
(* operations.RunGraph (internal/controller/operations/graph.go): the      *)
(* dependency-graph engine that runs both the children of a composite      *)
(* resource and the dispatcher's batches of operations.                    *)
(*                                                                         *)
(* One goroutine runs the scheduling loop; every task runs in a goroutine  *)
(* of its own and reports on an unbuffered channel.  Nobody but the loop   *)
(* touches the loop's locals, so the receipt of a result together with the *)
(* launches it leads to is one step; its ctx.Err() check is the point at   *)
(* which that step is ordered against a cancellation.                      *)
(***************************************************************************)
EXTENDS Naturals, FiniteSets

CONSTANTS
  Task,          \* task IDs; the code orders them as strings
  Concurrency    \* the values callers pass for concurrency

ASSUME TaskAssumption == Task \subseteq Nat /\ IsFiniteSet(Task)
ASSUME ConcurrencyAssumption == Concurrency \subseteq Nat

VARIABLES
  phase,       \* "idle" before a call, "loop" inside it, "returned" after it
  tasks,       \* IDs of the tasks passed to the call
  deps,        \* task -> its DependsOn
  limit,       \* effective concurrency
  indegree,    \* task -> number of unmet dependencies
  ready,       \* launchable tasks
  state,       \* task -> what has become of it
  firstErr,    \* {} or the task whose error was received first
  stopLaunch,  \* no more launches
  ctxErr,      \* the call's context has been canceled
  ret          \* what the call returned

graphVars == <<phase, tasks, deps, limit, indegree, ready, state, firstErr,
               stopLaunch, ret>>

\* "running" is inside Run; "sentOk" and "sentErr" have returned from Run and
\* are blocked on the results channel; "ok" and "failed" have been received.
TaskState == {"waiting", "running", "sentOk", "sentErr", "ok", "failed"}

InFlightStates == {"running", "sentOk", "sentErr"}
DoneStates     == {"ok", "failed"}

InFlight  == {t \in Task : state[t] \in InFlightStates}
Completed == {t \in Task : state[t] \in DoneStates}

RetKind == {"none", "nil", "duplicate", "unknown", "ctx", "task", "stuck"}
NoRet   == [kind |-> "none", tasks |-> {}]

GraphTypeOK ==
  /\ phase \in {"idle", "loop", "returned"}
  /\ tasks \in SUBSET Task
  /\ deps \in [Task -> SUBSET Task]
  /\ limit \in Nat \ {0}
  /\ indegree \in [Task -> Nat]
  /\ ready \in SUBSET Task
  /\ state \in [Task -> TaskState]
  /\ firstErr \in SUBSET Task
  /\ stopLaunch \in BOOLEAN
  /\ ctxErr \in BOOLEAN
  /\ ret \in [kind : RetKind, tasks : SUBSET Task]

NoDeps == [t \in Task |-> {}]

\* The locals of a call before or after its lifetime.
GraphIdle ==
  /\ phase = "idle"
  /\ tasks = {} /\ deps = NoDeps /\ limit = 1
  /\ indegree = [t \in Task |-> 0]
  /\ ready = {} /\ state = [t \in Task |-> "waiting"]
  /\ firstErr = {} /\ stopLaunch = FALSE /\ ret = NoRet

GraphInit == GraphIdle /\ ctxErr = FALSE

-----------------------------------------------------------------------------
(* Helpers of the loop.                                                    *)

\* The definitions named Faulty... are variants of the definition that follows
\* them; each breaks a property, which shows that the property can fail.

FaultyNoClamp(c) == c

\* A concurrency below 1 means fully serial.
Clamp(c) == IF c < 1 THEN 1 ELSE c

FaultyFillPastLimit(S, r, n, c) == S = r

\* fill launches ready tasks until none is left or the limit is reached; S is
\* a set of tasks it may launch with r ready and n in flight under limit c.
Fills(S, r, n, c) ==
  /\ S \subseteq r
  /\ n + Cardinality(S) <= c
  /\ S = r \/ n + Cardinality(S) = c

FaultyUnsorted(S, r) == TRUE

\* The ready list is sorted, so fill launches the lowest IDs first.
LowestFirst(S, r) == \A s \in S, u \in r \ S : s < u

Launch(st, S) == [t \in Task |-> IF t \in S THEN "running" ELSE st[t]]

\* Dependencies of t met by the success of d: every dependent of d loses one.
Decremented(d) ==
  [t \in Task |-> IF t \in tasks /\ d \in deps[t] THEN indegree[t] - 1
                                                 ELSE indegree[t]]

FaultyReadyEarly(d) == {t \in tasks : d \in deps[t] /\ Decremented(d)[t] <= 1}

NewlyReady(d) == {t \in tasks : d \in deps[t] /\ Decremented(d)[t] = 0}

FaultyStuckOnSeveral == {t \in tasks : indegree[t] > 1}

\* stuckTasks: the tasks that never reached indegree zero.
StuckTasks == {t \in tasks : indegree[t] > 0}

-----------------------------------------------------------------------------
(* The call: validation, the early return on a dead context, first fill.   *)

UnknownDep(T, D) == \E t \in T : ~ (D[t] \subseteq T)

\* A duplicate ID or an unknown dependency is refused before anything runs.
CallRejected(T, D, c, dup) ==
  /\ phase = "idle"
  /\ dup \/ UnknownDep(T, D)
  /\ phase' = "returned"
  /\ ret' = [kind |-> IF dup THEN "duplicate" ELSE "unknown", tasks |-> {}]
  /\ tasks' = T /\ deps' = D /\ limit' = Clamp(c)
  /\ indegree' = [t \in Task |-> 0] /\ ready' = {}
  /\ state' = [t \in Task |-> "waiting"]
  /\ firstErr' = {} /\ stopLaunch' = FALSE
  /\ UNCHANGED ctxErr

InitialIndegree(T, D) ==
  [t \in Task |-> IF t \in T THEN Cardinality(D[t]) ELSE 0]

InitiallyReady(T, D) == {t \in T : InitialIndegree(T, D)[t] = 0}

CallCanceled(T, D, c) ==
  /\ phase = "idle"
  /\ ~ UnknownDep(T, D)
  /\ ctxErr
  /\ phase' = "returned"
  /\ ret' = [kind |-> "ctx", tasks |-> {}]
  /\ tasks' = T /\ deps' = D /\ limit' = Clamp(c)
  /\ indegree' = InitialIndegree(T, D) /\ ready' = InitiallyReady(T, D)
  /\ state' = [t \in Task |-> "waiting"]
  /\ firstErr' = {} /\ stopLaunch' = FALSE
  /\ UNCHANGED ctxErr

CallStarts(T, D, c, S) ==
  /\ phase = "idle"
  /\ ~ UnknownDep(T, D)
  /\ ~ ctxErr
  /\ Fills(S, InitiallyReady(T, D), 0, Clamp(c))
  /\ phase' = "loop" /\ ret' = NoRet
  /\ tasks' = T /\ deps' = D /\ limit' = Clamp(c)
  /\ indegree' = InitialIndegree(T, D)
  /\ ready' = InitiallyReady(T, D) \ S
  /\ state' = Launch([t \in Task |-> "waiting"], S)
  /\ firstErr' = {} /\ stopLaunch' = FALSE
  /\ UNCHANGED ctxErr

-----------------------------------------------------------------------------
(* Tasks, and the loop that receives their results.                        *)

\* Run returns (a nil Run is a barrier that returns at once without error).
TaskReturns(t, err) ==
  /\ state[t] = "running"
  /\ state' = [state EXCEPT ![t] = IF err THEN "sentErr" ELSE "sentOk"]
  /\ UNCHANGED <<phase, tasks, deps, limit, indegree, ready, firstErr,
                 stopLaunch, ctxErr, ret>>

Received(t) ==
  [state EXCEPT ![t] = IF state[t] = "sentErr" THEN "failed" ELSE "ok"]

FaultyKeepsLaunching(t) ==
  /\ phase = "loop"
  /\ state[t] = "sentErr"
  /\ state' = Received(t)
  /\ firstErr' = IF firstErr = {} THEN {t} ELSE firstErr
  /\ UNCHANGED <<phase, tasks, deps, limit, indegree, ready, stopLaunch, ctxErr, ret>>

FaultyNoDrain(t) ==
  /\ phase = "loop"
  /\ ~ ctxErr
  /\ state[t] = "sentErr" \/ (stopLaunch /\ state[t] = "sentOk")
  /\ state' = Received(t)
  /\ firstErr' = IF state[t] = "sentErr" /\ firstErr = {} THEN {t} ELSE firstErr
  /\ stopLaunch' = TRUE
  /\ UNCHANGED <<phase, tasks, deps, limit, indegree, ready, ctxErr, ret>>

\* A result after which nothing new is launched: it is an error, an earlier
\* one was, or the context has been canceled.
ReceiveAndStop(t) ==
  /\ phase = "loop"
  /\ state[t] \in {"sentOk", "sentErr"}
  /\ state[t] = "sentErr" \/ stopLaunch \/ ctxErr
  /\ state' = Received(t)
  /\ firstErr' = IF state[t] = "sentErr" /\ firstErr = {} THEN {t}
                                                          ELSE firstErr
  /\ stopLaunch' = TRUE
  /\ UNCHANGED <<phase, tasks, deps, limit, indegree, ready, ctxErr, ret>>

\* A success: count it off at the dependents and launch what fits.
ReceiveAndLaunch(t, S) ==
  /\ phase = "loop"
  /\ state[t] = "sentOk"
  /\ ~ stopLaunch /\ ~ ctxErr
  /\ LET r == ready \cup NewlyReady(t)
     IN  /\ Fills(S, r, Cardinality(InFlight \ {t}), limit)
         /\ ready' = r \ S
  /\ indegree' = Decremented(t)
  /\ state' = Launch(Received(t), S)
  /\ UNCHANGED <<phase, tasks, deps, limit, firstErr, stopLaunch, ctxErr, ret>>

FaultyCtxFirst ==
  IF ctxErr THEN [kind |-> "ctx", tasks |-> {}]
  ELSE IF firstErr # {} THEN [kind |-> "task", tasks |-> firstErr]
  ELSE IF Cardinality(Completed) < Cardinality(tasks)
       THEN [kind |-> "stuck", tasks |-> StuckTasks]
       ELSE [kind |-> "nil", tasks |-> {}]

Outcome ==
  IF firstErr # {} THEN [kind |-> "task", tasks |-> firstErr]
  ELSE IF ctxErr THEN [kind |-> "ctx", tasks |-> {}]
  ELSE IF Cardinality(Completed) < Cardinality(tasks)
       THEN [kind |-> "stuck", tasks |-> StuckTasks]
       ELSE [kind |-> "nil", tasks |-> {}]

Return ==
  /\ phase = "loop"
  /\ InFlight = {}
  /\ phase' = "returned"
  /\ ret' = Outcome
  /\ UNCHANGED <<tasks, deps, limit, indegree, ready, state, firstErr,
                 stopLaunch, ctxErr>>

\* The caller has the result; the locals of the call are gone.
Discard ==
  /\ phase = "returned"
  /\ phase' = "idle"
  /\ tasks' = {} /\ deps' = NoDeps /\ limit' = 1
  /\ indegree' = [t \in Task |-> 0]
  /\ ready' = {} /\ state' = [t \in Task |-> "waiting"]
  /\ firstErr' = {} /\ stopLaunch' = FALSE /\ ret' = NoRet

-----------------------------------------------------------------------------
(* The engine on its own: any caller, any graph, any task outcomes.        *)

DepsOver(T) ==
  {D \in [Task -> SUBSET Task] : \A t \in Task \ T : D[t] = {}}

Call ==
  \E T \in SUBSET Task, c \in Concurrency : \E D \in DepsOver(T) :
    \/ \E dup \in BOOLEAN : CallRejected(T, D, c, dup)
    \/ CallCanceled(T, D, c)
    \/ \E S \in SUBSET InitiallyReady(T, D) :
         LowestFirst(S, InitiallyReady(T, D)) /\ CallStarts(T, D, c, S)

Receive(t) ==
  \/ ReceiveAndStop(t)
  \/ LET r == ready \cup NewlyReady(t)
     IN  \E S \in SUBSET r : LowestFirst(S, r) /\ ReceiveAndLaunch(t, S)

\* The caller's context is canceled at any time, also before the call.
CancelCtx ==
  /\ phase # "returned" /\ ~ ctxErr
  /\ ctxErr' = TRUE
  /\ UNCHANGED graphVars

GraphNext ==
  \/ Call
  \/ \E t \in Task, err \in BOOLEAN : TaskReturns(t, err)
  \/ \E t \in Task : Receive(t)
  \/ Return
  \/ CancelCtx
  \/ Discard /\ ctxErr' = FALSE

\* Every started goroutine is scheduled and every Run returns.
GraphFairness ==
  /\ \A t \in Task : WF_<<graphVars, ctxErr>>(\E err \in BOOLEAN : TaskReturns(t, err))
  /\ \A t \in Task : WF_<<graphVars, ctxErr>>(Receive(t))
  /\ WF_<<graphVars, ctxErr>>(Return)

GraphSpec == GraphInit /\ [][GraphNext]_<<graphVars, ctxErr>> /\ GraphFairness

-----------------------------------------------------------------------------
(* Properties.                                                             *)

\* "every task runs only after all of its DependsOn have completed
\* successfully": the indegree counters never let a task start early.
DependenciesFirst ==
  \A t \in InFlight \cup Completed : \A d \in deps[t] : state[d] = "ok"

\* "concurrency bounds how many tasks run at once".
WithinLimit == Cardinality(InFlight) <= limit

\* With concurrency 1 the order is deterministic: the task under way is the
\* lowest of all tasks that could have been started instead.
SerialRunsLowestReady ==
  limit = 1 =>
    \A t \in InFlight, u \in tasks :
      state[u] = "waiting" /\ (\A d \in deps[u] : state[d] = "ok") => t < u

\* "The first task error stops scheduling of not-yet-started tasks": from the
\* moment the loop has received an error, no task starts.
NoLaunchAfterFailure ==
  [][(\E t \in Task : state[t] = "failed") => InFlight' \subseteq InFlight]_<<graphVars, ctxErr>>

\* Every call returns: the loop never waits for a result nobody sends, and no
\* task is left blocked on the results channel.
CallReturns == phase = "loop" ~> (phase = "returned" /\ InFlight = {})

\* The tasks that lie on a dependency cycle or behind one: everybody in such a
\* set waits for somebody in it.
Unschedulable(T, D) == UNION {S \in SUBSET T : \A t \in S : D[t] \cap S # {}}

\* What RunGraph returns is what happened: nil means that every task
\* succeeded, a task error names a task that failed, and "unschedulable" names
\* exactly the tasks that lie on a dependency cycle or behind one.
ReturnIsAccurate ==
  phase = "returned" =>
    CASE ret.kind = "nil"   -> \A t \in tasks : state[t] = "ok"
      [] ret.kind = "task"  -> ret.tasks # {} /\ \A t \in ret.tasks : state[t] = "failed"
      [] ret.kind = "stuck" -> /\ ret.tasks = Unschedulable(tasks, deps) /\ ret.tasks # {}
                               /\ \A t \in tasks \ ret.tasks : state[t] = "ok"
      [] ret.kind = "ctx"   -> ctxErr
      [] OTHER              -> \A t \in tasks : state[t] = "waiting"

\* The engine implements its abstract specification.
AbstractStatus ==
  [t \in Task |-> CASE state[t] = "waiting"         -> "waiting"
                   [] state[t] \in InFlightStates -> "underway"
                   [] OTHER                        -> state[t]]

AbstractAnswer ==
  CASE phase = "idle"                        -> "idle"
    [] phase = "loop"                        -> "none"
    [] OTHER -> CASE ret.kind \in {"duplicate", "unknown"} -> "refused"
                  [] ret.kind = "ctx"                      -> "canceled"
                  [] ret.kind = "task"                     -> "failed"
                  [] ret.kind = "stuck"                    -> "stuck"
                  [] OTHER                                 -> "done"

Abstract == INSTANCE TaskGraph WITH
  job <- tasks, need <- deps, width <- limit,
  status <- AbstractStatus, canceled <- ctxErr, answer <- AbstractAnswer

ImplementsTaskGraph == Abstract!Spec

=============================================================================
