---------------------------- MODULE RunGraphProofs ----------------------------
(***************************************************************************)
(* Proofs about RunGraph, for every set of tasks, every graph over it and  *)
(* every concurrency.                                                      *)
(*                                                                         *)
(* The heart of the argument is the meaning of the indegree counters:      *)
(* while launching goes on, a task's counter is the number of its          *)
(* dependencies that have not been received as successful.  Even that the  *)
(* counters are natural numbers rests on it.                               *)
(***************************************************************************)
EXTENDS RunGraph, FiniteSetTheorems, TLAPS

Ok == {t \in Task : state[t] = "ok"}

\* The meaning of the counters.
Counts ==
  phase = "loop" /\ ~ stopLaunch =>
    \A t \in tasks : indegree[t] = Cardinality(deps[t] \ Ok)

\* A ready task has not been started and has nothing to wait for.
ReadyIsReady ==
  phase = "loop" =>
    \A t \in ready : t \in tasks /\ state[t] = "waiting" /\ deps[t] \subseteq Ok

\* An error that was received has stopped the launching.
FailureStops == (\E t \in Task : state[t] = "failed") => stopLaunch

\* Only tasks of the call are started, and only inside it are they in flight.
StartedAreTasks == \A t \in Task : state[t] # "waiting" => t \in tasks
OverIsOver == phase # "loop" => InFlight = {}

\* Outside a call nothing has a state.
IdleIsBlank == phase = "idle" => \A t \in Task : state[t] = "waiting"

GraphInv == /\ GraphTypeOK /\ Counts /\ ReadyIsReady
            /\ DependenciesFirst /\ WithinLimit /\ FailureStops /\ IdleIsBlank
            /\ StartedAreTasks /\ OverIsOver

-----------------------------------------------------------------------------
(* Facts about the helpers.                                                *)

\* Sets of tasks have a size.
LEMMA TaskSets ==
  ASSUME NEW S \in SUBSET Task
  PROVE  IsFiniteSet(S) /\ Cardinality(S) \in Nat
BY TaskAssumption, FS_Subset, FS_CardinalityType

\* A set of tasks without members is the one whose size is zero.
LEMMA NoneLeft ==
  ASSUME NEW S \in SUBSET Task
  PROVE  Cardinality(S) = 0 <=> S = {}
BY TaskSets, FS_EmptySet

\* Counting off the success of d leaves the number of unmet dependencies.
LEMMA CountingOff ==
  ASSUME NEW S \in SUBSET Task, NEW d \in S
  PROVE  Cardinality(S \ {d}) = Cardinality(S) - 1 /\ Cardinality(S) - 1 \in Nat
<1>1. IsFiniteSet(S) /\ Cardinality(S) \in Nat
  BY TaskSets
<1>2. Cardinality(S \ {d}) = Cardinality(S) - 1
  BY <1>1, FS_RemoveElement
<1>3. Cardinality(S \ {d}) \in Nat
  BY TaskSets
<1> QED BY <1>1, <1>2, <1>3

\* The clamped concurrency is at least one.
LEMMA ClampPositive ==
  ASSUME NEW c \in Concurrency
  PROVE  Clamp(c) \in Nat \ {0}
BY ConcurrencyAssumption DEF Clamp

\* Tasks without unmet dependencies at the start of a call have none at all.
LEMMA InitiallyReadyMeaning ==
  ASSUME NEW T \in SUBSET Task, NEW D \in [Task -> SUBSET Task],
         NEW t \in InitiallyReady(T, D)
  PROVE  t \in T /\ D[t] = {}
<1>1. t \in T /\ t \in Task /\ Cardinality(D[t]) = 0
  BY DEF InitiallyReady, InitialIndegree
<1>2. D[t] \in SUBSET Task
  BY <1>1
<1> QED BY <1>1, <1>2, NoneLeft

-----------------------------------------------------------------------------

\* The initial state satisfies the invariant.
LEMMA InitInv == GraphInit => GraphInv
<1> SUFFICES ASSUME GraphInit PROVE GraphInv
  OBVIOUS
<1> USE DEF GraphInit, GraphIdle
<1>1. InFlight = {} /\ Completed = {}
  BY DEF InFlight, Completed, InFlightStates, DoneStates
<1>2. WithinLimit
  BY <1>1, FS_EmptySet DEF WithinLimit
<1>3. GraphTypeOK
  <2>1. ret \in [kind : RetKind, tasks : SUBSET Task]
    BY DEF NoRet, RetKind
  <2>2. deps \in [Task -> SUBSET Task] /\ indegree \in [Task -> Nat]
    BY DEF NoDeps
  <2>3. state \in [Task -> TaskState]
    BY DEF TaskState
  <2>4. stopLaunch \in BOOLEAN /\ ctxErr \in BOOLEAN
    OBVIOUS
  <2>5. /\ phase \in {"idle", "loop", "returned"} /\ tasks \in SUBSET Task
        /\ limit \in Nat \ {0} /\ ready \in SUBSET Task /\ firstErr \in SUBSET Task
    OBVIOUS
  <2> HIDE DEF GraphInit, GraphIdle
  <2> QED BY <2>1, <2>2, <2>3, <2>4, <2>5 DEF GraphTypeOK
<1>4. Counts /\ ReadyIsReady /\ DependenciesFirst /\ FailureStops /\ IdleIsBlank
  BY <1>1 DEF Counts, ReadyIsReady, DependenciesFirst, FailureStops, IdleIsBlank
<1>5. StartedAreTasks /\ OverIsOver
  BY <1>1 DEF StartedAreTasks, OverIsOver
<1> QED BY <1>2, <1>3, <1>4, <1>5 DEF GraphInv

-----------------------------------------------------------------------------
(* The invariant is inductive, action by action.                           *)

\* A step into a state in which every task is waiting and no call is open.
LEMMA BlankStep ==
  ASSUME GraphTypeOK', phase' # "loop", state' = [t \in Task |-> "waiting"]
  PROVE  GraphInv'
<1>1. InFlight' = {} /\ Completed' = {}
  BY DEF InFlight, Completed, InFlightStates, DoneStates
<1>2. WithinLimit'
  BY <1>1, FS_EmptySet DEF WithinLimit, GraphTypeOK
<1>3. (Counts /\ ReadyIsReady /\ DependenciesFirst /\ FailureStops /\ IdleIsBlank)'
  BY <1>1 DEF Counts, ReadyIsReady, DependenciesFirst, FailureStops, IdleIsBlank
<1>4. StartedAreTasks' /\ OverIsOver'
  BY <1>1 DEF StartedAreTasks, OverIsOver
<1> QED BY <1>2, <1>3, <1>4 DEF GraphInv

\* A refused call opens nothing.
LEMMA CallRejectedInv ==
  ASSUME GraphInv, NEW T \in SUBSET Task, NEW D \in [Task -> SUBSET Task],
         NEW c \in Concurrency, NEW dup \in BOOLEAN, CallRejected(T, D, c, dup)
  PROVE  GraphInv'
<1> USE DEF CallRejected
<1>1. ret' \in [kind : RetKind, tasks : SUBSET Task]
  BY DEF RetKind
<1>2. state' \in [Task -> TaskState] /\ indegree' \in [Task -> Nat]
  BY DEF TaskState
<1>3. limit' \in Nat \ {0}
  BY ClampPositive
<1>4. stopLaunch' \in BOOLEAN /\ ctxErr' \in BOOLEAN
  BY DEF GraphInv, GraphTypeOK
<1>5. /\ phase' = "returned" /\ tasks' = T /\ deps' = D /\ ready' = {} /\ firstErr' = {}
      /\ state' = [t \in Task |-> "waiting"]
  OBVIOUS
<1> HIDE DEF CallRejected
<1>6. GraphTypeOK'
  BY <1>1, <1>2, <1>3, <1>4, <1>5 DEF GraphTypeOK
<1> QED BY <1>5, <1>6, BlankStep

\* A call under a canceled context opens nothing.
LEMMA CallCanceledInv ==
  ASSUME GraphInv, NEW T \in SUBSET Task, NEW D \in [Task -> SUBSET Task],
         NEW c \in Concurrency, CallCanceled(T, D, c)
  PROVE  GraphInv'
<1> USE DEF CallCanceled
<1>1. ret' \in [kind : RetKind, tasks : SUBSET Task]
  BY DEF RetKind
<1>2. state' \in [Task -> TaskState]
  BY DEF TaskState
<1>3. indegree' \in [Task -> Nat]
  BY TaskSets DEF InitialIndegree
<1>4. limit' \in Nat \ {0}
  BY ClampPositive
<1>5. stopLaunch' \in BOOLEAN /\ ctxErr' \in BOOLEAN
  BY DEF GraphInv, GraphTypeOK
<1>6. ready' \in SUBSET Task
  BY DEF InitiallyReady
<1>7. /\ phase' = "returned" /\ tasks' = T /\ deps' = D /\ firstErr' = {}
      /\ state' = [t \in Task |-> "waiting"]
  OBVIOUS
<1> HIDE DEF CallCanceled
<1>8. GraphTypeOK'
  BY <1>1, <1>2, <1>3, <1>4, <1>5, <1>6, <1>7 DEF GraphTypeOK
<1> QED BY <1>7, <1>8, BlankStep

\* An accepted call: the first tasks have nothing to wait for, and they fit.
LEMMA CallStartsInv ==
  ASSUME GraphInv, NEW T \in SUBSET Task, NEW D \in [Task -> SUBSET Task],
         NEW c \in Concurrency, NEW S \in SUBSET InitiallyReady(T, D),
         CallStarts(T, D, c, S)
  PROVE  GraphInv'
<1>1. /\ phase' = "loop" /\ tasks' = T /\ deps' = D /\ limit' = Clamp(c)
      /\ indegree' = InitialIndegree(T, D) /\ ready' = InitiallyReady(T, D) \ S
      /\ firstErr' = {} /\ stopLaunch' = FALSE /\ ret' = NoRet /\ ctxErr' = ctxErr
      /\ Fills(S, InitiallyReady(T, D), 0, Clamp(c))
  BY DEF CallStarts
<1>2. state' = [t \in Task |-> IF t \in S THEN "running" ELSE "waiting"]
  BY DEF CallStarts, Launch
<1>3. \A t \in InitiallyReady(T, D) : t \in T /\ D[t] = {}
  BY InitiallyReadyMeaning
<1>4. S \in SUBSET Task
  BY <1>3
<1>5. GraphTypeOK'
  <2>1. ret' \in [kind : RetKind, tasks : SUBSET Task]
    BY <1>1 DEF RetKind, NoRet
  <2>2. state' \in [Task -> TaskState]
    BY <1>2 DEF TaskState
  <2>3. indegree' \in [Task -> Nat]
    BY <1>1, TaskSets DEF InitialIndegree
  <2>4. limit' \in Nat \ {0}
    BY <1>1, ClampPositive
  <2>5. stopLaunch' \in BOOLEAN /\ ctxErr' \in BOOLEAN
    BY <1>1 DEF GraphInv, GraphTypeOK
  <2>6. ready' \in SUBSET Task
    BY <1>1, <1>3
  <2> QED BY <1>1, <2>1, <2>2, <2>3, <2>4, <2>5, <2>6 DEF GraphTypeOK
<1>6. InFlight' = S /\ Completed' = {} /\ Ok' = {}
  BY <1>2, <1>4 DEF InFlight, Completed, Ok, InFlightStates, DoneStates
<1>7. Counts'
  <2> SUFFICES ASSUME NEW t \in T PROVE indegree'[t] = Cardinality(D[t] \ {})
    BY <1>1, <1>6 DEF Counts
  <2>1. D[t] \ {} = D[t]
    OBVIOUS
  <2> QED BY <1>1, <2>1 DEF InitialIndegree
<1>8. ReadyIsReady'
  BY <1>1, <1>2, <1>3 DEF ReadyIsReady
<1>9. DependenciesFirst'
  BY <1>1, <1>3, <1>6 DEF DependenciesFirst
<1>10. WithinLimit'
  BY <1>1, <1>4, <1>6, TaskSets DEF WithinLimit, Fills
<1>11. FailureStops' /\ IdleIsBlank' /\ StartedAreTasks' /\ OverIsOver'
  BY <1>1, <1>2, <1>3 DEF FailureStops, IdleIsBlank, StartedAreTasks, OverIsOver
<1> QED BY <1>5, <1>7, <1>8, <1>9, <1>10, <1>11 DEF GraphInv

\* A task that returns stays in flight until its result is received.
LEMMA TaskReturnsInv ==
  ASSUME GraphInv, NEW t \in Task, NEW err \in BOOLEAN, TaskReturns(t, err)
  PROVE  GraphInv'
<1>1. /\ UNCHANGED <<phase, tasks, deps, limit, indegree, ready, firstErr, stopLaunch,
                     ctxErr, ret>>
      /\ state' = [state EXCEPT ![t] = IF err THEN "sentErr" ELSE "sentOk"]
      /\ state[t] = "running"
  BY DEF TaskReturns
<1>2. state \in [Task -> TaskState]
  BY DEF GraphInv, GraphTypeOK
<1>3. state' \in [Task -> TaskState]
  BY <1>1, <1>2 DEF TaskState
<1>4. InFlight' = InFlight /\ Completed' = Completed /\ Ok' = Ok
  BY <1>1, <1>2 DEF InFlight, Completed, Ok, InFlightStates, DoneStates
<1>5. \A u \in Task : state[u] \in {"waiting", "ok", "failed"} => state'[u] = state[u]
  BY <1>1, <1>2
<1>6. \A u \in Task : state'[u] = "failed" => state[u] = "failed"
  BY <1>1, <1>2
<1>7. GraphTypeOK'
  BY <1>1, <1>3 DEF GraphInv, GraphTypeOK
<1>8. Counts' /\ WithinLimit'
  BY <1>1, <1>4 DEF GraphInv, Counts, WithinLimit
<1>9. ReadyIsReady'
  BY <1>1, <1>4, <1>5 DEF GraphInv, GraphTypeOK, ReadyIsReady
<1>10. DependenciesFirst'
  BY <1>1, <1>4, <1>5 DEF GraphInv, GraphTypeOK, DependenciesFirst, InFlight, Completed
<1>11. FailureStops' /\ IdleIsBlank'
  BY <1>1, <1>6 DEF GraphInv, FailureStops, IdleIsBlank
<1>12. StartedAreTasks' /\ OverIsOver'
  BY <1>1, <1>2, <1>4 DEF GraphInv, StartedAreTasks, OverIsOver
<1> QED BY <1>7, <1>8, <1>9, <1>10, <1>11, <1>12 DEF GraphInv

\* Receiving a result without launching: one task less in flight.
LEMMA ReceiveAndStopInv ==
  ASSUME GraphInv, NEW t \in Task, ReceiveAndStop(t)
  PROVE  GraphInv'
<1>1. /\ UNCHANGED <<phase, tasks, deps, limit, indegree, ready, ctxErr, ret>>
      /\ state' = [state EXCEPT ![t] = IF state[t] = "sentErr" THEN "failed" ELSE "ok"]
      /\ firstErr' = IF state[t] = "sentErr" /\ firstErr = {} THEN {t} ELSE firstErr
      /\ stopLaunch' = TRUE
      /\ phase = "loop"
      /\ state[t] \in {"sentOk", "sentErr"}
  BY DEF ReceiveAndStop, Received
<1>2. state \in [Task -> TaskState]
  BY DEF GraphInv, GraphTypeOK
<1>3. state' \in [Task -> TaskState]
  BY <1>1, <1>2 DEF TaskState
<1>4. /\ InFlight' = InFlight \ {t} /\ t \in InFlight
      /\ Completed' = Completed \cup {t}
      /\ Ok \subseteq Ok'
  BY <1>1, <1>2 DEF InFlight, Completed, Ok, InFlightStates, DoneStates
<1>5. \A u \in Task : state[u] \in {"waiting", "ok", "failed"} => state'[u] = state[u]
  BY <1>1, <1>2
<1>6. GraphTypeOK'
  <2>1. firstErr' \in SUBSET Task
    BY <1>1 DEF GraphInv, GraphTypeOK
  <2>2. stopLaunch' \in BOOLEAN
    BY <1>1
  <2> QED BY <1>1, <1>3, <2>1, <2>2 DEF GraphInv, GraphTypeOK
<1>7. Counts'
  BY <1>1 DEF Counts
<1>8. ReadyIsReady'
  BY <1>1, <1>4, <1>5 DEF GraphInv, GraphTypeOK, ReadyIsReady
<1>9. DependenciesFirst'
  <2> SUFFICES ASSUME NEW u \in InFlight \cup Completed, NEW d \in deps[u]
               PROVE  state'[d] = "ok"
    BY <1>1, <1>4 DEF DependenciesFirst
  <2>1. u \in Task /\ d \in Task
    BY DEF InFlight, Completed, GraphInv, GraphTypeOK
  <2>2. state[d] = "ok"
    BY DEF GraphInv, DependenciesFirst
  <2> QED BY <1>5, <2>1, <2>2
<1>10. WithinLimit'
  <2>1. InFlight \in SUBSET Task
    BY DEF InFlight
  <2>2. Cardinality(InFlight') \in Nat /\ Cardinality(InFlight') <= Cardinality(InFlight)
    BY <1>4, <2>1, TaskSets, FS_Subset
  <2> QED BY <1>1, <2>1, <2>2, TaskSets DEF WithinLimit, GraphInv, GraphTypeOK
<1>11. FailureStops' /\ IdleIsBlank' /\ OverIsOver'
  BY <1>1 DEF FailureStops, IdleIsBlank, OverIsOver
<1>12. StartedAreTasks'
  BY <1>1, <1>2 DEF GraphInv, StartedAreTasks
<1> QED BY <1>6, <1>7, <1>8, <1>9, <1>10, <1>11, <1>12 DEF GraphInv

\* Receiving a success and launching: the counters of the dependents keep
\* their meaning, so what becomes ready has everything it depends on, and no
\* task is launched twice.
LEMMA ReceiveAndLaunchInv ==
  ASSUME GraphInv, NEW t \in Task, NEW S, ReceiveAndLaunch(t, S)
  PROVE  /\ GraphInv'
         /\ t \in InFlight /\ InFlight' = (InFlight \ {t}) \cup S /\ Ok' = Ok \cup {t}
         /\ S \subseteq ready \cup NewlyReady(t)
         /\ \A u \in ready \cup NewlyReady(t) :
              u \in tasks /\ state[u] = "waiting" /\ deps[u] \subseteq Ok \cup {t}
         /\ NewlyReady(t) = {u \in tasks : t \in deps[u] /\ deps[u] \subseteq Ok \cup {t}}
         /\ \A u \in Task : state'[u] = IF u \in S THEN "running"
                                        ELSE IF u = t THEN "ok" ELSE state[u]
<1> DEFINE r == ready \cup NewlyReady(t)
<1>1. /\ UNCHANGED <<phase, tasks, deps, limit, firstErr, stopLaunch, ctxErr, ret>>
      /\ phase = "loop" /\ state[t] = "sentOk" /\ stopLaunch = FALSE
      /\ Fills(S, r, Cardinality(InFlight \ {t}), limit)
      /\ ready' = r \ S
      /\ indegree' = Decremented(t)
      /\ state' = Launch(Received(t), S)
  BY DEF ReceiveAndLaunch, GraphInv, GraphTypeOK
<1>2. /\ state \in [Task -> TaskState] /\ deps \in [Task -> SUBSET Task]
      /\ tasks \in SUBSET Task /\ indegree \in [Task -> Nat] /\ ready \in SUBSET Task
      /\ limit \in Nat
  BY DEF GraphInv, GraphTypeOK
<1>3. S \subseteq r /\ r \subseteq Task
  BY <1>1, <1>2 DEF Fills, NewlyReady
<1>4. \A u \in Task : state'[u] = IF u \in S THEN "running"
                                 ELSE IF u = t THEN "ok" ELSE state[u]
  BY <1>1, <1>2 DEF Launch, Received
<1>5. t \in InFlight
  BY <1>1 DEF InFlight, InFlightStates
<1>6. \A u \in tasks : /\ indegree[u] = Cardinality(deps[u] \ Ok)
                       /\ t \in deps[u] => t \in deps[u] \ Ok
  BY <1>1 DEF GraphInv, Counts, Ok
<1>7. \A u \in tasks : /\ indegree'[u] = Cardinality(deps[u] \ (Ok \cup {t}))
                       /\ indegree'[u] \in Nat
  <2> SUFFICES ASSUME NEW u \in tasks
               PROVE  /\ Decremented(t)[u] = Cardinality(deps[u] \ (Ok \cup {t}))
                      /\ Decremented(t)[u] \in Nat
    BY <1>1
  <2>1. u \in Task /\ deps[u] \ Ok \in SUBSET Task
    BY <1>2
  <2>2. deps[u] \ (Ok \cup {t}) = (deps[u] \ Ok) \ {t}
    OBVIOUS
  <2>3. CASE t \in deps[u]
    <3>1. Decremented(t)[u] = indegree[u] - 1
      BY <2>1, <2>3 DEF Decremented
    <3>2. Cardinality((deps[u] \ Ok) \ {t}) = Cardinality(deps[u] \ Ok) - 1
          /\ Cardinality(deps[u] \ Ok) - 1 \in Nat
      BY <1>6, <2>1, <2>3, CountingOff
    <3> QED BY <1>6, <2>2, <3>1, <3>2
  <2>4. CASE t \notin deps[u]
    <3>1. Decremented(t)[u] = indegree[u]
      BY <2>1, <2>4 DEF Decremented
    <3>2. (deps[u] \ Ok) \ {t} = deps[u] \ Ok
      BY <2>4
    <3> QED BY <1>2, <1>6, <2>1, <2>2, <3>1, <3>2
  <2> QED BY <2>3, <2>4
<1>8. \A u \in r : /\ u \in tasks /\ state[u] = "waiting"
                   /\ deps[u] \subseteq Ok \cup {t}
  <2>1. \A u \in ready : u \in tasks /\ state[u] = "waiting" /\ deps[u] \subseteq Ok
    BY <1>1 DEF GraphInv, ReadyIsReady
  <2>2. ASSUME NEW u \in NewlyReady(t)
        PROVE  u \in tasks /\ state[u] = "waiting" /\ deps[u] \subseteq Ok \cup {t}
    <3>1. u \in tasks /\ u \in Task /\ t \in deps[u] /\ indegree'[u] = 0
      BY <1>1, <1>2, <2>2 DEF NewlyReady
    <3>2. deps[u] \ (Ok \cup {t}) \in SUBSET Task
      BY <1>2, <3>1
    <3>3. deps[u] \ (Ok \cup {t}) = {}
      BY <1>7, <3>1, <3>2, NoneLeft
    <3>4. u \notin InFlight \cup Completed
      BY <1>1, <3>1 DEF GraphInv, DependenciesFirst
    <3>5. state[u] = "waiting"
      BY <1>2, <3>1, <3>4 DEF InFlight, Completed, InFlightStates, DoneStates, TaskState
    <3> QED BY <3>1, <3>3, <3>5
  <2> QED BY <2>1, <2>2
<1>9. t \notin S
  BY <1>1, <1>3, <1>8
<1>10. /\ InFlight' = (InFlight \ {t}) \cup S
       /\ Completed' = Completed \cup {t}
       /\ Ok' = Ok \cup {t}
  BY <1>2, <1>3, <1>4, <1>8, <1>9
     DEF InFlight, Completed, Ok, InFlightStates, DoneStates, TaskState
<1>11. GraphTypeOK'
  <2>1. state' \in [Task -> TaskState]
    <3>1. state' = [u \in Task |-> IF u \in S THEN "running" ELSE Received(t)[u]]
      BY <1>1 DEF Launch
    <3>2. \A u \in Task : state'[u] \in TaskState
      BY <1>2, <1>4 DEF TaskState
    <3> QED BY <3>1, <3>2
  <2>2. indegree' \in [Task -> Nat]
    <3>1. \A u \in Task \ tasks : Decremented(t)[u] = indegree[u]
      BY DEF Decremented
    <3>2. \A u \in Task : Decremented(t)[u] \in Nat
      BY <1>1, <1>2, <1>7, <3>1
    <3> QED BY <1>1, <3>2 DEF Decremented
  <2>3. ready' \in SUBSET Task
    BY <1>1, <1>3
  <2> QED BY <1>1, <2>1, <2>2, <2>3 DEF GraphInv, GraphTypeOK
<1>12. Counts'
  BY <1>1, <1>7, <1>10 DEF Counts
<1>13. ReadyIsReady'
  <2> SUFFICES ASSUME NEW u \in r \ S
               PROVE  u \in tasks /\ state'[u] = "waiting" /\ deps[u] \subseteq Ok'
    BY <1>1 DEF ReadyIsReady
  <2>1. u \in tasks /\ u \in Task /\ state[u] = "waiting" /\ deps[u] \subseteq Ok'
    BY <1>2, <1>8, <1>10
  <2> QED BY <1>1, <1>4, <2>1
<1>14. DependenciesFirst'
  <2> SUFFICES ASSUME NEW u \in InFlight \cup Completed \cup S, NEW d \in deps[u]
               PROVE  d \in Ok'
    BY <1>1, <1>5, <1>10 DEF DependenciesFirst, Ok
  <2>1. CASE u \in InFlight \cup Completed
    <3>1. state[d] = "ok" /\ u \in Task
      BY <2>1 DEF GraphInv, DependenciesFirst, InFlight, Completed
    <3> QED BY <1>2, <1>10, <3>1 DEF Ok
  <2>2. CASE u \in S
    BY <1>3, <1>8, <1>10, <2>2
  <2> QED BY <2>1, <2>2
<1>15. WithinLimit'
  <2> DEFINE F == InFlight \ {t}
  <2>1. F \in SUBSET Task /\ S \in SUBSET Task /\ F \cap S \in SUBSET Task
    BY <1>3 DEF InFlight
  <2>2. /\ IsFiniteSet(F) /\ IsFiniteSet(S)
        /\ Cardinality(F) \in Nat /\ Cardinality(S) \in Nat
        /\ Cardinality(F \cap S) \in Nat
    BY <2>1, TaskSets
  <2>3. Cardinality(F \cup S) = Cardinality(F) + Cardinality(S) - Cardinality(F \cap S)
    BY <2>2, FS_Union
  <2>4. Cardinality(F) + Cardinality(S) <= limit
    BY <1>1 DEF Fills
  <2>5. Cardinality(F \cup S) <= limit
    BY <1>2, <2>2, <2>3, <2>4
  <2> QED BY <1>1, <1>10, <2>5 DEF WithinLimit
<1>16. FailureStops' /\ IdleIsBlank' /\ OverIsOver'
  <2>1. \A u \in Task : state[u] # "failed"
    BY <1>1 DEF GraphInv, FailureStops
  <2> QED BY <1>1, <1>4, <2>1 DEF FailureStops, IdleIsBlank, OverIsOver
<1>17. StartedAreTasks'
  BY <1>1, <1>2, <1>3, <1>4, <1>8 DEF GraphInv, StartedAreTasks
<1>18. NewlyReady(t) = {u \in tasks : t \in deps[u] /\ deps[u] \subseteq Ok \cup {t}}
  <2> SUFFICES ASSUME NEW u \in tasks
               PROVE  indegree'[u] = 0 <=> deps[u] \subseteq Ok \cup {t}
    BY <1>1, <1>2 DEF NewlyReady
  <2>1. deps[u] \ (Ok \cup {t}) \in SUBSET Task
    BY <1>2
  <2> QED BY <1>7, <2>1, NoneLeft
<1>19. GraphInv'
  BY <1>11, <1>12, <1>13, <1>14, <1>15, <1>16, <1>17 DEF GraphInv
<1> QED BY <1>3, <1>4, <1>5, <1>8, <1>10, <1>18, <1>19

\* The return of the call changes no task.
LEMMA ReturnInv ==
  ASSUME GraphInv, Return
  PROVE  GraphInv'
<1>1. /\ UNCHANGED <<tasks, deps, limit, indegree, ready, state, firstErr,
                     stopLaunch, ctxErr>>
      /\ phase' = "returned" /\ ret' = Outcome
  BY DEF Return
<1>2. ret' \in [kind : RetKind, tasks : SUBSET Task]
  <2>1. firstErr \in SUBSET Task /\ StuckTasks \in SUBSET Task
    BY DEF GraphInv, GraphTypeOK, StuckTasks
  <2> QED BY <1>1, <2>1 DEF Outcome, RetKind
<1>3. GraphTypeOK'
  BY <1>1, <1>2 DEF GraphInv, GraphTypeOK
<1>4. InFlight' = InFlight /\ Completed' = Completed
  BY <1>1 DEF InFlight, Completed
<1>5. Counts' /\ ReadyIsReady' /\ IdleIsBlank'
  BY <1>1 DEF Counts, ReadyIsReady, IdleIsBlank
<1>6. DependenciesFirst' /\ WithinLimit' /\ FailureStops'
  BY <1>1, <1>4 DEF GraphInv, DependenciesFirst, WithinLimit, FailureStops
<1>7. StartedAreTasks' /\ OverIsOver'
  BY <1>1, <1>4 DEF GraphInv, StartedAreTasks, OverIsOver, Return
<1> QED BY <1>3, <1>5, <1>6, <1>7 DEF GraphInv

\* After the call its locals are blank again.
LEMMA DiscardInv ==
  ASSUME Discard, ctxErr' \in BOOLEAN
  PROVE  GraphInv'
<1>1. ret' \in [kind : RetKind, tasks : SUBSET Task]
  BY DEF Discard, NoRet, RetKind
<1>2. /\ state' \in [Task -> TaskState] /\ indegree' \in [Task -> Nat]
      /\ deps' \in [Task -> SUBSET Task]
  BY DEF Discard, TaskState, NoDeps
<1>3. stopLaunch' \in BOOLEAN
  BY DEF Discard
<1>4. /\ phase' = "idle" /\ tasks' = {} /\ limit' = 1 /\ ready' = {} /\ firstErr' = {}
      /\ state' = [t \in Task |-> "waiting"]
  BY DEF Discard
<1>5. GraphTypeOK'
  BY <1>1, <1>2, <1>3, <1>4 DEF GraphTypeOK
<1> QED BY <1>4, <1>5, BlankStep

\* Nothing in the invariant depends on the context.
LEMMA ContextInv ==
  ASSUME GraphInv, UNCHANGED graphVars, ctxErr' \in BOOLEAN
  PROVE  GraphInv'
<1>1. UNCHANGED <<phase, tasks, deps, limit, indegree, ready, state, firstErr,
                  stopLaunch, ret>>
  BY DEF graphVars
<1>2. InFlight' = InFlight /\ Completed' = Completed /\ Ok' = Ok
  BY <1>1 DEF InFlight, Completed, Ok
<1>3. GraphTypeOK'
  BY <1>1 DEF GraphInv, GraphTypeOK
<1>4. Counts' /\ ReadyIsReady' /\ IdleIsBlank'
  BY <1>1, <1>2 DEF GraphInv, Counts, ReadyIsReady, IdleIsBlank
<1>5. DependenciesFirst' /\ WithinLimit' /\ FailureStops'
  BY <1>1, <1>2 DEF GraphInv, DependenciesFirst, WithinLimit, FailureStops
<1>6. StartedAreTasks' /\ OverIsOver'
  BY <1>1, <1>2 DEF GraphInv, StartedAreTasks, OverIsOver
<1> QED BY <1>3, <1>4, <1>5, <1>6 DEF GraphInv

\* Every step preserves the invariant.
LEMMA NextInv == GraphInv /\ [GraphNext]_<<graphVars, ctxErr>> => GraphInv'
<1> SUFFICES ASSUME GraphInv, [GraphNext]_<<graphVars, ctxErr>> PROVE GraphInv'
  OBVIOUS
<1>0. ctxErr \in BOOLEAN
  BY DEF GraphInv, GraphTypeOK
<1>1. CASE Call
  <2> PICK T \in SUBSET Task, c \in Concurrency : \E D \in DepsOver(T) :
        \/ \E dup \in BOOLEAN : CallRejected(T, D, c, dup)
        \/ CallCanceled(T, D, c)
        \/ \E S \in SUBSET InitiallyReady(T, D) : CallStarts(T, D, c, S)
    BY <1>1 DEF Call
  <2> PICK D \in [Task -> SUBSET Task] :
        \/ \E dup \in BOOLEAN : CallRejected(T, D, c, dup)
        \/ CallCanceled(T, D, c)
        \/ \E S \in SUBSET InitiallyReady(T, D) : CallStarts(T, D, c, S)
    BY DEF DepsOver
  <2> QED BY CallRejectedInv, CallCanceledInv, CallStartsInv
<1>2. ASSUME NEW t \in Task, NEW err \in BOOLEAN, TaskReturns(t, err) PROVE GraphInv'
  BY <1>2, TaskReturnsInv
<1>3. ASSUME NEW t \in Task, Receive(t) PROVE GraphInv'
  BY <1>3, ReceiveAndStopInv, ReceiveAndLaunchInv DEF Receive
<1>4. CASE Return
  BY <1>4, ReturnInv
<1>5. CASE CancelCtx
  BY <1>5, ContextInv DEF CancelCtx
<1>6. CASE Discard /\ ctxErr' = FALSE
  BY <1>6, DiscardInv
<1>7. CASE UNCHANGED <<graphVars, ctxErr>>
  BY <1>0, <1>7, ContextInv
<1> QED BY <1>1, <1>2, <1>3, <1>4, <1>5, <1>6, <1>7 DEF GraphNext

-----------------------------------------------------------------------------
(* No task that could run is overlooked.                                   *)

\* While launching goes on, every task that could be started is in the ready
\* list, and it is empty when nothing is in flight.
NothingMissed ==
  phase = "loop" /\ ~ stopLaunch =>
    /\ \A t \in tasks : state[t] = "waiting" /\ deps[t] \subseteq Ok => t \in ready
    /\ InFlight = {} => ready = {}

\* The graph is closed.
KnownDeps == phase = "loop" => \A t \in tasks : deps[t] \subseteq tasks

\* Launching stops for a reason, and the recorded error is one.
StopsForReason == stopLaunch => ctxErr \/ firstErr # {}

FirstErrFailed ==
  /\ \A t \in firstErr : state[t] = "failed"
  /\ (\E t \in Task : state[t] = "failed") => firstErr # {}

ScheduleInv == NothingMissed /\ KnownDeps /\ StopsForReason /\ FirstErrFailed

\* Nothing to say about a state without an open call.
LEMMA BlankSchedule ==
  ASSUME phase' # "loop", stopLaunch' = FALSE, firstErr' = {},
         state' = [t \in Task |-> "waiting"]
  PROVE  ScheduleInv'
BY DEF ScheduleInv, NothingMissed, KnownDeps, StopsForReason, FirstErrFailed

LEMMA CallStartsSchedule ==
  ASSUME NEW T \in SUBSET Task, NEW D \in [Task -> SUBSET Task],
         NEW c \in Concurrency, NEW S \in SUBSET InitiallyReady(T, D),
         CallStarts(T, D, c, S)
  PROVE  ScheduleInv'
<1>1. /\ phase' = "loop" /\ tasks' = T /\ deps' = D
      /\ ready' = InitiallyReady(T, D) \ S
      /\ firstErr' = {} /\ stopLaunch' = FALSE
      /\ Fills(S, InitiallyReady(T, D), 0, Clamp(c)) /\ ~ UnknownDep(T, D)
  BY DEF CallStarts
<1>2. state' = [t \in Task |-> IF t \in S THEN "running" ELSE "waiting"]
  BY DEF CallStarts, Launch
<1>3. S \subseteq Task /\ Ok' = {} /\ InFlight' = S
  <2>1. S \subseteq Task
    BY DEF InitiallyReady
  <2> QED BY <1>2, <2>1 DEF Ok, InFlight, InFlightStates
<1>4. ASSUME NEW t \in T, state'[t] = "waiting", D[t] \subseteq Ok' PROVE t \in ready'
  <2>1. D[t] = {} /\ t \in Task /\ t \notin S
    BY <1>2, <1>3, <1>4
  <2>2. t \in InitiallyReady(T, D)
    BY <2>1, FS_EmptySet DEF InitiallyReady, InitialIndegree
  <2> QED BY <1>1, <2>1, <2>2
<1>5. ASSUME InFlight' = {} PROVE ready' = {}
  <2>1. S = {} /\ Cardinality(S) = 0
    BY <1>3, <1>5, FS_EmptySet
  <2>2. S = InitiallyReady(T, D)
    BY <1>1, <2>1, ClampPositive DEF Fills
  <2> QED BY <1>1, <2>2
<1>6. NothingMissed' /\ KnownDeps'
  BY <1>1, <1>4, <1>5 DEF NothingMissed, KnownDeps, UnknownDep
<1>7. StopsForReason' /\ FirstErrFailed'
  BY <1>1, <1>2 DEF StopsForReason, FirstErrFailed
<1> QED BY <1>6, <1>7 DEF ScheduleInv

LEMMA TaskReturnsSchedule ==
  ASSUME GraphInv, ScheduleInv, NEW t \in Task, NEW err \in BOOLEAN, TaskReturns(t, err)
  PROVE  ScheduleInv'
<1>1. /\ UNCHANGED <<phase, tasks, deps, limit, ready, firstErr, stopLaunch, ctxErr>>
      /\ state' = [state EXCEPT ![t] = IF err THEN "sentErr" ELSE "sentOk"]
      /\ state[t] = "running" /\ state \in [Task -> TaskState]
  BY DEF TaskReturns, GraphInv, GraphTypeOK
<1>2. InFlight' = InFlight /\ Ok' = Ok
  BY <1>1 DEF InFlight, Ok, InFlightStates
<1>3. \A u \in Task : /\ state'[u] = "waiting" <=> state[u] = "waiting"
                      /\ state'[u] = "failed" <=> state[u] = "failed"
  BY <1>1
<1>4. tasks \subseteq Task /\ firstErr \subseteq Task
  BY DEF GraphInv, GraphTypeOK
<1>5. NothingMissed'
  BY <1>1, <1>2, <1>3, <1>4 DEF ScheduleInv, NothingMissed
<1> QED BY <1>1, <1>3, <1>4, <1>5 DEF ScheduleInv, KnownDeps, StopsForReason, FirstErrFailed

LEMMA ReceiveAndStopSchedule ==
  ASSUME GraphInv, ScheduleInv, NEW t \in Task, ReceiveAndStop(t)
  PROVE  ScheduleInv'
<1>1. /\ UNCHANGED <<phase, tasks, deps, ctxErr>>
      /\ state' = [state EXCEPT ![t] = IF state[t] = "sentErr" THEN "failed" ELSE "ok"]
      /\ firstErr' = IF state[t] = "sentErr" /\ firstErr = {} THEN {t} ELSE firstErr
      /\ stopLaunch' = TRUE
      /\ state[t] \in {"sentOk", "sentErr"}
      /\ state[t] = "sentErr" \/ stopLaunch \/ ctxErr
      /\ state \in [Task -> TaskState] /\ firstErr \subseteq Task
  BY DEF ReceiveAndStop, Received, GraphInv, GraphTypeOK
<1>2. FirstErrFailed'
  BY <1>1 DEF ScheduleInv, FirstErrFailed
<1>3. StopsForReason'
  BY <1>1 DEF ScheduleInv, StopsForReason
<1> QED BY <1>1, <1>2, <1>3 DEF ScheduleInv, NothingMissed, KnownDeps

LEMMA ReceiveAndLaunchSchedule ==
  ASSUME GraphInv, ScheduleInv, NEW t \in Task, NEW S, ReceiveAndLaunch(t, S)
  PROVE  ScheduleInv'
<1> DEFINE r == ready \cup NewlyReady(t)
<1>1. /\ UNCHANGED <<phase, tasks, deps, limit, firstErr, stopLaunch, ctxErr>>
      /\ phase = "loop" /\ ~ stopLaunch /\ state[t] = "sentOk"
      /\ Fills(S, r, Cardinality(InFlight \ {t}), limit)
      /\ ready' = r \ S
  BY DEF ReceiveAndLaunch
<1>2. /\ InFlight' = (InFlight \ {t}) \cup S /\ Ok' = Ok \cup {t}
      /\ S \subseteq r
      /\ \A u \in r : u \in tasks /\ state[u] = "waiting"
      /\ NewlyReady(t) = {u \in tasks : t \in deps[u] /\ deps[u] \subseteq Ok \cup {t}}
      /\ \A u \in Task : state'[u] = IF u \in S THEN "running"
                                     ELSE IF u = t THEN "ok" ELSE state[u]
  BY ReceiveAndLaunchInv
<1>3. tasks \subseteq Task /\ limit \in Nat \ {0} /\ firstErr \subseteq Task
  BY DEF GraphInv, GraphTypeOK
<1>4. ASSUME NEW u \in tasks, state'[u] = "waiting", deps[u] \subseteq Ok' PROVE u \in r \ S
  <2>1. u \notin S /\ state[u] = "waiting"
    BY <1>2, <1>3, <1>4
  <2>2. CASE t \in deps[u]
    BY <1>2, <1>4, <2>1, <2>2
  <2>3. CASE t \notin deps[u]
    BY <1>1, <1>2, <1>4, <2>1, <2>3 DEF ScheduleInv, NothingMissed
  <2> QED BY <2>2, <2>3
<1>5. ASSUME InFlight' = {} PROVE r \ S = {}
  <2>1. S = {} /\ Cardinality(S) = 0 /\ Cardinality(InFlight \ {t}) = 0
    BY <1>2, <1>5, FS_EmptySet
  <2> QED BY <1>1, <1>3, <2>1 DEF Fills
<1>6. NothingMissed'
  BY <1>1, <1>4, <1>5 DEF NothingMissed
<1>7. FirstErrFailed'
  <2>1. \A u \in Task : state'[u] = "failed" <=> state[u] = "failed"
    BY <1>1, <1>2
  <2> QED BY <1>1, <1>3, <2>1 DEF ScheduleInv, FirstErrFailed
<1> QED BY <1>1, <1>6, <1>7 DEF ScheduleInv, KnownDeps, StopsForReason

LEMMA ReturnSchedule ==
  ASSUME ScheduleInv, Return
  PROVE  ScheduleInv'
BY DEF ScheduleInv, Return, NothingMissed, KnownDeps, StopsForReason, FirstErrFailed

LEMMA NextSchedule == GraphInv /\ ScheduleInv /\ [GraphNext]_<<graphVars, ctxErr>> => ScheduleInv'
<1> SUFFICES ASSUME GraphInv, ScheduleInv, [GraphNext]_<<graphVars, ctxErr>> PROVE ScheduleInv'
  OBVIOUS
<1>1. CASE Call
  <2> PICK T \in SUBSET Task, c \in Concurrency : \E D \in DepsOver(T) :
        \/ \E dup \in BOOLEAN : CallRejected(T, D, c, dup)
        \/ CallCanceled(T, D, c)
        \/ \E S \in SUBSET InitiallyReady(T, D) : CallStarts(T, D, c, S)
    BY <1>1 DEF Call
  <2> PICK D \in [Task -> SUBSET Task] :
        \/ \E dup \in BOOLEAN : CallRejected(T, D, c, dup)
        \/ CallCanceled(T, D, c)
        \/ \E S \in SUBSET InitiallyReady(T, D) : CallStarts(T, D, c, S)
    BY DEF DepsOver
  <2>1. ASSUME NEW dup \in BOOLEAN, CallRejected(T, D, c, dup) PROVE ScheduleInv'
    BY <2>1, BlankSchedule DEF CallRejected
  <2>2. CASE CallCanceled(T, D, c)
    BY <2>2, BlankSchedule DEF CallCanceled
  <2> QED BY <2>1, <2>2, CallStartsSchedule
<1>2. ASSUME NEW t \in Task, NEW err \in BOOLEAN, TaskReturns(t, err) PROVE ScheduleInv'
  BY <1>2, TaskReturnsSchedule
<1>3. ASSUME NEW t \in Task, Receive(t) PROVE ScheduleInv'
  BY <1>3, ReceiveAndStopSchedule, ReceiveAndLaunchSchedule DEF Receive
<1>4. CASE Return
  BY <1>4, ReturnSchedule
<1>5. CASE CancelCtx \/ UNCHANGED <<graphVars, ctxErr>>
  BY <1>5 DEF CancelCtx, graphVars, ScheduleInv, NothingMissed, KnownDeps, StopsForReason,
              FirstErrFailed, Ok, InFlight
<1>6. CASE Discard /\ ctxErr' = FALSE
  BY <1>6, BlankSchedule DEF Discard
<1> QED BY <1>1, <1>2, <1>3, <1>4, <1>5, <1>6 DEF GraphNext

-----------------------------------------------------------------------------
(* Theorems.                                                               *)

\* The whole invariant holds for the engine with any caller.
THEOREM RunGraphInvariant == GraphSpec => []GraphInv
<1> QED BY InitInv, NextInv, PTL DEF GraphSpec

\* The locals of RunGraph keep their types; in particular no counter of
\* unmet dependencies is ever decremented below zero.
THEOREM RunGraphTypes == GraphSpec => []GraphTypeOK
<1>1. GraphInv => GraphTypeOK
  BY DEF GraphInv
<1> QED BY <1>1, RunGraphInvariant, PTL

\* RunGraph starts a task only after all of its dependencies have succeeded.
THEOREM RunGraphOrder == GraphSpec => []DependenciesFirst
<1>1. GraphInv => DependenciesFirst
  BY DEF GraphInv
<1> QED BY <1>1, RunGraphInvariant, PTL

\* RunGraph never has more tasks under way than its concurrency allows.
THEOREM RunGraphLimit == GraphSpec => []WithinLimit
<1>1. GraphInv => WithinLimit
  BY DEF GraphInv
<1> QED BY <1>1, RunGraphInvariant, PTL

\* RunGraph starts nothing once it has received an error.
THEOREM RunGraphStops == GraphSpec => NoLaunchAfterFailure
<1>1. GraphInv /\ [GraphNext]_<<graphVars, ctxErr>>
        => [(\E t \in Task : state[t] = "failed") => InFlight' \subseteq InFlight]_<<graphVars, ctxErr>>
  <2> SUFFICES ASSUME GraphInv, GraphNext, NEW f \in Task, state[f] = "failed"
               PROVE  InFlight' \subseteq InFlight
    OBVIOUS
  <2>1. stopLaunch = TRUE /\ phase # "idle" /\ state \in [Task -> TaskState]
    BY DEF GraphInv, FailureStops, IdleIsBlank, GraphTypeOK
  <2>2. ~ Call
    BY <2>1 DEF Call, CallRejected, CallCanceled, CallStarts
  <2>3. ASSUME NEW t \in Task, NEW err \in BOOLEAN, TaskReturns(t, err)
        PROVE  InFlight' \subseteq InFlight
    BY <2>1, <2>3 DEF TaskReturns, InFlight, InFlightStates
  <2>4. ASSUME NEW t \in Task, Receive(t) PROVE InFlight' \subseteq InFlight
    <3>1. ReceiveAndStop(t)
      BY <2>1, <2>4 DEF Receive, ReceiveAndLaunch
    <3>2. state' = [state EXCEPT ![t] = IF state[t] = "sentErr" THEN "failed" ELSE "ok"]
      BY <3>1 DEF ReceiveAndStop, Received
    <3> QED BY <2>1, <3>2 DEF InFlight, InFlightStates
  <2>5. CASE Return
    BY <2>5 DEF Return, InFlight
  <2>6. CASE CancelCtx
    BY <2>6 DEF CancelCtx, graphVars, InFlight
  <2>7. CASE Discard
    BY <2>7 DEF Discard, InFlight, InFlightStates
  <2> QED BY <2>2, <2>3, <2>4, <2>5, <2>6, <2>7 DEF GraphNext
<1> QED BY <1>1, RunGraphInvariant, PTL DEF GraphSpec, NoLaunchAfterFailure

LEMMA InitSchedule == GraphInit => ScheduleInv
BY DEF GraphInit, GraphIdle, ScheduleInv, NothingMissed, KnownDeps, StopsForReason, FirstErrFailed

LEMMA ScheduleHolds == GraphSpec => []ScheduleInv
<1>1. GraphInit => ScheduleInv
  BY InitSchedule
<1>2. GraphInv /\ ScheduleInv /\ [GraphNext]_<<graphVars, ctxErr>> => ScheduleInv'
  BY NextSchedule
<1> QED BY <1>1, <1>2, RunGraphInvariant, PTL DEF GraphSpec

-----------------------------------------------------------------------------
(* Serial calls.                                                           *)

\* A serial call has nothing in flight once it has stopped, and before that the
\* task in flight is lower than every ready one.
SerialInv ==
  limit = 1 /\ phase = "loop" =>
    /\ stopLaunch => InFlight = {}
    /\ \A t \in InFlight, u \in ready : t < u

LEMMA NextSerial ==
  GraphInv /\ SerialInv /\ [GraphNext]_<<graphVars, ctxErr>> => SerialInv'
<1> SUFFICES ASSUME GraphInv, SerialInv, [GraphNext]_<<graphVars, ctxErr>>, limit' = 1, phase' = "loop"
             PROVE  /\ stopLaunch' => InFlight' = {}
                    /\ \A t \in InFlight', u \in ready' : t < u
  BY DEF SerialInv
<1>0. state \in [Task -> TaskState]
  BY DEF GraphInv, GraphTypeOK
<1>1. CASE Call
  <2>0. PICK T \in SUBSET Task, c \in Concurrency, D \in [Task -> SUBSET Task] :
          \E S \in SUBSET InitiallyReady(T, D) :
            LowestFirst(S, InitiallyReady(T, D)) /\ CallStarts(T, D, c, S)
    BY <1>1 DEF Call, CallRejected, CallCanceled, DepsOver
  <2>1. PICK S \in SUBSET InitiallyReady(T, D) :
          LowestFirst(S, InitiallyReady(T, D)) /\ CallStarts(T, D, c, S)
    BY <2>0
  <2>2. /\ stopLaunch' = FALSE /\ ready' = InitiallyReady(T, D) \ S
        /\ state' = [t \in Task |-> IF t \in S THEN "running" ELSE "waiting"]
    BY <2>1 DEF CallStarts, Launch
  <2>3. InFlight' \subseteq S
    BY <2>2 DEF InFlight, InFlightStates
  <2> QED BY <2>1, <2>2, <2>3 DEF LowestFirst
<1>2. ASSUME NEW t \in Task, NEW err \in BOOLEAN, TaskReturns(t, err)
      PROVE  /\ stopLaunch' => InFlight' = {}
             /\ \A v \in InFlight', u \in ready' : v < u
  <2>1. InFlight' = InFlight
    BY <1>0, <1>2 DEF TaskReturns, InFlight, InFlightStates
  <2> QED BY <1>2, <2>1 DEF TaskReturns, SerialInv
\* The task that is received is the only one that is in flight.
<1>3. ASSUME NEW t \in Task, Receive(t)
      PROVE  /\ stopLaunch' => InFlight' = {}
             /\ \A v \in InFlight', u \in ready' : v < u
  <2>1. limit = 1 /\ t \in InFlight
    BY <1>3 DEF Receive, ReceiveAndStop, ReceiveAndLaunch, InFlight, InFlightStates
  <2>2. InFlight \ {t} = {}
    <3>1. InFlight \in SUBSET Task /\ InFlight \ {t} \in SUBSET Task
      BY DEF InFlight
    <3>2. Cardinality(InFlight) <= 1
      BY <2>1 DEF GraphInv, WithinLimit
    <3>3. Cardinality(InFlight \ {t}) = Cardinality(InFlight) - 1
      BY <2>1, <3>1, CountingOff
    <3>4. Cardinality(InFlight \ {t}) = 0
      BY <3>1, <3>2, <3>3, TaskSets
    <3> QED BY <3>1, <3>4, NoneLeft
  <2>3. CASE ReceiveAndStop(t)
    <3>1. InFlight' = {}
      BY <1>0, <2>2, <2>3 DEF ReceiveAndStop, Received, InFlight, InFlightStates
    <3> QED BY <3>1
  <2>4. ASSUME NEW S, LowestFirst(S, ready \cup NewlyReady(t)), ReceiveAndLaunch(t, S)
        PROVE  /\ stopLaunch' => InFlight' = {}
               /\ \A v \in InFlight', u \in ready' : v < u
    <3>0. InFlight' = (InFlight \ {t}) \cup S
      BY <2>4, ReceiveAndLaunchInv
    <3>1. InFlight' = S
      BY <2>2, <3>0
    <3>2. ~ stopLaunch' /\ ready' = (ready \cup NewlyReady(t)) \ S
      BY <2>4 DEF ReceiveAndLaunch
    <3> QED BY <2>4, <3>1, <3>2 DEF LowestFirst
  <2> QED BY <1>3, <2>3, <2>4 DEF Receive
<1>4. CASE Return \/ Discard
  BY <1>4 DEF Return, Discard
<1>5. CASE CancelCtx \/ UNCHANGED <<graphVars, ctxErr>>
  BY <1>5 DEF CancelCtx, graphVars, SerialInv, InFlight
<1> QED BY <1>1, <1>2, <1>3, <1>4, <1>5 DEF GraphNext

\* With concurrency 1 RunGraph works in the order of the task IDs: the sorted
\* ready list never misses a task that could have run.
THEOREM RunGraphSerial == GraphSpec => []SerialRunsLowestReady
<1>1. GraphInit => SerialInv
  BY DEF GraphInit, GraphIdle, SerialInv
<1>2. GraphInv /\ ScheduleInv /\ SerialInv => SerialRunsLowestReady
  <2> SUFFICES ASSUME GraphInv, ScheduleInv, SerialInv, limit = 1,
                      NEW t \in InFlight, NEW u \in tasks,
                      state[u] = "waiting", \A d \in deps[u] : state[d] = "ok"
               PROVE  t < u
    BY DEF SerialRunsLowestReady
  <2>1. phase = "loop" /\ ~ stopLaunch
    BY DEF GraphInv, OverIsOver, SerialInv
  <2>2. deps[u] \subseteq Ok
    BY DEF Ok, GraphInv, GraphTypeOK
  <2> QED BY <2>1, <2>2 DEF ScheduleInv, NothingMissed, SerialInv
<1> QED BY <1>1, <1>2, NextSerial, RunGraphInvariant, ScheduleHolds, PTL DEF GraphSpec

-----------------------------------------------------------------------------
(* What the call returns.                                                  *)

\* Whoever waits for somebody of his own set is never started.
InCircle(S) == \A t \in S : deps[t] \cap S # {}

CyclesWait ==
  phase = "loop" =>
    \A S \in SUBSET tasks : InCircle(S) => \A t \in S : state[t] = "waiting"

LEMMA NextCycles ==
  GraphInv /\ CyclesWait /\ [GraphNext]_<<graphVars, ctxErr>> => CyclesWait'
<1> SUFFICES ASSUME GraphInv, CyclesWait, [GraphNext]_<<graphVars, ctxErr>>, phase' = "loop",
                    NEW C \in SUBSET tasks', InCircle(C)', NEW u \in C
             PROVE  state'[u] = "waiting"
  BY DEF CyclesWait
<1>0. state \in [Task -> TaskState] /\ tasks \subseteq Task
  BY DEF GraphInv, GraphTypeOK
<1>1. CASE Call
  <2>0. PICK T \in SUBSET Task, c \in Concurrency, D \in [Task -> SUBSET Task] :
          \E S \in SUBSET InitiallyReady(T, D) : CallStarts(T, D, c, S)
    BY <1>1 DEF Call, CallRejected, CallCanceled, DepsOver
  <2>1. PICK S \in SUBSET InitiallyReady(T, D) : CallStarts(T, D, c, S)
    BY <2>0
  <2>2. /\ tasks' = T /\ deps' = D
        /\ state' = [t \in Task |-> IF t \in S THEN "running" ELSE "waiting"]
    BY <2>1 DEF CallStarts, Launch
  <2>3. u \in Task /\ D[u] # {}
    BY <2>2 DEF InCircle
  <2>4. u \notin S
    BY <2>1, <2>3, InitiallyReadyMeaning
  <2> QED BY <2>2, <2>3, <2>4
<1>2. ASSUME tasks' = tasks, deps' = deps, phase = "loop"
      PROVE  InCircle(C) /\ C \in SUBSET tasks /\ \A t \in C : t \in Task /\ state[t] = "waiting"
  BY <1>0, <1>2 DEF CyclesWait, InCircle
<1>3. ASSUME NEW t \in Task, NEW err \in BOOLEAN, TaskReturns(t, err)
      PROVE  state'[u] = "waiting"
  BY <1>0, <1>2, <1>3 DEF TaskReturns
<1>4. ASSUME NEW t \in Task, ReceiveAndStop(t)
      PROVE  state'[u] = "waiting"
  BY <1>0, <1>2, <1>4 DEF ReceiveAndStop, Received
<1>5. ASSUME NEW t \in Task, NEW S, ReceiveAndLaunch(t, S)
      PROVE  state'[u] = "waiting"
  <2>1. /\ tasks' = tasks /\ deps' = deps /\ phase = "loop" /\ state[t] = "sentOk"
    BY <1>5 DEF ReceiveAndLaunch
  <2>2. /\ InCircle(C) /\ \A v \in C : v \in Task /\ state[v] = "waiting"
    BY <1>2, <2>1
  <2>3. /\ S \subseteq ready \cup NewlyReady(t)
        /\ \A v \in ready \cup NewlyReady(t) : deps[v] \subseteq Ok \cup {t}
        /\ \A v \in Task : state'[v] = IF v \in S THEN "running"
                                       ELSE IF v = t THEN "ok" ELSE state[v]
    BY <1>5, ReceiveAndLaunchInv
  <2>4. PICK d \in C : d \in deps[u]
    BY <2>2 DEF InCircle
  <2>5. d \notin Ok \cup {t}
    BY <2>1, <2>2 DEF Ok
  <2>6. u \notin S /\ u # t
    BY <2>1, <2>2, <2>3, <2>4, <2>5
  <2> QED BY <2>2, <2>3, <2>6
<1>6. CASE Return \/ Discard
  BY <1>6 DEF Return, Discard
<1>7. CASE CancelCtx \/ UNCHANGED <<graphVars, ctxErr>>
  BY <1>2, <1>7 DEF CancelCtx, graphVars
<1> QED BY <1>1, <1>3, <1>4, <1>5, <1>6, <1>7 DEF GraphNext, Receive

\* When the loop ends without an error and with its context alive, the tasks
\* that are left over are exactly the unschedulable ones.
LEMMA LeftOver ==
  ASSUME GraphInv, ScheduleInv, CyclesWait,
         phase = "loop", InFlight = {}, firstErr = {}, ~ ctxErr
  PROVE  /\ StuckTasks = Unschedulable(tasks, deps)
         /\ \A t \in tasks : IF t \in StuckTasks THEN state[t] = "waiting"
                             ELSE state[t] = "ok"
<1>0. /\ state \in [Task -> TaskState] /\ tasks \subseteq Task /\ deps \in [Task -> SUBSET Task]
  BY DEF GraphInv, GraphTypeOK
<1>1. ~ stopLaunch /\ \A t \in Task : state[t] # "failed"
  BY DEF ScheduleInv, StopsForReason, FirstErrFailed
<1>2. \A t \in Task : state[t] \in {"waiting", "ok"}
  BY <1>0, <1>1 DEF InFlight, InFlightStates, TaskState
<1>3. \A t \in tasks : t \in StuckTasks <=> ~ (deps[t] \subseteq Ok)
  <2> SUFFICES ASSUME NEW t \in tasks PROVE indegree[t] > 0 <=> ~ (deps[t] \subseteq Ok)
    BY DEF StuckTasks
  <2>1. indegree[t] = Cardinality(deps[t] \ Ok)
    BY <1>1 DEF GraphInv, Counts
  <2>2. deps[t] \ Ok \in SUBSET Task
    BY <1>0
  <2> QED BY <2>1, <2>2, NoneLeft, TaskSets
<1>4. \A t \in tasks : state[t] = "waiting" <=> t \in StuckTasks
  <2>1. \A t \in tasks : state[t] = "waiting" => ~ (deps[t] \subseteq Ok)
    BY <1>1 DEF ScheduleInv, NothingMissed
  <2>2. \A t \in tasks : state[t] = "ok" => deps[t] \subseteq Ok
    BY <1>0 DEF GraphInv, DependenciesFirst, Completed, DoneStates, Ok
  <2> QED BY <1>0, <1>2, <1>3, <2>1, <2>2
<1>5. StuckTasks \in SUBSET tasks /\ InCircle(StuckTasks)
  <2>1. StuckTasks \in SUBSET tasks
    BY DEF StuckTasks
  <2> SUFFICES ASSUME NEW t \in StuckTasks PROVE deps[t] \cap StuckTasks # {}
    BY <2>1 DEF InCircle
  <2>2. PICK d \in deps[t] : d \notin Ok
    BY <1>3, <2>1
  <2>3. d \in tasks /\ state[d] = "waiting"
    BY <1>0, <1>2, <2>1, <2>2 DEF ScheduleInv, KnownDeps, Ok
  <2> QED BY <1>4, <2>2, <2>3
<1>6. ASSUME NEW S \in SUBSET tasks, \A t \in S : deps[t] \cap S # {}
      PROVE  S \subseteq StuckTasks
  BY <1>4, <1>6 DEF CyclesWait, InCircle
<1>7. StuckTasks = Unschedulable(tasks, deps)
  BY <1>5, <1>6 DEF Unschedulable, InCircle
<1> QED BY <1>0, <1>2, <1>4, <1>7

\* All tasks are completed as soon as there are as many completed ones.
LEMMA CountedAll ==
  ASSUME GraphInv, ~ (Cardinality(Completed) < Cardinality(tasks))
  PROVE  tasks \subseteq Completed
<1>1. Completed \in SUBSET tasks
  BY DEF GraphInv, StartedAreTasks, Completed, DoneStates
<1>2. IsFiniteSet(tasks) /\ Cardinality(tasks) \in Nat
  BY TaskSets DEF GraphInv, GraphTypeOK
<1>3. /\ IsFiniteSet(Completed) /\ Cardinality(Completed) <= Cardinality(tasks)
      /\ Cardinality(tasks) = Cardinality(Completed) => tasks = Completed
  BY <1>1, <1>2, FS_Subset
<1>4. Cardinality(Completed) \in Nat
  BY <1>3, FS_CardinalityType
<1> QED BY <1>2, <1>3, <1>4

\* While some are left over the counts differ.
LEMMA CountedFewer ==
  ASSUME GraphInv, Cardinality(Completed) < Cardinality(tasks)
  PROVE  \E t \in tasks : t \notin Completed
<1> SUFFICES ASSUME tasks \subseteq Completed PROVE FALSE
  OBVIOUS
<1>1. Completed \subseteq tasks
  BY DEF GraphInv, StartedAreTasks, Completed, DoneStates
<1>2. Completed = tasks /\ Cardinality(tasks) \in Nat
  BY <1>1, TaskSets DEF GraphInv, GraphTypeOK
<1> QED BY <1>2

LEMMA ReturnAccurate ==
  ASSUME GraphInv, ScheduleInv, CyclesWait, Return
  PROVE  ReturnIsAccurate'
<1>1. /\ UNCHANGED <<tasks, deps, state, ctxErr>> /\ phase = "loop" /\ InFlight = {}
      /\ ret' = Outcome
  BY DEF Return
<1>0. state \in [Task -> TaskState] /\ tasks \subseteq Task
  BY DEF GraphInv, GraphTypeOK
<1>2. CASE firstErr # {}
  <2>1. ret'.kind = "task" /\ ret'.tasks = firstErr
    BY <1>1, <1>2 DEF Outcome
  <2> QED BY <1>1, <1>2, <2>1 DEF ReturnIsAccurate, ScheduleInv, FirstErrFailed
<1>3. CASE firstErr = {} /\ ctxErr
  <2>1. ret'.kind = "ctx"
    BY <1>1, <1>3 DEF Outcome
  <2> QED BY <1>1, <1>3, <2>1 DEF ReturnIsAccurate
<1>4. CASE firstErr = {} /\ ~ ctxErr
  <2>1. /\ StuckTasks = Unschedulable(tasks, deps)
        /\ \A t \in tasks : IF t \in StuckTasks THEN state[t] = "waiting" ELSE state[t] = "ok"
    BY <1>1, <1>4, LeftOver
  <2>2. CASE Cardinality(Completed) < Cardinality(tasks)
    <3>1. ret'.kind = "stuck" /\ ret'.tasks = StuckTasks
      BY <1>1, <1>4, <2>2 DEF Outcome
    <3>2. StuckTasks # {}
      BY <1>0, <2>1, <2>2, CountedFewer DEF Completed, DoneStates
    <3> QED BY <1>1, <2>1, <3>1, <3>2 DEF ReturnIsAccurate
  <2>3. CASE ~ (Cardinality(Completed) < Cardinality(tasks))
    <3>1. ret'.kind = "nil"
      BY <1>1, <1>4, <2>3 DEF Outcome
    <3>2. \A t \in tasks : state[t] = "ok"
      BY <2>1, <2>3, CountedAll DEF Completed, DoneStates
    <3> QED BY <1>1, <3>1, <3>2 DEF ReturnIsAccurate
  <2> QED BY <2>2, <2>3
<1> QED BY <1>2, <1>3, <1>4

LEMMA NextAccurate ==
  GraphInv /\ ScheduleInv /\ CyclesWait /\ ReturnIsAccurate /\ [GraphNext]_<<graphVars, ctxErr>>
    => ReturnIsAccurate'
<1> SUFFICES ASSUME GraphInv, ScheduleInv, CyclesWait, ReturnIsAccurate,
                    [GraphNext]_<<graphVars, ctxErr>>, phase' = "returned"
             PROVE  ReturnIsAccurate'
  BY DEF ReturnIsAccurate
<1>1. CASE Call
  <2>1. PICK T \in SUBSET Task, c \in Concurrency, D \in [Task -> SUBSET Task] :
          \/ \E dup \in BOOLEAN : CallRejected(T, D, c, dup)
          \/ CallCanceled(T, D, c)
    BY <1>1 DEF Call, CallStarts, DepsOver
  <2>2. ASSUME NEW dup \in BOOLEAN, CallRejected(T, D, c, dup) PROVE ReturnIsAccurate'
    <3>1. /\ ret'.kind \in {"duplicate", "unknown"} /\ tasks' = T
          /\ \A t \in Task : state'[t] = "waiting"
      BY <2>2 DEF CallRejected
    <3> QED BY <3>1 DEF ReturnIsAccurate
  <2>3. CASE CallCanceled(T, D, c)
    <3>1. ret'.kind = "ctx" /\ ctxErr'
      BY <2>3 DEF CallCanceled
    <3> QED BY <3>1 DEF ReturnIsAccurate
  <2> QED BY <2>1, <2>2, <2>3
<1>2. CASE Return
  BY <1>2, ReturnAccurate
<1>3. ASSUME NEW t \in Task, Receive(t) \/ \E err \in BOOLEAN : TaskReturns(t, err)
      PROVE  FALSE
  <2>1. state[t] \in InFlightStates
    BY <1>3 DEF Receive, ReceiveAndStop, ReceiveAndLaunch, TaskReturns, InFlightStates
  <2>2. phase = "returned"
    BY <1>3 DEF Receive, ReceiveAndStop, ReceiveAndLaunch, TaskReturns
  <2> QED BY <2>1, <2>2 DEF GraphInv, OverIsOver, InFlight
<1>4. CASE CancelCtx \/ Discard
  BY <1>4 DEF CancelCtx, Discard, graphVars
<1>5. CASE UNCHANGED <<graphVars, ctxErr>>
  BY <1>5 DEF graphVars, ReturnIsAccurate
<1> QED BY <1>1, <1>2, <1>3, <1>4, <1>5 DEF GraphNext

LEMMA CyclesHold == GraphSpec => []CyclesWait
<1>1. GraphInit => CyclesWait
  BY DEF GraphInit, GraphIdle, CyclesWait
<1> QED BY <1>1, NextCycles, RunGraphInvariant, PTL DEF GraphSpec

\* The error that RunGraph returns tells what happened, and names exactly the
\* tasks that lie on dependency cycles or behind them (stuckTasks).
THEOREM RunGraphReturn == GraphSpec => []ReturnIsAccurate
<1>1. GraphInit => ReturnIsAccurate
  BY DEF GraphInit, GraphIdle, ReturnIsAccurate
<1> QED BY <1>1, NextAccurate, RunGraphInvariant, ScheduleHolds, CyclesHold, PTL DEF GraphSpec

-----------------------------------------------------------------------------
(* The engine implements TaskGraph.                                        *)

\* What the mapping shows of a task.
LEMMA StatusOf ==
  ASSUME NEW t \in Task, state[t] \in TaskState
  PROVE  /\ AbstractStatus[t] = "waiting" <=> state[t] = "waiting"
         /\ AbstractStatus[t] = "underway" <=> state[t] \in InFlightStates
         /\ AbstractStatus[t] = "ok" <=> state[t] = "ok"
         /\ AbstractStatus[t] = "failed" <=> state[t] = "failed"
BY DEF AbstractStatus, TaskState, InFlightStates

LEMMA HavingStatus ==
  ASSUME state \in [Task -> TaskState]
  PROVE  /\ Abstract!Having("underway") = InFlight
         /\ Abstract!Having("ok") = Ok
         /\ Abstract!Having("failed") = {t \in Task : state[t] = "failed"}
BY StatusOf DEF Abstract!Having, InFlight, Ok

\* A step that changes the state of no task in a way that shows.
LEMMA SameStatus ==
  ASSUME \A t \in Task : AbstractStatus'[t] = AbstractStatus[t]
  PROVE  AbstractStatus' = AbstractStatus
BY DEF AbstractStatus

\* The instance counts with its own name for Cardinality.
LEMMA SameCount == \A S : Abstract!Cardinality(S) = Cardinality(S)
BY DEF Abstract!Cardinality, Cardinality

\* A step after which every task waits.
LEMMA BlankStatus ==
  ASSUME \A t \in Task : AbstractStatus'[t] = "waiting"
  PROVE  AbstractStatus' = [t \in Task |-> "waiting"]
BY DEF AbstractStatus

LEMMA InitRefines == GraphInit => Abstract!Init
<1> SUFFICES ASSUME GraphInit PROVE Abstract!Init
  OBVIOUS
<1>0. \A t \in Task : AbstractStatus[t] = "waiting"
  BY DEF GraphInit, GraphIdle, AbstractStatus, InFlightStates
<1>1. AbstractStatus = [t \in Task |-> "waiting"] /\ AbstractAnswer = "idle"
  BY <1>0 DEF GraphInit, GraphIdle, AbstractStatus, AbstractAnswer
<1> QED BY <1>1 DEF GraphInit, GraphIdle, NoDeps, Abstract!Init, Abstract!Closed

LEMMA CallRefines ==
  ASSUME GraphInv, GraphInv', Call
  PROVE  Abstract!Open
<1>1. AbstractAnswer = "idle" /\ ctxErr' = ctxErr
  BY DEF Call, CallRejected, CallCanceled, CallStarts, AbstractAnswer
<1>2. tasks' \in SUBSET Task /\ deps' \in [Task -> SUBSET Task] /\ limit' \in Nat \ {0}
  BY DEF GraphInv, GraphTypeOK
<1>3. PICK T \in SUBSET Task, c \in Concurrency, D \in [Task -> SUBSET Task] :
        \/ \E dup \in BOOLEAN : CallRejected(T, D, c, dup)
        \/ CallCanceled(T, D, c)
        \/ \E S \in SUBSET InitiallyReady(T, D) : CallStarts(T, D, c, S)
  BY DEF Call, DepsOver
<1>4. CASE (\E dup \in BOOLEAN : CallRejected(T, D, c, dup)) \/ CallCanceled(T, D, c)
  <2>1. state' = [t \in Task |-> "waiting"] /\ phase' = "returned"
    BY <1>4 DEF CallRejected, CallCanceled
  <2>0. \A t \in Task : AbstractStatus'[t] = "waiting"
    BY <2>1 DEF AbstractStatus, InFlightStates
  <2>2. AbstractStatus' = [t \in Task |-> "waiting"]
    BY <2>0, BlankStatus
  <2>3. ret'.kind \in {"duplicate", "unknown", "ctx"} /\ (ret'.kind = "ctx" => ctxErr)
    BY <1>4 DEF CallRejected, CallCanceled
  <2>4. AbstractAnswer' \in {"refused", "canceled"} /\ (AbstractAnswer' = "canceled" => ctxErr)
    BY <2>1, <2>3 DEF AbstractAnswer
  <2> QED BY <1>1, <1>2, <2>2, <2>4 DEF Abstract!Open
<1>5. ASSUME NEW S \in SUBSET InitiallyReady(T, D), CallStarts(T, D, c, S)
      PROVE  Abstract!Open
  <2>1. /\ tasks' = T /\ deps' = D /\ limit' = Clamp(c) /\ phase' = "loop" /\ ~ ctxErr
        /\ Fills(S, InitiallyReady(T, D), 0, Clamp(c))
        /\ state' = [t \in Task |-> IF t \in S THEN "running" ELSE "waiting"]
    BY <1>5 DEF CallStarts, Launch
  <2>2. AbstractStatus' = [t \in Task |-> IF t \in S THEN "underway" ELSE "waiting"]
    BY <2>1 DEF AbstractStatus, InFlightStates
  <2>3. AbstractStatus' = Abstract!Started([t \in Task |-> "waiting"], S)
    BY <2>2 DEF Abstract!Started
  <2>4. S \in SUBSET {t \in tasks' : deps'[t] = {}} /\ S \in SUBSET Task
    BY <2>1, InitiallyReadyMeaning
  <2>5. Cardinality(S) <= limit'
    BY <2>1, <2>4, TaskSets DEF Fills
  <2>6. AbstractAnswer' = "none"
    BY <2>1 DEF AbstractAnswer
  <2>7. \E Z \in SUBSET {t \in tasks' : deps'[t] = {}} :
           /\ Cardinality(Z) <= limit'
           /\ AbstractStatus' = Abstract!Started([t \in Task |-> "waiting"], Z)
    BY <2>3, <2>4, <2>5
  <2> QED BY <1>1, <1>2, <2>1, <2>6, <2>7, SameCount DEF Abstract!Open
<1> QED BY <1>3, <1>4, <1>5

\* The receipt of a result, with what it leads to, is one step of TaskGraph.
LEMMA ReceiveRefines ==
  ASSUME GraphInv, GraphInv', NEW t \in Task, Receive(t)
  PROVE  Abstract!Proceed
<1>0. state \in [Task -> TaskState] /\ state' \in [Task -> TaskState]
  BY DEF GraphInv, GraphTypeOK
<1>1. /\ phase = "loop" /\ state[t] \in {"sentOk", "sentErr"}
      /\ UNCHANGED <<tasks, deps, limit, ctxErr, phase>>
  BY DEF Receive, ReceiveAndStop, ReceiveAndLaunch
<1>2. AbstractAnswer = "none" /\ AbstractAnswer' = "none"
  BY <1>1 DEF AbstractAnswer
<1> DEFINE out == IF state[t] = "sentErr" THEN "failed" ELSE "ok"
           after == [AbstractStatus EXCEPT ![t] = out]
           met == {u \in tasks : after[u] = "waiting" /\ \A d \in deps[u] : after[d] = "ok"}
<1>3. t \in Abstract!Having("underway") /\ out \in {"ok", "failed"}
  BY <1>0, <1>1, HavingStatus DEF InFlight, InFlightStates
<1>4. \A u \in Task : after[u] = IF u = t THEN out ELSE AbstractStatus[u]
  BY DEF AbstractStatus
<1>5. Cardinality({u \in Task : AbstractStatus'[u] = "underway"}) <= limit
  <2>1. {u \in Task : AbstractStatus'[u] = "underway"} = InFlight'
    BY <1>0, StatusOf DEF InFlight, AbstractStatus, InFlightStates, TaskState
  <2> QED BY <1>1, <2>1 DEF GraphInv, WithinLimit
<1>6. SUFFICES \E S \in SUBSET met :
                 /\ S # {} => ~ ctxErr /\ \A u \in Task : after[u] # "failed"
                 /\ AbstractStatus' = Abstract!Started(after, S)
  <2> HIDE DEF out
  <2>1. PICK S \in SUBSET met :
          /\ S # {} => ~ ctxErr /\ \A u \in Task : after[u] # "failed"
          /\ AbstractStatus' = Abstract!Started(after, S)
    BY <1>6
  <2>2. after = Abstract!Ended(t, out) /\ met = Abstract!Startable(after)
    BY DEF Abstract!Ended, Abstract!Startable
  <2>3. \E Z \in SUBSET Abstract!Startable(Abstract!Ended(t, out)) :
          /\ Z # {} => ~ ctxErr /\ \A u \in Task : Abstract!Ended(t, out)[u] # "failed"
          /\ AbstractStatus' = Abstract!Started(Abstract!Ended(t, out), Z)
          /\ Abstract!Cardinality({u \in Task : AbstractStatus'[u] = "underway"}) <= limit
    BY <1>5, <2>1, <2>2, SameCount
  <2> QED BY <1>1, <1>2, <1>3, <2>3 DEF Abstract!Proceed
<1>7. CASE ReceiveAndStop(t)
  <2>1. state' = [state EXCEPT ![t] = out]
    BY <1>7 DEF ReceiveAndStop, Received
  <2>2. \A u \in Task : AbstractStatus'[u] = after[u]
    BY <1>0, <1>4, <2>1 DEF AbstractStatus, InFlightStates
  <2>3. AbstractStatus' = Abstract!Started(after, {})
    BY <2>2 DEF Abstract!Started, AbstractStatus
  <2> QED BY <2>3
<1>8. ASSUME NEW S, ReceiveAndLaunch(t, S)
      PROVE  \E Z \in SUBSET met :
                 /\ Z # {} => ~ ctxErr /\ \A u \in Task : after[u] # "failed"
                 /\ AbstractStatus' = Abstract!Started(after, Z)
  <2>1. /\ ~ ctxErr /\ ~ stopLaunch /\ out = "ok" /\ state[t] = "sentOk"
    BY <1>8 DEF ReceiveAndLaunch
  <2>2. /\ S \subseteq ready \cup NewlyReady(t)
        /\ \A u \in ready \cup NewlyReady(t) :
             u \in tasks /\ state[u] = "waiting" /\ deps[u] \subseteq Ok \cup {t}
        /\ \A u \in Task : state'[u] = IF u \in S THEN "running"
                                       ELSE IF u = t THEN "ok" ELSE state[u]
    BY <1>8, ReceiveAndLaunchInv
  <2>3. \A u \in Task : AbstractStatus'[u] = IF u \in S THEN "underway" ELSE after[u]
    BY <1>0, <1>4, <2>1, <2>2 DEF AbstractStatus, InFlightStates
  <2>4. AbstractStatus' = Abstract!Started(after, S)
    BY <2>3 DEF Abstract!Started, AbstractStatus
  <2>5. \A u \in Task : after[u] # "failed"
    BY <1>0, <1>4, <2>1, StatusOf DEF GraphInv, FailureStops
  <2>6. S \in SUBSET met
    <3> SUFFICES ASSUME NEW u \in S
                 PROVE u \in tasks /\ after[u] = "waiting" /\ \A d \in deps[u] : after[d] = "ok"
      OBVIOUS
    <3>1. u \in tasks /\ u \in Task /\ state[u] = "waiting" /\ deps[u] \subseteq Ok \cup {t}
      BY <2>2 DEF GraphInv, GraphTypeOK
    <3>2. after[u] = "waiting"
      BY <1>0, <1>4, <2>1, <3>1, StatusOf
    <3>3. \A d \in Ok \cup {t} : after[d] = "ok"
      BY <1>0, <1>4, <2>1, StatusOf DEF Ok
    <3> QED BY <3>1, <3>2, <3>3
  <2> QED BY <2>1, <2>4, <2>5, <2>6
<1> QED BY <1>7, <1>8 DEF Receive

\* The answer is the one that TaskGraph asks for.
LEMMA ReturnRefines ==
  ASSUME GraphInv, ScheduleInv, CyclesWait, Return
  PROVE  Abstract!Close
<1>0. state \in [Task -> TaskState] /\ tasks \subseteq Task /\ deps \in [Task -> SUBSET Task]
  BY DEF GraphInv, GraphTypeOK
<1>1. /\ UNCHANGED <<tasks, deps, limit, state, ctxErr>> /\ phase = "loop" /\ InFlight = {}
      /\ ret' = Outcome /\ phase' = "returned"
  BY DEF Return
<1>2. AbstractStatus' = AbstractStatus /\ AbstractAnswer = "none"
  BY <1>1 DEF AbstractStatus, AbstractAnswer
<1>3. /\ Abstract!Having("underway") = {}
      /\ Abstract!Having("ok") = Ok
      /\ Abstract!Having("failed") = {} <=> firstErr = {}
  <2>1. firstErr \subseteq Task
    BY DEF GraphInv, GraphTypeOK
  <2> QED BY <1>0, <1>1, <2>1, HavingStatus DEF ScheduleInv, FirstErrFailed
<1>4. CASE firstErr # {}
  <2>1. AbstractAnswer' = "failed"
    BY <1>1, <1>4 DEF Outcome, AbstractAnswer
  <2>2. Abstract!Having("failed") # {}
    BY <1>3, <1>4
  <2>3. ~ (tasks \subseteq Ok)
    BY <1>4 DEF ScheduleInv, FirstErrFailed, GraphInv, GraphTypeOK, StartedAreTasks, Ok
  <2> QED BY <1>1, <1>2, <1>3, <2>1, <2>2, <2>3 DEF Abstract!Close
<1>5. CASE firstErr = {} /\ ctxErr
  <2>1. AbstractAnswer' = "canceled"
    BY <1>1, <1>5 DEF Outcome, AbstractAnswer
  <2> QED BY <1>1, <1>2, <1>3, <1>5, <2>1 DEF Abstract!Close
<1>6. CASE firstErr = {} /\ ~ ctxErr
  <2>1. /\ \A t \in tasks : IF t \in StuckTasks THEN state[t] = "waiting" ELSE state[t] = "ok"
    BY <1>1, <1>6, LeftOver
  <2>2. CASE Cardinality(Completed) < Cardinality(tasks)
    <3>1. AbstractAnswer' = "stuck"
      BY <1>1, <1>6, <2>2 DEF Outcome, AbstractAnswer
    <3>2. ~ (tasks \subseteq Ok)
      BY <2>2, CountedFewer DEF Ok, Completed, DoneStates
    <3>3. \A t \in tasks : AbstractStatus[t] = "waiting" => ~ (deps[t] \subseteq Ok)
      <4>1. ~ stopLaunch /\ ready = {}
        BY <1>1, <1>6 DEF ScheduleInv, StopsForReason, NothingMissed
      <4>2. \A t \in tasks : AbstractStatus[t] = "waiting" => state[t] = "waiting"
        BY <1>0, StatusOf
      <4> QED BY <1>1, <4>1, <4>2 DEF ScheduleInv, NothingMissed
    <3> QED BY <1>1, <1>2, <1>3, <1>6, <3>1, <3>2, <3>3 DEF Abstract!Close, Abstract!NeedsMet
  <2>3. CASE ~ (Cardinality(Completed) < Cardinality(tasks))
    <3>1. AbstractAnswer' = "done"
      BY <1>1, <1>6, <2>3 DEF Outcome, AbstractAnswer
    <3>2. tasks \subseteq Ok
      BY <1>0, <2>1, <2>3, CountedAll DEF Ok, Completed, DoneStates
    <3> QED BY <1>1, <1>2, <1>3, <1>6, <3>1, <3>2 DEF Abstract!Close
  <2> QED BY <2>2, <2>3
<1> QED BY <1>4, <1>5, <1>6

LEMMA NextRefines ==
  ASSUME GraphInv, GraphInv', ScheduleInv, CyclesWait, [GraphNext]_<<graphVars, ctxErr>>
  PROVE  [Abstract!Next]_(Abstract!tgVars)
<1>1. CASE Call
  BY <1>1, CallRefines DEF Abstract!Next
<1>2. ASSUME NEW t \in Task, NEW err \in BOOLEAN, TaskReturns(t, err)
      PROVE  UNCHANGED Abstract!tgVars
  <2>1. UNCHANGED <<tasks, deps, limit, ctxErr, phase, ret>>
    BY <1>2 DEF TaskReturns
  <2>2. AbstractAnswer' = AbstractAnswer
    BY <2>1 DEF AbstractAnswer
  <2>3. \A u \in Task : AbstractStatus'[u] = AbstractStatus[u]
    BY <1>2 DEF TaskReturns, AbstractStatus, InFlightStates, GraphInv, GraphTypeOK
  <2> QED BY <2>1, <2>2, <2>3, SameStatus DEF Abstract!tgVars
<1>3. ASSUME NEW t \in Task, Receive(t) PROVE Abstract!Next
  BY <1>3, ReceiveRefines DEF Abstract!Next
<1>4. CASE Return
  BY <1>4, ReturnRefines DEF Abstract!Next
<1>5. CASE CancelCtx
  <2>1. AbstractStatus' = AbstractStatus /\ AbstractAnswer' = AbstractAnswer
    BY <1>5 DEF CancelCtx, graphVars, AbstractStatus, AbstractAnswer
  <2> QED BY <1>5, <2>1 DEF CancelCtx, graphVars, Abstract!Next, Abstract!Cancel
<1>6. CASE Discard /\ ctxErr' = FALSE
  <2>0. \A t \in Task : AbstractStatus'[t] = "waiting"
    BY <1>6 DEF Discard, AbstractStatus, InFlightStates
  <2>1. AbstractStatus' = [t \in Task |-> "waiting"] /\ AbstractAnswer' = "idle"
    BY <1>6, <2>0, BlankStatus DEF Discard, AbstractAnswer
  <2>2. AbstractAnswer # "none"
    BY <1>6 DEF Discard, AbstractAnswer
  <2> QED BY <1>6, <2>1, <2>2 DEF Discard, NoDeps, Abstract!Next, Abstract!Leave, Abstract!Closed
<1>7. CASE UNCHANGED <<graphVars, ctxErr>>
  <2>1. AbstractStatus' = AbstractStatus /\ AbstractAnswer' = AbstractAnswer
    BY <1>7 DEF graphVars, AbstractStatus, AbstractAnswer
  <2> QED BY <1>7, <2>1 DEF graphVars, Abstract!tgVars
<1> QED BY <1>1, <1>2, <1>3, <1>4, <1>5, <1>6, <1>7 DEF GraphNext

\* RunGraph, with its counters, ready list, goroutines and channel, does what
\* TaskGraph allows: every call is opened, worked off and answered as there.
THEOREM RunGraphImplements == GraphSpec => ImplementsTaskGraph
<1>1. GraphInv /\ GraphInv' /\ ScheduleInv /\ CyclesWait /\ [GraphNext]_<<graphVars, ctxErr>>
        => [Abstract!Next]_(Abstract!tgVars)
  BY NextRefines
<1> QED BY <1>1, InitRefines, RunGraphInvariant, ScheduleHolds, CyclesHold, PTL
        DEF GraphSpec, ImplementsTaskGraph, Abstract!Spec

=============================================================================
