------------------------------- MODULE TaskGraph ------------------------------
(***************************************************************************)
(* What a caller of operations.RunGraph may rely on, without the ready     *)
(* list, the indegree counters, the goroutines and the results channel: a  *)
(* set of tasks is worked off so that                                      *)
(*   - a task starts only after everything it needs has succeeded,         *)
(*   - never more than width tasks are under way,                          *)
(*   - nothing starts once a task has failed,                              *)
(*   - the answer is given when nothing is under way any more, and it      *)
(*     tells success, failure, cancellation and an unschedulable graph     *)
(*     apart.                                                              *)
(* The detailed module RunGraph implements this specification.             *)
(***************************************************************************)
EXTENDS Naturals, FiniteSets

CONSTANT Task

VARIABLES
  job,       \* the tasks of the call under way
  need,      \* task -> the tasks it needs
  width,     \* how many tasks may be under way
  status,    \* task -> "waiting", "underway", "ok" or "failed"
  canceled,  \* the caller has given up
  answer     \* "none" while the call is open, "idle" outside a call

tgVars == <<job, need, width, status, canceled, answer>>

Having(s)   == {t \in Task : status[t] = s}
NeedsMet(t) == need[t] \subseteq Having("ok")

Closed ==
  /\ answer = "idle"
  /\ job = {} /\ need = [t \in Task |-> {}] /\ width = 1
  /\ status = [t \in Task |-> "waiting"]

Init == Closed /\ canceled = FALSE

Started(f, S) == [t \in Task |-> IF t \in S THEN "underway" ELSE f[t]]

\* The call is refused, or accepted with the first tasks under way.
Open ==
  /\ answer = "idle"
  /\ UNCHANGED canceled
  /\ job' \in SUBSET Task
  /\ need' \in [Task -> SUBSET Task]
  /\ width' \in Nat \ {0}
  /\ \/ /\ answer' \in {"refused", "canceled"}
        /\ answer' = "canceled" => canceled
        /\ status' = [t \in Task |-> "waiting"]
     \/ /\ answer' = "none"
        /\ ~ canceled
        /\ \E S \in SUBSET {t \in job' : need'[t] = {}} :
             /\ Cardinality(S) <= width'
             /\ status' = Started([t \in Task |-> "waiting"], S)

Ended(t, out) == [status EXCEPT ![t] = out]
Startable(f)  == {u \in job : f[u] = "waiting" /\ \A d \in need[u] : f[d] = "ok"}

\* One task ends, and others may start in the same step.
Proceed ==
  /\ answer = "none"
  /\ \E t \in Having("underway"), out \in {"ok", "failed"} :
       \E S \in SUBSET Startable(Ended(t, out)) :
         /\ S # {} => ~ canceled /\ \A u \in Task : Ended(t, out)[u] # "failed"
         /\ status' = Started(Ended(t, out), S)
         /\ Cardinality({u \in Task : status'[u] = "underway"}) <= width
  /\ UNCHANGED <<job, need, width, canceled, answer>>

\* Nobody is under way and nobody will be.
Close ==
  /\ answer = "none"
  /\ Having("underway") = {}
  /\ answer' =
       CASE Having("failed") # {}                         -> "failed"
         [] Having("failed") = {} /\ canceled             -> "canceled"
         [] ~ canceled /\ job \subseteq Having("ok")      -> "done"
         [] OTHER                                         -> "stuck"
  /\ answer' = "stuck" => \A t \in job : status[t] = "waiting" => ~ NeedsMet(t)
  /\ UNCHANGED <<job, need, width, status, canceled>>

Cancel == canceled' = TRUE /\ UNCHANGED <<job, need, width, status, answer>>

Leave == answer # "none" /\ Closed' /\ canceled' = FALSE

Next == Open \/ Proceed \/ Close \/ Cancel \/ Leave

Spec == Init /\ [][Next]_tgVars
=============================================================================
