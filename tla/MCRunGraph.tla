------------------------------ MODULE MCRunGraph ------------------------------
(***************************************************************************)
(* RunGraph for TLC: every dependency graph over at most three tasks,      *)
(* cyclic and ill-formed ones included, with a serial and a concurrent     *)
(* caller (0 is the value the code clamps to 1).                           *)
(***************************************************************************)
EXTENDS RunGraph, Relation

\* u depends on t, directly or not.
DependsOnClosure(D) ==
  TransitiveClosure([u, t \in Task |-> t \in D[u]], Task)

\* Unschedulable agrees with its reading in terms of paths, for every graph.
ASSUME OnOrBehindCycles ==
  \A D \in [Task -> SUBSET Task] :
    LET path == DependsOnClosure(D)
    IN  Unschedulable(Task, D) = {t \in Task : path[t, t] \/ \E c \in Task : path[c, c] /\ path[t, c]}
=============================================================================
