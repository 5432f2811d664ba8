------------------------------ MODULE MCReconciler ------------------------------
(***************************************************************************)
(* Reconciler for TLC: an atomic and a composite resource.                 *)
(***************************************************************************)
EXTENDS Reconciler, TLC

CONSTANTS vm, cluster

Busy == [submits |-> 3, strangers |-> 0, failures |-> 1, stops |-> 0]
Meddled == [submits |-> 2, strangers |-> 2, failures |-> 0, stops |-> 1]
AllScenarios == {Busy, Meddled}

\* For what documents say and the code does not keep.
OneStranger == {[submits |-> 1, strangers |-> 1, failures |-> 0, stops |-> 0]}
FailingApply == {[submits |-> 1, strangers |-> 1, failures |-> 1, stops |-> 0]}
JustSubmits == {[submits |-> 2, strangers |-> 0, failures |-> 0, stops |-> 0]}
OneOfEach == {[submits |-> 2, strangers |-> 1, failures |-> 0, stops |-> 0]}
================================================================================
