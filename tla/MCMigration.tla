------------------------------ MODULE MCMigration ------------------------------
(***************************************************************************)
(* Migration for TLC: a source and a destination, with each kind of        *)
(* interference in a scenario of its own.                                  *)
(***************************************************************************)
EXTENDS Migration, TLC

CallsOnly == [calls |-> 5, requests |-> 0, children |-> 0, actions |-> 0,
              auto |-> 0, stops |-> 0, failures |-> 1, gitops |-> {FALSE}]
WithRequests == [CallsOnly EXCEPT !.calls = 3, !.requests = 2, !.actions = 1, !.failures = 0]
WithAuto == [CallsOnly EXCEPT !.calls = 3, !.requests = 1, !.auto = 1, !.failures = 0]
WithChildren == [CallsOnly EXCEPT !.calls = 3, !.children = 1, !.failures = 1]
Overlapping == [CallsOnly EXCEPT !.calls = 1, !.requests = 2, !.children = 1]
WithRestarts == [CallsOnly EXCEPT !.calls = 3, !.auto = 1, !.stops = 1, !.gitops = BOOLEAN]
AllScenarios == {CallsOnly, WithRequests, WithAuto, WithChildren, Overlapping, WithRestarts}
Symmetric == Permutations(Controller) \cup Permutations(Manifest) \cup Permutations(Identity)

Careful == {[CallsOnly EXCEPT !.calls = 7, !.failures = 0]}
===============================================================================
