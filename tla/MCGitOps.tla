------------------------------- MODULE MCGitOps -------------------------------
(***************************************************************************)
(* GitOps for TLC: the watcher alone, with and without deleteOnRemove, and *)
(* git-as-source with prune.                                               *)
(***************************************************************************)
EXTENDS GitOps, TLC

CONSTANTS a, s1, s2, ticker, webhook

KeepRemoved == [deleteOnRemove |-> FALSE, git |-> FALSE, prune |-> FALSE,
                children |-> {}, edits |-> 3, pulls |-> 0, stops |-> 1]
DeleteRemoved == [KeepRemoved EXCEPT !.deleteOnRemove = TRUE]
AsSource == [KeepRemoved EXCEPT !.git = TRUE, !.prune = TRUE, !.edits = 2, !.pulls = 2, !.stops = 0]
WithChildren == [AsSource EXCEPT !.children = {a}, !.pulls = 1, !.stops = 1]
AllModes == {KeepRemoved, DeleteRemoved, AsSource, WithChildren}

OneDir == [r \in Resource |-> 1]
ByClient == {[res |-> a, type |-> "apply", spec |-> s2], [res |-> a, type |-> "delete", spec |-> None]}

\* The two goroutines that pull run the same code.
Pullers == Permutations(Puller)
===============================================================================
