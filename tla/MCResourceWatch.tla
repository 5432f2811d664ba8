---------------------------- MODULE MCResourceWatch ----------------------------
(***************************************************************************)
(* ResourceWatch for TLC: one page through cuts and outages, and a page    *)
(* that changes kinds while lists and streams are under way, once with a   *)
(* session that may expire.                                                *)
(***************************************************************************)
EXTENDS ResourceWatch, TLC

CONSTANTS k1, k2, n1, n2

OnePage == [kinds |-> {k1}, names |-> {n1}, changes |-> 2, cuts |-> 1, flaps |-> 2, visits |-> 2, expiries |-> 0]
TwoNames == [OnePage EXCEPT !.names = {n1, n2}, !.flaps = 0, !.cuts = 0, !.visits = 1]
Switching == [kinds |-> {k1, k2}, names |-> {n1}, changes |-> 2, cuts |-> 0, flaps |-> 0, visits |-> 2,
              expiries |-> 0]
ThreeVisits == [Switching EXCEPT !.changes = 1, !.visits = 3]
Expiring == [Switching EXCEPT !.changes = 1, !.cuts = 1, !.expiries = 1]
AllScenarios == {OnePage, TwoNames, Switching, Expiring, ThreeVisits}

\* For what documents say and the code does not keep.
OneVisit == [OnePage EXCEPT !.visits = 1]
Calm == {[OneVisit EXCEPT !.cuts = 0, !.flaps = 0]}
JustOneCut == {[OneVisit EXCEPT !.flaps = 0]}
JustSwitching == {[Switching EXCEPT !.changes = 0]}
================================================================================
