----------------------------- MODULE MCKubeObjects -----------------------------
(***************************************************************************)
(* KubeObjects for TLC: two items, and a scenario per kind and hazard.     *)
(***************************************************************************)
EXTENDS KubeObjects, TLC

CONSTANTS a, b, c1, c2, n1, n2, v1, v2

At(c, ns) == [cluster |-> c, ns |-> ns, api |-> [i \in Item |-> v1]]
InPlace == {At(c1, a :> n1 @@ b :> n1), At(c1, b :> n1)}
Moving == {At(c2, a :> n1), At(c1, a :> n2)}
Renaming == {[At(c1, b :> n1) EXCEPT !.api[b] = v2]}
Nothing == {At(c1, [i \in {} |-> n1])}
MCSpecs ==
  [objects |-> InPlace \cup Moving \cup Renaming,
   platform |-> InPlace \cup Nothing \cup {At(c1, a :> n2)},
   helm |-> {At(c1, a :> n1), At(c1, a :> n2), At(c2, b :> n1)}]

Calm(k) == [kind |-> k, ops |-> 3, gets |-> 2, cancels |-> 0, failures |-> 0, stops |-> 0]
WithFailures(k) == [Calm(k) EXCEPT !.gets = 1, !.cancels = 1, !.failures = 1]
WithStops(k) == [Calm(k) EXCEPT !.gets = 1, !.stops = 1]
AllScenarios == UNION {{Calm(k), WithFailures(k), WithStops(k)} : k \in Kind}

\* For MCLeaversPruned.cfg: with the first a Get makes an apply forget what to
\* prune; with the second, objects are renamed to another API version too.
ObjectsInPlace == [MCSpecs EXCEPT !["objects"] = InPlace]
ObjectsRenamed == [MCSpecs EXCEPT !["objects"] = InPlace \cup Renaming]
CalmObjects == {Calm("objects")}
===============================================================================
