----------------------------- MODULE MCDispatcher -----------------------------
(***************************************************************************)
(* Dispatcher for TLC: resource b refers to resource a, and to a's child c *)
(* where a is a composite.                                                 *)
(***************************************************************************)
EXTENDS Dispatcher, TLC

CONSTANTS a, b, c, v1, v2, v3

NoRefsAt == [v \in Value |-> {}]
Everywhere(S) == [v \in Value |-> S]

\* b refers to a; where it goes both ways, one of a's manifests refers
\* to b, so that a batch can have a cycle although both resources can exist.
RefsBothWays ==
  [r \in Resource |-> CASE r = a -> [NoRefsAt EXCEPT ![v3] = {b}]
                       [] r = b -> Everywhere({a})
                       [] OTHER -> NoRefsAt]
RefsBtoA == [r \in Resource |-> IF r = b THEN Everywhere({a}) ELSE NoRefsAt]

Apply(r, v) == [type |-> "apply", res |-> r, val |-> v]
Delete(r) == [type |-> "delete", res |-> r, val |-> None]

\* Where a is a composite, c is its child, and b refers to both.
NoChildren == [r \in Resource |-> {}]
CChildOfA == [r \in Resource |-> IF r = a THEN [res : {c}, val : {v3}] ELSE {}]
RefsToChild == [RefsBtoA EXCEPT ![b] = Everywhere({a, c})]

\* Nothing tells v1 from v2 here.
Manifests == Permutations({v1, v2})
ApplyAndDelete == {Apply(a, v1), Apply(a, v2), Apply(b, v3), Delete(a)}
AnyKind == {Apply(a, v1), Apply(a, v3), Apply(b, v3), Apply(c, v1), Delete(a)}
=============================================================================
