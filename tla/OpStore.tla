-------------------------------- MODULE OpStore -------------------------------
(***************************************************************************)
(* The operations table (internal/controller/operations/operations.go): an *)
(* SQLite table of asynchronous apply and delete requests.  Transactions   *)
(* are BEGIN IMMEDIATE and single statements are atomic, so each operator  *)
(* below maps a table to the table after one call of the Store.            *)
(*                                                                         *)
(* Operations are numbered in the order of their submission; the number    *)
(* stands for the row's ID and for its submitted_at instant.               *)
(***************************************************************************)
EXTENDS Naturals, FiniteSets

CONSTANTS
  Op,        \* operation numbers (a bound on the submissions of a behaviour)
  Resource,  \* (apiVersion, kind, name) triples
  Value,     \* manifest contents
  Retain,    \* retainPerResource, 0 disables pruning
  Second,    \* instants per second of the clock behind submitted_at
  None

ASSUME OpAssumption == Op \subseteq Nat \ {0} /\ IsFiniteSet(Op)
ASSUME RetainAssumption == Retain \in Nat
ASSUME SecondAssumption == Second \in Nat \ {0}
ASSUME NoneAssumption == None \notin Resource /\ None \notin Value

Status == {"pending", "running", "succeeded", "failed", "interrupted", "canceled"}

\* IsTerminal.
Terminal == {"succeeded", "failed", "interrupted", "canceled"}
Active   == {"pending", "running"}

Row == [status : Status, type : {"apply", "delete"}, res : Resource,
        val : Value \cup {None}]

\* An operation that was never submitted, or whose row has been pruned.
NoRow == [status |-> "none", type |-> "none", res |-> None, val |-> None]

Table == [Op -> Row \cup {NoRow}]

Request == [type : {"apply"}, res : Resource, val : Value]
             \cup [type : {"delete"}, res : Resource, val : {None}]

\* submitted_at is compared as text in the RFC3339Nano layout, which drops
\* trailing zeros of the fraction.  An instant that ends in zero is therefore
\* ordered after the instants that only extend it ("Z" > any digit or "."),
\* here: after the rest of its second.
SortKey(n) == IF n % Second = 0 THEN n + Second ELSE n

\* The definitions named Faulty... are variants of the definition that follows
\* them; each breaks a property, which shows that the property can fail.

FaultyPendingOnly(tab, r) == \E o \in Op : tab[o].res = r /\ tab[o].status = "pending"

\* Submit's conflict check.
Busy(tab, r) == \E o \in Op : tab[o].res = r /\ tab[o].status \in Active

\* gcResource: all but the Retain newest completed rows of a resource go.
\* Canceled rows do not count as completed here.
Prunable(tab, r) ==
  {o \in Op : tab[o].res = r /\ tab[o].status \in {"succeeded", "failed", "interrupted"}}

Newer(tab, r, o) == {p \in Prunable(tab, r) : SortKey(p) > SortKey(o)}

FaultyKeepsOneMore(tab, r) ==
  [o \in Op |->
     IF Retain > 0 /\ o \in Prunable(tab, r) /\ Cardinality(Newer(tab, r, o)) > Retain
     THEN NoRow ELSE tab[o]]

gcResource(tab, r) ==
  [o \in Op |->
     IF Retain > 0 /\ o \in Prunable(tab, r) /\ Cardinality(Newer(tab, r, o)) >= Retain
     THEN NoRow ELSE tab[o]]

WithStatus(tab, o, st) == [tab EXCEPT ![o].status = st]

\* Submit, past its conflict check: insert pending, commit, then prune.  The
\* prune is under the request's context and may fail; the row stays.
Inserted(tab, o, req) ==
  [tab EXCEPT ![o] = [status |-> "pending", type |-> req.type,
                      res |-> req.res, val |-> req.val]]

Submitted(tab, o, req, pruned) ==
  IF pruned THEN gcResource(Inserted(tab, o, req), req.res) ELSE Inserted(tab, o, req)

\* ClaimNextPending: the first pending row by submitted_at becomes running.
NextPending(tab, o) ==
  /\ tab[o].status = "pending"
  /\ \A p \in Op : tab[p].status = "pending" => SortKey(o) <= SortKey(p)

Claimed(tab, o) == WithStatus(tab, o, "running")

\* Complete writes the status whatever the row's status was, then prunes.
Complete(tab, o, st) == gcResource(WithStatus(tab, o, st), tab[o].res)

FaultyCancelActive(tab, o) == tab[o].status \in Active

\* CancelPending updates only a row that is still pending.
MayCancelPending(tab, o) == tab[o].status = "pending"
CanceledPending(tab, o) == WithStatus(tab, o, "canceled")

FaultyNoSweep(tab) == tab

FaultySweepsActive(tab) ==
  [o \in Op |-> IF tab[o].status \in Active
                THEN [tab[o] EXCEPT !.status = "interrupted"] ELSE tab[o]]

\* MarkRunningInterrupted, the sweep at startup (no pruning here).
MarkRunningInterrupted(tab) ==
  [o \in Op |-> IF tab[o].status = "running"
                THEN [tab[o] EXCEPT !.status = "interrupted"] ELSE tab[o]]

=============================================================================
