----------------------------- MODULE OpLifecycle -----------------------------
(***************************************************************************)
(* What a client of the controller may rely on about its operations: an    *)
(* operation is admitted only while no other one on its resource is in     *)
(* flight, it starts at most once, it ends at most once, only a queued or  *)
(* started one ends, and from its end on its record never changes except   *)
(* by being forgotten, for good.  Nothing is said about queues, batches,   *)
(* goroutines, contexts or restarts; the dispatcher with its table         *)
(* implements this specification.                                          *)
(***************************************************************************)
CONSTANTS Op, Resource, None

VARIABLES
  target,   \* operation -> the resource it is about, None without a record
  stage     \* operation -> where it is in its life

olVars == <<target, stage>>

Ends == {"succeeded", "failed", "interrupted", "canceled"}

\* The stages that may follow s in one step.  An operation may be forgotten
\* in the very step in which it ends.
After(s) ==
  CASE s = "none"    -> {"queued"}
    [] s = "queued"  -> {"started", "canceled"}
    [] s = "started" -> Ends \cup {"forgotten"}
    [] s \in Ends    -> {"forgotten"}
    [] OTHER         -> {}

InFlight(s) == s \in {"queued", "started"}

Exclusive ==
  \A o, p \in Op :
    o # p /\ InFlight(stage[o]) /\ InFlight(stage[p]) => target[o] # target[p]

Init == target = [o \in Op |-> None] /\ stage = [o \in Op |-> "none"]

\* One operation moves on.
Moves(o) ==
  /\ stage'[o] \in After(stage[o])
  /\ CASE stage'[o] = "queued"    -> target'[o] \in Resource
       [] stage'[o] = "forgotten" -> target'[o] = None
       [] OTHER                   -> target'[o] = target[o]

\* Any number may move in one step (a restart ends all started ones).
Next ==
  /\ \A o \in Op : \/ Moves(o)
                   \/ stage'[o] = stage[o] /\ target'[o] = target[o]
  /\ Exclusive'

Spec == Init /\ [][Next]_olVars
=============================================================================
