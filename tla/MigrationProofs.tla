---------------------------- MODULE MigrationProofs ----------------------------
(***************************************************************************)
(* Proofs about the migration of a VM, for any number of controllers,      *)
(* manifests, identities, calls, requests, failures and restarts.          *)
(***************************************************************************)
EXTENDS Migration, TLAPS

\* Deletes, and only they, carry no manifest.
OpShape ==
  \A c \in Controller, s \in Slot :
    op[c][s] # None => (op[c][s].type = "delete" <=> op[c][s].manifest = None)

\* What the call that holds managementMu works on, at each of its steps.
CallShape ==
  \A c \in Controller : rpc[c] # None =>
    /\ rpc[c].bundle # None => rpc[c].bundle \in bundles
    /\ rpc[c].kind = "forget" => rpc[c].bundle \in bundles
    /\ rpc[c].kind = "adopt" => rpc[c].manifest \in Manifest
    /\ rpc[c].kind = "export" /\ rpc[c].at = "snapshot" => rpc[c].manifest \in Manifest
    /\ rpc[c].at = "committed" => rpc[c].kind \in {"adopt", "forget"}

MigBase == TypeOK /\ OpShape /\ CallShape

-------------------------------------------------------------------------------
(* Types and shapes.                                                       *)

\* Spending a bound leaves bounds.
LEMMA SpendType ==
  ASSUME NEW b \in {"calls", "requests", "children", "actions", "auto", "stops", "failures"},
         left \in Bounds, Spend(b)
  PROVE  left' \in Bounds
<1>1. left' = [left EXCEPT ![b] = left[b] - 1]
  BY DEF Spend
<1> QED BY <1>1 DEF Spend, Bounds

\* The state of the environment, of the operations and of the calls.
LEMMA OpTypes ==
  ASSUME TypeOK, NEW c \in Controller, NEW s \in Slot, op[c][s] # None
  PROVE  op[c][s] \in Oper
BY DEF TypeOK

LEMMA CallTypes ==
  ASSUME TypeOK, NEW c \in Controller, rpc[c] # None
  PROVE  rpc[c] \in Call
BY DEF TypeOK

\* A step that only replaces one operation of one controller.
LEMMA OpReplaced ==
  ASSUME TypeOK, OpShape, NEW c \in Controller, NEW s \in Slot,
         NEW o \in Oper \cup {None},
         o # None => (o.type = "delete" <=> o.manifest = None),
         op' = [op EXCEPT ![c][s] = o]
  PROVE  /\ op' \in [Controller -> [Slot -> Oper \cup {None}]]
         /\ OpShape'
         /\ op'[c][s] = o
         /\ \A d \in Controller, t \in Slot : (d # c \/ t # s) => op'[d][t] = op[d][t]
<1>1. op \in [Controller -> [Slot -> Oper \cup {None}]]
  BY DEF TypeOK
<1>2. /\ op' \in [Controller -> [Slot -> Oper \cup {None}]]
      /\ op'[c][s] = o
      /\ \A d \in Controller, t \in Slot : (d # c \/ t # s) => op'[d][t] = op[d][t]
  BY <1>1
<1>3. OpShape'
  BY <1>2 DEF OpShape
<1> QED BY <1>2, <1>3

\* A step that only replaces the call of one controller.
LEMMA CallReplaced ==
  ASSUME TypeOK, CallShape, NEW c \in Controller, NEW r \in Call \cup {None},
         bundles \subseteq bundles',
         r # None =>
           /\ r.bundle # None => r.bundle \in bundles
           /\ r.kind = "forget" => r.bundle \in bundles
           /\ r.kind = "adopt" => r.manifest \in Manifest
           /\ r.kind = "export" /\ r.at = "snapshot" => r.manifest \in Manifest
           /\ r.at = "committed" => r.kind \in {"adopt", "forget"},
         rpc' = [rpc EXCEPT ![c] = r]
  PROVE  /\ rpc' \in [Controller -> Call \cup {None}]
         /\ CallShape'
<1>1. rpc \in [Controller -> Call \cup {None}]
  BY DEF TypeOK
<1>2. /\ rpc' \in [Controller -> Call \cup {None}]
      /\ rpc'[c] = r
      /\ \A d \in Controller : d # c => rpc'[d] = rpc[d]
  BY <1>1
<1> QED BY <1>2 DEF CallShape

LEMMA InitBase == Init => MigBase
<1> SUFFICES ASSUME Init PROVE MigBase
  OBVIOUS
<1>1. TypeOK
  BY MigrationConstants DEF Init, TypeOK, Desired
<1>2. OpShape
  BY DEF Init, OpShape
<1>3. CallShape
  BY DEF Init, CallShape
<1> QED BY <1>1, <1>2, <1>3 DEF MigBase

\* Requests, actions, the reconciler, the watcher and composites.
LEMMA StartersBase ==
  ASSUME MigBase, NEW c \in Controller,
         \/ \E m \in Manifest : Request(c, "apply", m)
         \/ Request(c, "delete", None)
         \/ InvokeAction(c) \/ ActionEnds(c)
         \/ ReconcilerLoads(c) \/ ReconcilerSubmits(c) \/ GitOpsSubmits(c)
         \/ \E type \in {"apply", "delete"} : ChildStarts(c, type)
  PROVE  MigBase'
<1> USE DEF MigBase
<1>a. None \notin Desired
  BY MigrationConstants
<1>b. ASSUME NEW type \in {"apply", "delete"}, NEW m, Submit(c, type, m),
             IF type = "delete" THEN m = None ELSE m \in Desired
      PROVE  op' \in [Controller -> [Slot -> Oper \cup {None}]] /\ OpShape'
  <2> DEFINE o == [type |-> type, manifest |-> m, at |-> "pending"]
  <2>1. o \in Oper /\ (o.type = "delete" <=> o.manifest = None)
    BY <1>a, <1>b DEF Oper
  <2>2. op' = [op EXCEPT ![c]["own"] = o] /\ "own" \in Slot
    BY <1>b DEF Submit, Slot
  <2> HIDE DEF o
  <2> QED BY <2>1, <2>2, OpReplaced
<1>1. ASSUME NEW type \in {"apply", "delete"}, NEW m, Request(c, type, m),
             IF type = "delete" THEN m = None ELSE m \in Manifest
      PROVE  MigBase'
  <2>1. op' \in [Controller -> [Slot -> Oper \cup {None}]] /\ OpShape'
    BY <1>1, <1>b DEF Request, Desired
  <2>2. left' \in Bounds
    BY <1>1, SpendType DEF Request, TypeOK
  <2>3. UNCHANGED <<vm, row, release, file, action, auto, rpc, gitops, bundles, histVars>>
    BY <1>1 DEF Request
  <2> QED BY <2>1, <2>2, <2>3 DEF TypeOK, CallShape, histVars
<1>2. CASE InvokeAction(c)
  <2>1. left' \in Bounds
    BY <1>2, SpendType DEF InvokeAction, TypeOK
  <2> QED BY <1>2, <2>1 DEF InvokeAction, TypeOK, OpShape, CallShape, histVars
<1>3. CASE ActionEnds(c)
  BY <1>3 DEF ActionEnds, TypeOK, OpShape, CallShape, histVars
<1>4. CASE ReconcilerLoads(c)
  <2>1. left' \in Bounds
    BY <1>4, SpendType DEF ReconcilerLoads, TypeOK
  <2> QED BY <1>4, <2>1 DEF ReconcilerLoads, TypeOK, OpShape, CallShape, histVars
<1>5. CASE ReconcilerSubmits(c)
  <2>1. auto[c] \in Desired
    BY <1>5 DEF ReconcilerSubmits, TypeOK
  <2>2. op' \in [Controller -> [Slot -> Oper \cup {None}]] /\ OpShape'
    BY <1>5, <1>b, <2>1 DEF ReconcilerSubmits, TypeOK, OpShape
  <2> QED BY <1>5, <2>2 DEF ReconcilerSubmits, TypeOK, CallShape, histVars
<1>6. CASE GitOpsSubmits(c)
  <2>1. file[c] \in Desired
    BY <1>6 DEF GitOpsSubmits, TypeOK
  <2>2. op' \in [Controller -> [Slot -> Oper \cup {None}]] /\ OpShape'
    BY <1>6, <1>b, <2>1 DEF GitOpsSubmits
  <2>3. left' \in Bounds
    BY <1>6, SpendType DEF GitOpsSubmits, TypeOK
  <2> QED BY <1>6, <2>2, <2>3 DEF GitOpsSubmits, TypeOK, CallShape, histVars
<1>7. ASSUME NEW type \in {"apply", "delete"}, ChildStarts(c, type)
      PROVE  MigBase'
  <2> DEFINE o == [type |-> type, manifest |-> IF type = "apply" THEN Child ELSE None,
                   at |-> "running"]
  <2>1. o \in Oper /\ (o.type = "delete" <=> o.manifest = None)
    BY <1>a DEF Oper, Desired
  <2>2. op' = [op EXCEPT ![c]["child"] = o] /\ "child" \in Slot
    BY <1>7 DEF ChildStarts, Slot
  <2> HIDE DEF o
  <2>3. op' \in [Controller -> [Slot -> Oper \cup {None}]] /\ OpShape'
    BY <2>1, <2>2, OpReplaced
  <2>4. left' \in Bounds
    BY <1>7, SpendType DEF ChildStarts, TypeOK
  <2> QED BY <1>7, <2>3, <2>4 DEF ChildStarts, TypeOK, CallShape, histVars
<1> QED BY <1>1, <1>2, <1>3, <1>4, <1>5, <1>6, <1>7

\* The steps of an operation.
LEMMA OperBase ==
  ASSUME MigBase, NEW c \in Controller,
         \/ Claim(c)
         \/ \E s \in Slot : Provides(c, s) \/ Saves(c, s) \/ Mirrors(c, s) \/ Fails(c, s)
  PROVE  MigBase'
<1> USE DEF MigBase
<1>a. ASSUME NEW s \in Slot, op[c][s] # None, NEW at \in {"running", "provided", "saved"},
             op' = [op EXCEPT ![c][s] = [op[c][s] EXCEPT !.at = at]]
      PROVE  op' \in [Controller -> [Slot -> Oper \cup {None}]] /\ OpShape'
  <2> DEFINE o == [op[c][s] EXCEPT !.at = at]
  <2>1. o \in Oper /\ o.type = op[c][s].type /\ o.manifest = op[c][s].manifest
    BY <1>a, OpTypes DEF Oper
  <2>2. o.type = "delete" <=> o.manifest = None
    BY <1>a, <2>1 DEF OpShape
  <2>3. op' = [op EXCEPT ![c][s] = o]
    BY <1>a
  <2> HIDE DEF o
  <2> QED BY <2>1, <2>2, <2>3, OpReplaced
<1>b. ASSUME NEW s \in Slot, op' = [op EXCEPT ![c][s] = None]
      PROVE  op' \in [Controller -> [Slot -> Oper \cup {None}]] /\ OpShape'
  BY <1>b, OpReplaced
<1>1. CASE Claim(c)
  <2>1. op' = [op EXCEPT ![c]["own"] = [op[c]["own"] EXCEPT !.at = "running"]]
        /\ op[c]["own"] # None /\ "own" \in Slot
    BY <1>1 DEF Claim, Slot
  <2> QED BY <1>1, <1>a, <2>1 DEF Claim, TypeOK, CallShape, histVars
<1>2. ASSUME NEW s \in Slot, Provides(c, s) PROVE MigBase'
  <2>1. op' = [op EXCEPT ![c][s] = [op[c][s] EXCEPT !.at = "provided"]]
        /\ op[c][s] # None
    BY <1>2 DEF Provides
  <2>2. vm' \in Identity \cup {None}
    BY <1>2 DEF Provides, TypeOK
  <2> QED BY <1>2, <1>a, <2>1, <2>2 DEF Provides, TypeOK, CallShape, histVars
<1>3. ASSUME NEW s \in Slot, Saves(c, s) PROVE MigBase'
  <2>1. op[c][s] # None /\ op[c][s] \in Oper
    BY <1>3, OpTypes DEF Saves
  <2>2. Saved(c, op[c][s]) \in Desired \cup {None}
    BY <2>1 DEF Saved, Oper, TypeOK
  <2>3. row' \in [Controller -> Desired \cup {None}]
    BY <1>3, <2>2 DEF Saves, TypeOK
  <2>4. \/ op' = [op EXCEPT ![c][s] = None]
        \/ op' = [op EXCEPT ![c][s] = [op[c][s] EXCEPT !.at = "saved"]]
    BY <1>3 DEF Saves
  <2>5. op' \in [Controller -> [Slot -> Oper \cup {None}]] /\ OpShape'
    BY <1>a, <1>b, <2>1, <2>4
  <2>6. raced' \subseteq Controller
    BY <1>3 DEF Saves, TypeOK
  <2> QED BY <1>3, <2>3, <2>5, <2>6 DEF Saves, TypeOK, CallShape
<1>4. ASSUME NEW s \in Slot, Mirrors(c, s) PROVE MigBase'
  <2>1. op[c][s] # None /\ op[c][s] \in Oper
    BY <1>4, OpTypes DEF Mirrors
  <2>2. op' \in [Controller -> [Slot -> Oper \cup {None}]] /\ OpShape'
    BY <1>4, <1>b DEF Mirrors
  <2>3. left' \in Bounds
    BY <1>4, SpendType DEF Mirrors, TypeOK
  <2>4. file' \in [Controller -> Desired \cup {None}] /\ dirty' \subseteq Controller
    BY <1>4, <2>1 DEF Mirrors, TypeOK, Oper
  <2> QED BY <1>4, <2>2, <2>3, <2>4 DEF Mirrors, TypeOK, CallShape
<1>5. ASSUME NEW s \in Slot, Fails(c, s) PROVE MigBase'
  BY <1>5, <1>b DEF Fails, TypeOK, CallShape, histVars
<1> QED BY <1>1, <1>2, <1>3, <1>4, <1>5

\* The three migration calls and a restart.
LEMMA CallsBase ==
  ASSUME MigBase, NEW c \in Controller,
         \/ ExportStarts(c) \/ ExportSnapshots(c) \/ ExportReplies(c)
         \/ AdoptStarts(c) \/ ForgetStarts(c)
         \/ Verifies(c) \/ Observes(c) \/ Adopt(c) \/ Forget(c)
         \/ Replies(c) \/ CallFails(c) \/ Restarts(c)
  PROVE  MigBase'
<1> USE DEF MigBase
<1>a. None \notin Desired /\ None \notin Bundle /\ None \notin Call
  BY MigrationConstants
<1>b. ASSUME NEW kind \in {"export", "adopt", "forget"}, NEW b, NEW m,
             Starts(c, kind, b, m),
             b \in bundles \cup {None}, m \in Manifest \cup {None},
             kind = "forget" => b \in bundles, kind = "adopt" => m \in Manifest
      PROVE  MigBase'
  <2> DEFINE r == [kind |-> kind, bundle |-> b, manifest |-> m, at |-> "locked"]
  <2>1. r \in Call
    BY <1>b DEF Call, TypeOK
  <2>2. /\ r.kind = kind /\ r.bundle = b /\ r.manifest = m /\ r.at = "locked"
        /\ rpc' = [rpc EXCEPT ![c] = r] /\ bundles' = bundles
    BY <1>b DEF Starts
  <2> HIDE DEF r
  <2>3. rpc' \in [Controller -> Call \cup {None}] /\ CallShape'
    BY <1>b, <2>1, <2>2, CallReplaced
  <2>4. left' \in Bounds
    BY <1>b, SpendType DEF Starts, TypeOK
  <2> QED BY <1>b, <2>3, <2>4 DEF Starts, TypeOK, OpShape, histVars
<1>c. ASSUME NEW at \in {"verified", "observed", "committed"},
             rpc[c] # None, bundles' = bundles,
             at = "committed" => rpc[c].kind \in {"adopt", "forget"},
             rpc' = [rpc EXCEPT ![c].at = at]
      PROVE  rpc' \in [Controller -> Call \cup {None}] /\ CallShape'
  <2> DEFINE r == [rpc[c] EXCEPT !.at = at]
  <2>1. rpc[c] \in Call
    BY <1>c, CallTypes
  <2>2. /\ r \in Call /\ r.kind = rpc[c].kind /\ r.bundle = rpc[c].bundle
        /\ r.manifest = rpc[c].manifest /\ r.at = at
    BY <2>1 DEF Call
  <2>3. rpc' = [rpc EXCEPT ![c] = r]
    BY <1>c
  <2> HIDE DEF r
  <2>4. /\ r.bundle # None => r.bundle \in bundles
        /\ r.kind = "forget" => r.bundle \in bundles
        /\ r.kind = "adopt" => r.manifest \in Manifest
        /\ r.at # "snapshot"
        /\ r.at = "committed" => r.kind \in {"adopt", "forget"}
    BY <1>c, <2>2 DEF CallShape
  <2> QED BY <1>c, <2>2, <2>3, <2>4, CallReplaced
<1>d. ASSUME rpc' = [rpc EXCEPT ![c] = None], bundles \subseteq bundles'
      PROVE  rpc' \in [Controller -> Call \cup {None}] /\ CallShape'
  BY <1>d, CallReplaced
<1>1. CASE ExportStarts(c)
  BY <1>1, <1>b DEF ExportStarts
<1>2. CASE ExportSnapshots(c)
  <2> DEFINE r == [rpc[c] EXCEPT !.manifest = row[c], !.at = "snapshot"]
  <2>1. rpc[c] \in Call /\ rpc[c].kind = "export" /\ row[c] \in Manifest /\ rpc[c] # None
    BY <1>2, CallTypes DEF ExportSnapshots, InCall, validateMigrationResource
  <2>2. /\ r \in Call /\ r.kind = "export" /\ r.bundle = rpc[c].bundle
        /\ r.manifest = row[c] /\ r.at = "snapshot"
    BY <2>1 DEF Call
  <2>3. rpc' = [rpc EXCEPT ![c] = r] /\ bundles' = bundles
    BY <1>2 DEF ExportSnapshots
  <2> HIDE DEF r
  <2>4. r.bundle # None => r.bundle \in bundles
    BY <2>1, <2>2 DEF CallShape
  <2>5. rpc' \in [Controller -> Call \cup {None}] /\ CallShape'
    BY <2>1, <2>2, <2>3, <2>4, CallReplaced
  <2> QED BY <1>2, <2>5 DEF ExportSnapshots, TypeOK, OpShape, histVars
<1>3. CASE ExportReplies(c)
  <2>1. rpc[c].manifest \in Manifest /\ vm \in Identity
    BY <1>3 DEF ExportReplies, InCall, CallShape, TypeOK
  <2>2. bundles' \in SUBSET Bundle /\ bundles \subseteq bundles'
    BY <1>3, <2>1 DEF ExportReplies, Bundle, TypeOK
  <2>3. rpc' \in [Controller -> Call \cup {None}] /\ CallShape'
    BY <1>3, <1>d, <2>2 DEF ExportReplies
  <2> QED BY <1>3, <2>2, <2>3 DEF ExportReplies, TypeOK, OpShape, histVars
<1>4. CASE AdoptStarts(c)
  BY <1>4, <1>b DEF AdoptStarts
<1>5. CASE ForgetStarts(c)
  <2>1. PICK b \in bundles : Starts(c, "forget", b, b.resource)
    BY <1>5 DEF ForgetStarts
  <2>2. b.resource \in Manifest
    BY DEF TypeOK, Bundle
  <2> QED BY <1>b, <2>1, <2>2
<1>6. CASE Verifies(c)
  <2>1. rpc' \in [Controller -> Call \cup {None}] /\ CallShape'
    BY <1>6, <1>c DEF Verifies, InCall
  <2> QED BY <1>6, <2>1 DEF Verifies, TypeOK, OpShape, histVars
<1>7. CASE Observes(c)
  <2>1. rpc' \in [Controller -> Call \cup {None}] /\ CallShape'
    BY <1>7, <1>c DEF Observes, InCall
  <2> QED BY <1>7, <2>1 DEF Observes, TypeOK, OpShape, histVars
<1>8. CASE Adopt(c)
  <2>1. rpc' \in [Controller -> Call \cup {None}] /\ CallShape'
    BY <1>8, <1>c DEF Adopt, InCall
  <2>2. rpc[c].manifest \in Manifest
    BY <1>8 DEF Adopt, InCall, CallShape
  <2>3. /\ row' \in [Controller -> Desired \cup {None}]
        /\ release' \in [Controller -> Manifest \cup {None}]
    BY <1>8, <2>2 DEF Adopt, TypeOK, Desired
  <2>4. retired' \subseteq bundles /\ dirty' \subseteq Controller /\ raced' \subseteq Controller
    BY <1>8 DEF Adopt, TypeOK
  <2> QED BY <1>8, <2>1, <2>3, <2>4 DEF Adopt, TypeOK, OpShape
<1>9. CASE Forget(c)
  <2>1. rpc' \in [Controller -> Call \cup {None}] /\ CallShape'
    BY <1>9, <1>c DEF Forget, InCall
  <2>2. rpc[c].bundle \in bundles
    BY <1>9 DEF Forget, InCall, CallShape
  <2>3. rpc[c].bundle.resource \in Manifest
    BY <2>2 DEF TypeOK, Bundle
  <2>4. /\ row' \in [Controller -> Desired \cup {None}]
        /\ release' \in [Controller -> Manifest \cup {None}]
    BY <1>9, <2>3 DEF Forget, TypeOK
  <2>5. /\ forgotten' \subseteq bundles /\ again' \subseteq forgotten'
        /\ strayed' \in BOOLEAN
    BY <1>9, <2>2 DEF Forget, TypeOK
  <2>6. dirty' \subseteq Controller /\ raced' \subseteq Controller
    BY <1>9 DEF Forget, TypeOK
  <2> QED BY <1>9, <2>1, <2>4, <2>5, <2>6 DEF Forget, TypeOK, OpShape
<1>10. CASE Replies(c)
  <2>1. rpc' \in [Controller -> Call \cup {None}] /\ CallShape'
    BY <1>10, <1>d DEF Replies
  <2>2. rpc[c] \in Call
    BY <1>10, CallTypes DEF Replies
  <2>3. Projected(c) \in Desired \cup {None}
    BY <2>2 DEF Projected, Call, Desired
  <2>4. /\ file' \in [Controller -> Desired \cup {None}]
        /\ acked' \subseteq bundles /\ dirty' \subseteq Controller
    BY <1>10, <2>3 DEF Replies, TypeOK
  <2> QED BY <1>10, <2>1, <2>4 DEF Replies, TypeOK, OpShape
<1>11. CASE CallFails(c)
  <2>1. rpc' \in [Controller -> Call \cup {None}] /\ CallShape'
    BY <1>11, <1>d DEF CallFails
  <2>2. left' \in Bounds
    BY <1>11, SpendType DEF CallFails, TypeOK
  <2> QED BY <1>11, <2>1, <2>2 DEF CallFails, TypeOK, OpShape, histVars
<1>12. CASE Restarts(c)
  <2>1. rpc' \in [Controller -> Call \cup {None}] /\ CallShape'
    BY <1>12, <1>d DEF Restarts
  <2>2. left' \in Bounds
    BY <1>12, SpendType DEF Restarts, TypeOK
  <2>3. left.gitops \in SUBSET BOOLEAN
    BY DEF TypeOK, Bounds
  <2>4. /\ gitops' \in [Controller -> BOOLEAN] /\ action' \in [Controller -> BOOLEAN]
        /\ auto' \in [Controller -> Desired \cup {None}]
    BY <1>12, <2>3 DEF Restarts, TypeOK
  <2>5. /\ \A d \in Controller, s \in Slot : op'[d][s] \in {op[d][s], None}
        /\ op' \in [Controller -> [Slot -> Oper \cup {None}]]
    BY <1>12 DEF Restarts, TypeOK
  <2>6. OpShape'
    BY <2>5 DEF OpShape
  <2>7. dirty' \subseteq Controller /\ file' \in [Controller -> Desired \cup {None}]
    BY <1>12 DEF Restarts, TypeOK
  <2> QED BY <1>12, <2>1, <2>2, <2>4, <2>5, <2>6, <2>7 DEF Restarts, TypeOK
<1> QED BY <1>1, <1>2, <1>3, <1>4, <1>5, <1>6, <1>7, <1>8, <1>9, <1>10, <1>11, <1>12

\* Every step keeps types and shapes.
LEMMA NextBase == MigBase /\ [Next]_vars => MigBase'
<1> SUFFICES ASSUME MigBase, [Next]_vars PROVE MigBase'
  OBVIOUS
<1>1. CASE UNCHANGED vars
  BY <1>1 DEF MigBase, vars, histVars, TypeOK, OpShape, CallShape
<1>2. CASE Next
  BY <1>2, StartersBase, OperBase, CallsBase DEF Next
<1> QED BY <1>1, <1>2

\* The variables of the model keep their types, operations and calls their
\* shapes, whatever requests, calls, failures and restarts there are.
THEOREM MigrationTypes == MigrationSpec => []MigBase
<1>1. Init => MigBase
  BY InitBase
<1>2. MigBase /\ [Next]_vars => MigBase'
  BY NextBase
<1> QED BY <1>1, <1>2, PTL DEF MigrationSpec

-------------------------------------------------------------------------------
(* The fence.                                                              *)

\* managementMu: no action runs beside a migration call.
LockHeld == \A c \in Controller : rpc[c] # None => ~action[c]

FenceInv == LockHeld /\ ReleasedIsUnmanaged

\* Submit is fenced, so whoever calls it, a released VM has no operation.
LEMMA SubmitFenced ==
  ASSUME TypeOK, NEW c \in Controller, NEW type, NEW m, Submit(c, type, m)
  PROVE  /\ release[c] = None
         /\ \A d \in Controller \ {c} : op'[d]["own"] = op[d]["own"]
BY DEF Submit, CheckNotForgotten, TypeOK

\* Steps of everything but the migration calls.
LEMMA OthersFence ==
  ASSUME MigBase, FenceInv, NEW c \in Controller,
         \/ \E m \in Manifest : Request(c, "apply", m)
         \/ Request(c, "delete", None)
         \/ InvokeAction(c) \/ ActionEnds(c)
         \/ ReconcilerLoads(c) \/ ReconcilerSubmits(c) \/ GitOpsSubmits(c)
         \/ \E type \in {"apply", "delete"} : ChildStarts(c, type)
         \/ Claim(c)
         \/ \E s \in Slot : Provides(c, s) \/ Saves(c, s) \/ Mirrors(c, s) \/ Fails(c, s)
  PROVE  FenceInv'
<1> USE DEF FenceInv
<1>0. TypeOK /\ OpShape
  BY DEF MigBase
<1>1. ASSUME NEW type, NEW m, Request(c, type, m) PROVE FenceInv'
  BY <1>0, <1>1, SubmitFenced DEF Request, LockHeld, ReleasedIsUnmanaged
<1>2. CASE InvokeAction(c)
  BY <1>0, <1>2 DEF InvokeAction, CheckNotForgotten, LockHeld, ReleasedIsUnmanaged, TypeOK
<1>3. CASE ActionEnds(c)
  BY <1>0, <1>3 DEF ActionEnds, LockHeld, ReleasedIsUnmanaged, TypeOK
<1>4. CASE ReconcilerLoads(c)
  BY <1>4 DEF ReconcilerLoads, LockHeld, ReleasedIsUnmanaged
<1>5. CASE ReconcilerSubmits(c)
  BY <1>0, <1>5, SubmitFenced DEF ReconcilerSubmits, LockHeld, ReleasedIsUnmanaged
<1>6. CASE GitOpsSubmits(c)
  BY <1>0, <1>6, SubmitFenced DEF GitOpsSubmits, LockHeld, ReleasedIsUnmanaged
<1>7. ASSUME NEW type \in {"apply", "delete"}, ChildStarts(c, type) PROVE FenceInv'
  BY <1>0, <1>7 DEF ChildStarts, LockHeld, ReleasedIsUnmanaged, TypeOK, Slot
<1>8. CASE Claim(c)
  BY <1>0, <1>8 DEF Claim, LockHeld, ReleasedIsUnmanaged, TypeOK, Slot
<1>9. ASSUME NEW s \in Slot, Provides(c, s) PROVE FenceInv'
  BY <1>0, <1>9 DEF Provides, LockHeld, ReleasedIsUnmanaged, TypeOK, Slot
<1>10. ASSUME NEW s \in Slot, Saves(c, s) PROVE FenceInv'
  <2>1. /\ UNCHANGED <<release, action, rpc>> /\ op[c][s] # None
        /\ row' = [row EXCEPT ![c] = Saved(c, op[c][s])]
        /\ \E o : op' = [op EXCEPT ![c][s] = o]
    BY <1>10 DEF Saves
  <2>2. release[c] # None => row'[c] \in {None, row[c]}
    BY <1>0, <2>1 DEF Saved, CheckNotForgotten, TypeOK
  <2>3. \A d \in Controller : op[d]["own"] = None /\ release[d] # None => op'[d]["own"] = None
    BY <1>0, <2>1 DEF TypeOK, Slot
  <2>4. \A d \in Controller \ {c} : row'[d] = row[d]
    BY <1>0, <2>1 DEF TypeOK
  <2> QED BY <2>1, <2>2, <2>3, <2>4 DEF LockHeld, ReleasedIsUnmanaged
<1>11. ASSUME NEW s \in Slot, Mirrors(c, s) PROVE FenceInv'
  BY <1>0, <1>11 DEF Mirrors, LockHeld, ReleasedIsUnmanaged, TypeOK, Slot
<1>12. ASSUME NEW s \in Slot, Fails(c, s) PROVE FenceInv'
  BY <1>0, <1>12 DEF Fails, LockHeld, ReleasedIsUnmanaged, TypeOK, Slot
<1> QED BY <1>1, <1>2, <1>3, <1>4, <1>5, <1>6, <1>7, <1>8, <1>9, <1>10, <1>11, <1>12

\* Steps of the migration calls, and restarts.  Forget commits while the
\* controller is idle, and while its call keeps actions out.
LEMMA CallsFence ==
  ASSUME MigBase, FenceInv, NEW c \in Controller,
         \/ ExportStarts(c) \/ ExportSnapshots(c) \/ ExportReplies(c)
         \/ AdoptStarts(c) \/ ForgetStarts(c)
         \/ Verifies(c) \/ Observes(c) \/ Adopt(c) \/ Forget(c)
         \/ Replies(c) \/ CallFails(c) \/ Restarts(c)
  PROVE  FenceInv'
<1> USE DEF FenceInv
<1>0. TypeOK
  BY DEF MigBase
<1>1. ASSUME NEW kind, NEW b, NEW m, Starts(c, kind, b, m) PROVE FenceInv'
  BY <1>0, <1>1 DEF Starts, Begin, LockHeld, ReleasedIsUnmanaged, TypeOK
<1>2. ASSUME rpc[c] # None, UNCHANGED <<row, release, op, action>>,
             \E r : rpc' = [rpc EXCEPT ![c] = r]
      PROVE  FenceInv'
  BY <1>0, <1>2 DEF LockHeld, ReleasedIsUnmanaged, TypeOK
<1>3. CASE ExportStarts(c) \/ AdoptStarts(c) \/ ForgetStarts(c)
  BY <1>1, <1>3 DEF ExportStarts, AdoptStarts, ForgetStarts
<1>4. CASE ExportSnapshots(c)
  BY <1>2, <1>4 DEF ExportSnapshots, InCall
<1>5. CASE ExportReplies(c)
  BY <1>2, <1>5 DEF ExportReplies, InCall
<1>6. CASE Verifies(c)
  BY <1>2, <1>6 DEF Verifies, InCall
<1>7. CASE Observes(c)
  BY <1>2, <1>7 DEF Observes, InCall
<1>8. CASE Replies(c)
  BY <1>2, <1>8 DEF Replies
<1>9. CASE CallFails(c)
  BY <1>2, <1>9 DEF CallFails
<1>10. CASE Adopt(c)
  BY <1>0, <1>10 DEF Adopt, InCall, LockHeld, ReleasedIsUnmanaged, TypeOK
<1>11. CASE Forget(c)
  <2>1. ~action[c] /\ op[c]["own"] = None
    BY <1>11 DEF Forget, InCall, MayForget, migrationIdle, LockHeld, Slot
  <2> QED BY <1>0, <1>11, <2>1 DEF Forget, LockHeld, ReleasedIsUnmanaged, TypeOK
<1>12. CASE Restarts(c)
  <2>1. /\ \A d \in Controller : op'[d]["own"] \in {op[d]["own"], None}
        /\ UNCHANGED <<row, release>>
        /\ \A d \in Controller : action'[d] => action[d] /\ d # c
        /\ \A d \in Controller \ {c} : rpc'[d] = rpc[d]
    BY <1>0, <1>12 DEF Restarts, TypeOK, Slot
  <2> QED BY <2>1 DEF LockHeld, ReleasedIsUnmanaged
<1> QED BY <1>3, <1>4, <1>5, <1>6, <1>7, <1>8, <1>9, <1>10, <1>11, <1>12

\* The fence holds for every set of controllers and in every interleaving:
\* from the transaction of Forget to one of Adopt the controller has no row,
\* no operation of its own and no action on the VM.
THEOREM FenceHolds == MigrationSpec => []ReleasedIsUnmanaged
<1>1. Init => FenceInv
  BY DEF Init, FenceInv, LockHeld, ReleasedIsUnmanaged
<1>2. MigBase /\ FenceInv /\ [Next]_vars => FenceInv'
  <2> SUFFICES ASSUME MigBase, FenceInv, [Next]_vars PROVE FenceInv'
    OBVIOUS
  <2>1. CASE UNCHANGED vars
    BY <2>1 DEF vars, FenceInv, LockHeld, ReleasedIsUnmanaged
  <2>2. CASE Next
    BY <2>2, OthersFence, CallsFence DEF Next
  <2> QED BY <2>1, <2>2
<1>3. FenceInv => ReleasedIsUnmanaged
  BY DEF FenceInv
<1> QED BY <1>1, <1>2, <1>3, MigrationTypes, PTL DEF MigrationSpec

-------------------------------------------------------------------------------
(* The handoff.                                                            *)

\* Bundles that have been adopted elsewhere, by a call that has been answered
\* or has only committed.
Seen ==
  acked \cup {b \in bundles : \E d \in Controller :
                /\ rpc[d] # None /\ rpc[d].kind = "adopt" /\ rpc[d].at = "committed"
                /\ rpc[d].bundle = b /\ b.controllerId # d}

\* A controller whose row nothing is about to take: it has not deleted the VM,
\* no bundle of its own entitles anybody to release it, and no forget of it has
\* verified the identity of an earlier VM.  The latest adopter is one.
Keeper(d) ==
  /\ row[d] # None
  /\ \A s \in Slot : ~(op[d][s] # None /\ op[d][s].type = "delete" /\ op[d][s].at = "provided")
  /\ \A b \in Seen \ retired : b.controllerId = d => b.identity # vm
  /\ rpc[d] # None /\ rpc[d].kind = "forget" /\ rpc[d].at = "verified" => rpc[d].bundle.identity = vm

Kept ==
  (~strayed /\ \E b \in Seen \cup forgotten : b.identity = vm) => \E d \in Controller : Keeper(d)


\* The definitions of Kept as one step sees them.
LEMMA KeptByFrame ==
  ASSUME Kept, vm' = vm, strayed => strayed',
         Seen' \cup forgotten' \subseteq Seen \cup forgotten,
         \A d \in Controller : Keeper(d) => Keeper(d)'
  PROVE  Kept'
BY DEF Kept

\* A keeper stays one as long as its row, and what threatens it, stay.
LEMMA StillKeeper ==
  ASSUME NEW d \in Controller, Keeper(d), vm' = vm, row'[d] # None,
         Seen' \subseteq Seen, retired \subseteq retired',
         \A s \in Slot : op'[d][s] # None /\ op'[d][s].at = "provided"
                            /\ op'[d][s].type = "delete" => op'[d][s] = op[d][s],
         rpc'[d] # None /\ rpc'[d].kind = "forget" /\ rpc'[d].at = "verified" =>
           rpc'[d] = rpc[d] \/ rpc'[d].bundle.identity = vm
  PROVE  Keeper(d)'
BY DEF Keeper

\* Steps that commit no adoption show operators nothing new.
LEMMA SeenShrinks ==
  ASSUME MigBase, MigBase', bundles \subseteq bundles', acked' \subseteq Seen,
         \A d \in Controller :
           rpc'[d] # None /\ rpc'[d].kind = "adopt" /\ rpc'[d].at = "committed" => rpc'[d] = rpc[d]
  PROVE  Seen' \subseteq Seen
<1> SUFFICES ASSUME NEW b \in Seen', b \notin acked' PROVE b \in Seen
  OBVIOUS
<1>1. PICK d \in Controller :
        /\ rpc'[d] # None /\ rpc'[d].kind = "adopt" /\ rpc'[d].at = "committed"
        /\ rpc'[d].bundle = b /\ b.controllerId # d /\ b \in bundles'
  BY DEF Seen
<1>2. rpc[d] # None /\ rpc[d].kind = "adopt" /\ rpc[d].at = "committed" /\ rpc[d].bundle = b
  BY <1>1
<1>3. b # None
  BY <1>1, MigrationConstants DEF MigBase, TypeOK
<1>4. b \in bundles
  BY <1>2, <1>3 DEF MigBase, CallShape
<1> QED BY <1>1, <1>2, <1>4 DEF Seen

\* What is seen or forgotten is a bundle that somebody holds.
LEMMA SeenAreBundles ==
  ASSUME MigBase
  PROVE  Seen \cup forgotten \subseteq bundles
BY DEF MigBase, TypeOK, Seen

\* Operations come and go.
LEMMA OpsKept ==
  ASSUME MigBase, MigBase', Kept,
         UNCHANGED <<vm, row, rpc, bundles, acked, retired, forgotten, strayed>>,
         \A d \in Controller, s \in Slot :
           op'[d][s] # None /\ op'[d][s].at = "provided" /\ op'[d][s].type = "delete" =>
             op'[d][s] = op[d][s]
  PROVE  Kept'
<1>1. Seen' \subseteq Seen
  BY SeenShrinks DEF Seen
<1>2. \A d \in Controller : Keeper(d) => row'[d] # None
  BY DEF Keeper
<1>3. \A d \in Controller : Keeper(d) => Keeper(d)'
  BY <1>1, <1>2, StillKeeper
<1> QED BY <1>1, <1>3, KeptByFrame

\* A call takes a step that commits nothing.
LEMMA CallKept ==
  ASSUME MigBase, MigBase', Kept, NEW c \in Controller,
         UNCHANGED <<vm, row, retired, forgotten, strayed>>,
         bundles \subseteq bundles', acked' \subseteq Seen,
         \A d \in Controller, s \in Slot : op'[d][s] \in {op[d][s], None},
         \A d \in Controller \ {c} : rpc'[d] = rpc[d],
         rpc'[c] # None => /\ rpc'[c].at # "committed"
                           /\ rpc'[c].kind = "forget" /\ rpc'[c].at = "verified" =>
                                rpc'[c].bundle.identity = vm
  PROVE  Kept'
<1>1. Seen' \subseteq Seen
  BY SeenShrinks
<1>2. ASSUME NEW d \in Controller, Keeper(d) PROVE Keeper(d)'
  <2>1. row'[d] # None
    BY <1>2 DEF Keeper
  <2> QED BY <1>1, <1>2, <2>1, StillKeeper
<1> QED BY <1>1, <1>2, KeptByFrame

\* A VM that changes has an identity that no bundle knows.
LEMMA ProvidesKept ==
  ASSUME MigBase, MigBase', Kept, NEW c \in Controller, NEW s \in Slot, Provides(c, s)
  PROVE  Kept'
<1>1. /\ op[c][s] # None /\ op[c][s].at = "running"
      /\ op' = [op EXCEPT ![c][s].at = "provided"]
      /\ UNCHANGED <<row, release, file, action, auto, rpc, gitops, bundles, left, histVars>>
      /\ vm' \in IF op[c][s].type = "delete" THEN {None}
                 ELSE IF vm = None THEN Identity \ {b.identity : b \in bundles} ELSE {vm}
  BY DEF Provides
<1>2. /\ op[c][s] \in Oper
      /\ op'[c][s] = [op[c][s] EXCEPT !.at = "provided"]
      /\ \A d \in Controller, t \in Slot : (d # c \/ t # s) => op'[d][t] = op[d][t]
  BY <1>1, OpTypes DEF MigBase, TypeOK
<1>3. op'[c][s].type = op[c][s].type
  BY <1>2 DEF Oper
<1>4. CASE op[c][s].type = "delete" \/ vm = None
  <2>1. \A b \in bundles : b.identity # vm'
    <3>1. \A b \in bundles : b.identity \in Identity /\ b.identity # None
      BY MigrationConstants DEF MigBase, TypeOK, Bundle
    <3> QED BY <1>1, <1>4, <3>1
  <2>2. (Seen \cup forgotten)' \subseteq bundles'
    BY SeenAreBundles DEF MigBase, TypeOK, Seen
  <2> QED BY <1>1, <2>1, <2>2 DEF Kept
<1>5. CASE op[c][s].type # "delete" /\ vm # None
  <2>1. vm' = vm
    BY <1>1, <1>5
  <2> QED BY <1>1, <1>2, <1>3, <1>5, <2>1, OpsKept DEF histVars
<1> QED BY <1>4, <1>5

\* A delete takes the row of a controller that is no keeper any more.
LEMMA SavesKept ==
  ASSUME MigBase, MigBase', Kept, NEW c \in Controller, NEW s \in Slot, Saves(c, s)
  PROVE  Kept'
<1>1. /\ op[c][s] # None /\ op[c][s].at = "provided"
      /\ row' = [row EXCEPT ![c] = Saved(c, op[c][s])]
      /\ op' = [op EXCEPT ![c][s] = IF op[c][s].type = "apply" /\ row'[c] # op[c][s].manifest
                                    THEN None ELSE [op[c][s] EXCEPT !.at = "saved"]]
      /\ UNCHANGED <<vm, rpc, bundles, acked, retired, forgotten, strayed>>
  BY DEF Saves
<1>2. /\ op[c][s] \in Oper /\ row \in [Controller -> Desired \cup {None}]
      /\ op \in [Controller -> [Slot -> Oper \cup {None}]]
  BY <1>1, OpTypes DEF MigBase, TypeOK
<1>3. [op[c][s] EXCEPT !.at = "saved"].at = "saved"
  BY <1>2 DEF Oper
<1>4. \A d \in Controller, t \in Slot :
        op'[d][t] # None /\ op'[d][t].at = "provided" => op'[d][t] = op[d][t]
  BY <1>1, <1>2, <1>3
<1>5. Seen' \subseteq Seen
  BY <1>1, SeenShrinks DEF Seen
<1>6. ASSUME NEW d \in Controller, Keeper(d) PROVE row'[d] # None
  <2>1. CASE d # c
    BY <1>1, <1>2, <1>6, <2>1 DEF Keeper
  <2>2. CASE d = c
    <3>1. op[c][s].type = "apply"
      BY <1>1, <1>2, <1>6, <2>2 DEF Keeper, Oper
    <3>2. op[c][s].manifest # None /\ row[c] # None
      BY <1>1, <1>6, <2>2, <3>1 DEF Keeper, MigBase, OpShape
    <3> QED BY <1>1, <1>2, <2>2, <3>1, <3>2 DEF Saved
  <2> QED BY <2>1, <2>2
<1>7. \A d \in Controller : Keeper(d) => Keeper(d)'
  BY <1>1, <1>4, <1>5, <1>6, StillKeeper
<1> QED BY <1>1, <1>5, <1>7, KeptByFrame

\* The latest adopter is a keeper: its controller is idle, and all bundles of
\* its own are retired.
LEMMA AdoptKept ==
  ASSUME MigBase, MigBase', Kept, NEW c \in Controller, Adopt(c)
  PROVE  Kept'
<1>1. /\ rpc[c] # None /\ rpc[c].kind = "adopt" /\ migrationIdle(c)
      /\ row' = [row EXCEPT ![c] = rpc[c].manifest]
      /\ rpc' = [rpc EXCEPT ![c].at = "committed"]
      /\ retired' = retired \cup {b \in bundles : b.controllerId = c}
      /\ UNCHANGED <<vm, op, bundles, acked, forgotten, strayed>>
  BY DEF Adopt, InCall, MayAdopt
<1>2. rpc[c] \in Call /\ row \in [Controller -> Desired \cup {None}]
  BY <1>1, CallTypes DEF MigBase, TypeOK
<1>3. rpc'[c].kind = "adopt"
  BY <1>1, <1>2 DEF MigBase, TypeOK, Call
<1>4. row'[c] # None
  BY <1>1, <1>2, MigrationConstants DEF MigBase, CallShape, Desired
<1>5. \A b \in Seen' \ retired' : b.controllerId # c
  <2>1. Seen' \subseteq bundles'
    BY DEF MigBase, TypeOK, Seen
  <2> QED BY <1>1, <2>1
<1>6. \A s \in Slot : op'[c][s] = None
  BY <1>1 DEF migrationIdle
<1>7. Keeper(c)'
  BY <1>3, <1>4, <1>5, <1>6 DEF Keeper
<1> QED BY <1>7 DEF Kept

\* A forget whose bundle has been seen adopted, and is not retired, cannot be of
\* a keeper.
LEMMA ForgetKept ==
  ASSUME MigBase, MigBase', Kept, NEW c \in Controller, Forget(c)
  PROVE  Kept'
<1> DEFINE b == rpc[c].bundle
<1>1. /\ rpc[c] # None /\ rpc[c].kind = "forget" /\ rpc[c].at = "verified"
      /\ b.controllerId = c
      /\ row' = [row EXCEPT ![c] = None]
      /\ rpc' = [rpc EXCEPT ![c].at = "committed"]
      /\ IF row[c] = None
         THEN UNCHANGED <<forgotten, strayed>>
         ELSE forgotten' = forgotten \cup {b} /\ strayed' = (strayed \/ b \notin acked \/ b \in retired)
      /\ UNCHANGED <<vm, op, bundles, acked, retired>>
  BY DEF Forget, InCall, MayForget
<1>2. rpc[c] \in Call /\ rpc \in [Controller -> Call \cup {None}]
      /\ row \in [Controller -> Desired \cup {None}]
  BY <1>1, CallTypes DEF MigBase, TypeOK
<1>3. /\ rpc'[c].kind = "forget" /\ rpc'[c].at = "committed"
      /\ \A d \in Controller \ {c} : rpc'[d] = rpc[d]
  BY <1>1, <1>2 DEF Call
<1>4. Seen' \subseteq Seen
  BY <1>1, <1>3, SeenShrinks DEF Seen
<1>5. SUFFICES ASSUME ~strayed' PROVE Kept'
  BY DEF Kept
<1>6. ~strayed /\ (row[c] # None => b \in acked \ retired)
  BY <1>1, <1>5 DEF MigBase, TypeOK
<1>7. Seen' \cup forgotten' \subseteq Seen \cup forgotten
  BY <1>1, <1>4, <1>6 DEF Seen
<1>8. ASSUME NEW d \in Controller, Keeper(d) PROVE Keeper(d)'
  <2>1. d # c
    <3>1. CASE row[c] = None
      BY <1>8, <3>1 DEF Keeper
    <3>2. CASE row[c] # None
      <4>1. b \in Seen \ retired
        BY <1>6, <3>2 DEF Seen
      <4> QED BY <1>1, <1>8, <4>1 DEF Keeper
    <3> QED BY <3>1, <3>2
  <2>2. row'[d] # None
    BY <1>1, <1>2, <1>8, <2>1 DEF Keeper
  <2> QED BY <1>1, <1>3, <1>4, <1>8, <2>1, <2>2, StillKeeper
<1> QED BY <1>1, <1>6, <1>7, <1>8, KeptByFrame

\* Requests, the reconciler, the watcher, composites and the other steps of an
\* operation make no delete that has reached the provider.
LEMMA OthersKept ==
  ASSUME MigBase, MigBase', Kept, NEW c \in Controller,
         \/ \E m \in Manifest : Request(c, "apply", m)
         \/ Request(c, "delete", None)
         \/ InvokeAction(c) \/ ActionEnds(c)
         \/ ReconcilerLoads(c) \/ ReconcilerSubmits(c) \/ GitOpsSubmits(c)
         \/ \E type \in {"apply", "delete"} : ChildStarts(c, type)
         \/ Claim(c)
         \/ \E s \in Slot : Mirrors(c, s) \/ Fails(c, s)
  PROVE  Kept'
<1> DEFINE Quiet == \A d \in Controller, s \in Slot :
                      op'[d][s] # None /\ op'[d][s].at = "provided" => op'[d][s] = op[d][s]
<1>0. op \in [Controller -> [Slot -> Oper \cup {None}]]
  BY DEF MigBase, TypeOK
<1>a. ASSUME NEW type, NEW m, Submit(c, type, m) PROVE Quiet
  BY <1>0, <1>a DEF Submit
<1>1. ASSUME NEW type, NEW m, Request(c, type, m) PROVE Kept'
  <2>1. Quiet
    BY <1>a, <1>1 DEF Request
  <2> QED BY <1>1, <2>1, OpsKept DEF Request, histVars
<1>2. CASE InvokeAction(c)
  BY <1>2, OpsKept DEF InvokeAction, histVars
<1>3. CASE ActionEnds(c)
  BY <1>3, OpsKept DEF ActionEnds, histVars
<1>4. CASE ReconcilerLoads(c)
  BY <1>4, OpsKept DEF ReconcilerLoads, histVars
<1>5. CASE ReconcilerSubmits(c)
  <2>1. Quiet
    BY <1>a, <1>5 DEF ReconcilerSubmits
  <2> QED BY <1>5, <2>1, OpsKept DEF ReconcilerSubmits, histVars
<1>6. CASE GitOpsSubmits(c)
  <2>1. Quiet
    BY <1>a, <1>6 DEF GitOpsSubmits
  <2> QED BY <1>6, <2>1, OpsKept DEF GitOpsSubmits, histVars
<1>7. ASSUME NEW type \in {"apply", "delete"}, ChildStarts(c, type) PROVE Kept'
  <2>1. Quiet
    BY <1>0, <1>7 DEF ChildStarts
  <2> QED BY <1>7, <2>1, OpsKept DEF ChildStarts, histVars
<1>8. CASE Claim(c)
  <2>1. op[c]["own"] \in Oper /\ op' = [op EXCEPT ![c]["own"] = [op[c]["own"] EXCEPT !.at = "running"]]
    BY <1>8, OpTypes DEF Claim, Slot, MigBase
  <2>2. [op[c]["own"] EXCEPT !.at = "running"].at = "running"
    BY <2>1 DEF Oper
  <2>3. Quiet
    BY <1>0, <2>1, <2>2
  <2> QED BY <1>8, <2>3, OpsKept DEF Claim, histVars
<1>9. ASSUME NEW s \in Slot, Mirrors(c, s) PROVE Kept'
  <2>1. Quiet
    BY <1>0, <1>9 DEF Mirrors
  <2> QED BY <1>9, <2>1, OpsKept DEF Mirrors
<1>10. ASSUME NEW s \in Slot, Fails(c, s) PROVE Kept'
  <2>1. Quiet
    BY <1>0, <1>10 DEF Fails
  <2> QED BY <1>10, <2>1, OpsKept DEF Fails, histVars
<1> QED BY <1>1, <1>2, <1>3, <1>4, <1>5, <1>6, <1>7, <1>8, <1>9, <1>10

\* A call that starts, reads, replies or fails, and a restart.
LEMMA CallsKept ==
  ASSUME MigBase, MigBase', Kept, NEW c \in Controller,
         \/ ExportStarts(c) \/ ExportSnapshots(c) \/ ExportReplies(c)
         \/ AdoptStarts(c) \/ ForgetStarts(c)
         \/ Verifies(c) \/ Observes(c) \/ Replies(c) \/ CallFails(c) \/ Restarts(c)
  PROVE  Kept'
<1>0. rpc \in [Controller -> Call \cup {None}] /\ acked \subseteq Seen
  BY DEF MigBase, TypeOK, Seen
<1>a. ASSUME NEW r, rpc' = [rpc EXCEPT ![c] = r], UNCHANGED <<vm, row, op, acked, retired, forgotten, strayed>>,
             bundles \subseteq bundles',
             r # None => /\ r.at # "committed"
                         /\ r.kind = "forget" /\ r.at = "verified" => r.bundle.identity = vm
      PROVE  Kept'
  <2>1. rpc'[c] = r /\ \A d \in Controller \ {c} : rpc'[d] = rpc[d]
    BY <1>0, <1>a
  <2> QED BY <1>0, <1>a, <2>1, CallKept
<1>1. ASSUME NEW kind, NEW b, NEW m, Starts(c, kind, b, m) PROVE Kept'
  BY <1>1, <1>a DEF Starts, histVars
<1>2. CASE ExportStarts(c) \/ AdoptStarts(c) \/ ForgetStarts(c)
  BY <1>1, <1>2 DEF ExportStarts, AdoptStarts, ForgetStarts
<1>3. CASE ExportSnapshots(c)
  <2> DEFINE r == [rpc[c] EXCEPT !.manifest = row[c], !.at = "snapshot"]
  <2>1. rpc[c] \in Call /\ rpc' = [rpc EXCEPT ![c] = r]
    BY <1>3, CallTypes DEF ExportSnapshots, InCall, MigBase
  <2>2. r.at = "snapshot"
    BY <2>1 DEF Call
  <2> HIDE DEF r
  <2> QED BY <1>3, <1>a, <2>1, <2>2 DEF ExportSnapshots, histVars
<1>4. CASE ExportReplies(c)
  BY <1>4, <1>a DEF ExportReplies, histVars
<1>5. CASE Verifies(c)
  <2> DEFINE r == [rpc[c] EXCEPT !.at = "verified"]
  <2>1. rpc[c] \in Call /\ rpc' = [rpc EXCEPT ![c] = r] /\ IdentityMatches(c)
    BY <1>5, CallTypes DEF Verifies, InCall, MigBase
  <2>2. r.at = "verified" /\ r.kind = rpc[c].kind /\ r.bundle = rpc[c].bundle
    BY <2>1 DEF Call
  <2>3. r.kind = "forget" => r.bundle # None
    BY <1>5, <2>2, MigrationConstants DEF Verifies, InCall, MigBase, CallShape, TypeOK
  <2>4. r.kind = "forget" => r.bundle.identity = vm
    BY <2>1, <2>2, <2>3 DEF IdentityMatches
  <2> HIDE DEF r
  <2> QED BY <1>5, <1>a, <2>1, <2>2, <2>4 DEF Verifies, histVars
<1>6. CASE Observes(c)
  <2> DEFINE r == [rpc[c] EXCEPT !.at = "observed"]
  <2>1. rpc[c] \in Call /\ rpc' = [rpc EXCEPT ![c] = r]
    BY <1>6, CallTypes DEF Observes, InCall, MigBase
  <2>2. r.at = "observed"
    BY <2>1 DEF Call
  <2> HIDE DEF r
  <2> QED BY <1>6, <1>a, <2>1, <2>2 DEF Observes, histVars
<1>7. CASE Replies(c)
  <2>1. acked' \subseteq Seen
    BY <1>7 DEF Replies, Seen
  <2>2. rpc'[c] = None /\ \A d \in Controller \ {c} : rpc'[d] = rpc[d]
    BY <1>0, <1>7 DEF Replies
  <2> QED BY <1>7, <2>1, <2>2, CallKept DEF Replies
<1>8. CASE CallFails(c)
  BY <1>8, <1>a DEF CallFails, histVars
<1>9. CASE Restarts(c)
  <2>1. rpc'[c] = None /\ \A d \in Controller \ {c} : rpc'[d] = rpc[d]
    BY <1>0, <1>9 DEF Restarts
  <2>2. \A d \in Controller, s \in Slot : op'[d][s] \in {op[d][s], None}
    BY <1>9 DEF Restarts, MigBase, TypeOK
  <2> QED BY <1>0, <1>9, <2>1, <2>2, CallKept DEF Restarts
<1> QED BY <1>2, <1>3, <1>4, <1>5, <1>6, <1>7, <1>8, <1>9

\* The handoff, for any number of controllers and bundles: as long as a VM is
\* released only with a bundle seen adopted elsewhere, whose source has not
\* adopted again, it keeps a controller.
THEOREM HandoffSafe == MigrationSpec => []HandedOver
<1>1. Init => Kept
  <2> SUFFICES ASSUME Init PROVE Kept
    OBVIOUS
  <2>1. Seen = {} /\ forgotten = {}
    BY DEF Init, Seen
  <2> QED BY <2>1 DEF Kept
<1>2. MigBase /\ MigBase' /\ Kept /\ [Next]_vars => Kept'
  <2> SUFFICES ASSUME MigBase, MigBase', Kept, [Next]_vars PROVE Kept'
    OBVIOUS
  <2>1. CASE UNCHANGED vars
    BY <2>1, OpsKept DEF vars, histVars
  <2>2. CASE Next
    BY <2>2, OthersKept, ProvidesKept, SavesKept, CallsKept, AdoptKept, ForgetKept DEF Next
  <2> QED BY <2>1, <2>2
<1>3. Kept => HandedOver
  BY DEF Kept, HandedOver, Keeper
<1> QED BY <1>1, <1>2, <1>3, MigrationTypes, PTL DEF MigrationSpec

-------------------------------------------------------------------------------
(* The mirror.                                                             *)

InWindow(c, s) == op[c][s] # None /\ op[c][s].at = "saved"

\* Unless writers have overlapped, there is at most one between its row and its
\* file, and what it will write is the row.
OneWriter ==
  \A c \in Controller \ raced :
    /\ \A s, t \in Slot : InWindow(c, s) /\ InWindow(c, t) => s = t
    /\ \A s \in Slot : InWindow(c, s) => op[c][s].manifest = row[c]
    /\ rpc[c] # None /\ rpc[c].at = "committed" =>
         /\ \A s \in Slot : ~InWindow(c, s)
         /\ Projected(c) = row[c]

MirrorInv == OneWriter /\ MirrorFollows

\* A step that opens or closes no window, commits no call, and leaves rows and
\* files alone.
LEMMA MirrorFrame ==
  ASSUME MirrorInv, UNCHANGED <<row, file, dirty, raced>>,
         \A d \in Controller, s \in Slot :
           /\ InWindow(d, s)' <=> InWindow(d, s)
           /\ InWindow(d, s) => op'[d][s] = op[d][s],
         \A d \in Controller : rpc'[d] # None /\ rpc'[d].at = "committed" => rpc'[d] = rpc[d]
  PROVE  MirrorInv'
<1>1. \A d \in Controller : rpc'[d] # None /\ rpc'[d].at = "committed" => Projected(d)' = Projected(d)
  BY DEF Projected
<1>2. OneWriter'
  BY <1>1 DEF MirrorInv, OneWriter
<1>3. MirrorFollows'
  BY DEF MirrorInv, MirrorFollows, InWindow
<1> QED BY <1>2, <1>3 DEF MirrorInv

\* Requests, the reconciler, the watcher, composites, and the steps of an
\* operation before it saves.
LEMMA OthersMirror ==
  ASSUME MigBase, MirrorInv, NEW c \in Controller,
         \/ \E m \in Manifest : Request(c, "apply", m)
         \/ Request(c, "delete", None)
         \/ InvokeAction(c) \/ ActionEnds(c)
         \/ ReconcilerLoads(c) \/ ReconcilerSubmits(c) \/ GitOpsSubmits(c)
         \/ \E type \in {"apply", "delete"} : ChildStarts(c, type)
         \/ Claim(c)
         \/ \E s \in Slot : Provides(c, s) \/ Fails(c, s)
  PROVE  MirrorInv'
<1> DEFINE Quiet == \A d \in Controller, s \in Slot :
                      /\ InWindow(d, s)' <=> InWindow(d, s)
                      /\ InWindow(d, s) => op'[d][s] = op[d][s]
<1>0. op \in [Controller -> [Slot -> Oper \cup {None}]]
  BY DEF MigBase, TypeOK
<1>a. ASSUME NEW s \in Slot, NEW o, op' = [op EXCEPT ![c][s] = o], ~InWindow(c, s), o.at # "saved"
      PROVE  Quiet
  <2>1. op'[c][s] = o /\ \A d \in Controller, t \in Slot : (d # c \/ t # s) => op'[d][t] = op[d][t]
    BY <1>0, <1>a
  <2> QED BY <1>a, <2>1 DEF InWindow
<1>b. ASSUME NEW type, NEW m, Submit(c, type, m) PROVE Quiet
  BY <1>a, <1>b DEF Submit, Slot, InWindow
<1>c. ASSUME NEW s \in Slot, op[c][s] # None, op[c][s].at # "saved", NEW at \in {"running", "provided"},
             op' = [op EXCEPT ![c][s] = [op[c][s] EXCEPT !.at = at]]
      PROVE  Quiet
  <2>1. [op[c][s] EXCEPT !.at = at].at = at
    BY <1>0, <1>c DEF Oper
  <2> QED BY <1>a, <1>c, <2>1 DEF InWindow
<1>1. ASSUME NEW type, NEW m, Request(c, type, m) PROVE MirrorInv'
  <2>1. Quiet
    BY <1>b, <1>1 DEF Request
  <2> QED BY <1>1, <2>1, MirrorFrame DEF Request, histVars
<1>2. CASE InvokeAction(c)
  BY <1>2, MirrorFrame DEF InvokeAction, histVars, InWindow
<1>3. CASE ActionEnds(c)
  BY <1>3, MirrorFrame DEF ActionEnds, histVars, InWindow
<1>4. CASE ReconcilerLoads(c)
  BY <1>4, MirrorFrame DEF ReconcilerLoads, histVars, InWindow
<1>5. CASE ReconcilerSubmits(c)
  <2>1. Quiet
    BY <1>b, <1>5 DEF ReconcilerSubmits, InWindow
  <2> QED BY <1>5, <2>1, MirrorFrame DEF ReconcilerSubmits, histVars
<1>6. CASE GitOpsSubmits(c)
  <2>1. Quiet
    BY <1>b, <1>6 DEF GitOpsSubmits
  <2> QED BY <1>6, <2>1, MirrorFrame DEF GitOpsSubmits, histVars
<1>7. ASSUME NEW type \in {"apply", "delete"}, ChildStarts(c, type) PROVE MirrorInv'
  <2>1. Quiet
    BY <1>a, <1>7 DEF ChildStarts, Slot, InWindow
  <2> QED BY <1>7, <2>1, MirrorFrame DEF ChildStarts, histVars
<1>8. CASE Claim(c)
  <2>1. Quiet
    BY <1>c, <1>8 DEF Claim, Slot
  <2> QED BY <1>8, <2>1, MirrorFrame DEF Claim, histVars
<1>9. ASSUME NEW s \in Slot, Provides(c, s) PROVE MirrorInv'
  <2>1. Quiet
    BY <1>c, <1>9 DEF Provides
  <2> QED BY <1>9, <2>1, MirrorFrame DEF Provides, histVars
<1>10. ASSUME NEW s \in Slot, Fails(c, s) PROVE MirrorInv'
  <2>1. Quiet
    <3>1. \A d \in Controller, t \in Slot : (d # c \/ t # s) => op'[d][t] = op[d][t]
      BY <1>0, <1>10 DEF Fails
    <3>2. op'[c][s] = None
      BY <1>0, <1>10 DEF Fails
    <3> QED BY <1>10, <3>1, <3>2 DEF Fails, InWindow
  <2> QED BY <1>10, <2>1, MirrorFrame DEF Fails, histVars
<1> QED BY <1>1, <1>2, <1>3, <1>4, <1>5, <1>6, <1>7, <1>8, <1>9, <1>10

\* An operation saves: it opens a window, and closes nobody's eyes to others.
LEMMA SavesMirror ==
  ASSUME MigBase, MirrorInv, NEW c \in Controller, NEW s \in Slot, Saves(c, s)
  PROVE  MirrorInv'
<1> DEFINE o == op[c][s]
<1>1. /\ o # None /\ o.at = "provided"
      /\ row' = [row EXCEPT ![c] = Saved(c, o)]
      /\ op' = [op EXCEPT ![c][s] = IF o.type = "apply" /\ row'[c] # o.manifest
                                    THEN None ELSE [o EXCEPT !.at = "saved"]]
      /\ raced' = IF row'[c] # o.manifest THEN raced
                  ELSE IF Overlaps(c, s) THEN raced \cup {c} ELSE raced \ {c}
      /\ UNCHANGED <<file, rpc, dirty>>
  BY DEF Saves
<1>2. /\ o \in Oper /\ row \in [Controller -> Desired \cup {None}]
      /\ op \in [Controller -> [Slot -> Oper \cup {None}]]
      /\ o.type = "delete" => o.manifest = None
  BY <1>1, OpTypes DEF MigBase, TypeOK, OpShape
<1>3. /\ [o EXCEPT !.at = "saved"].at = "saved"
      /\ [o EXCEPT !.at = "saved"].manifest = o.manifest
      /\ [o EXCEPT !.at = "saved"] # None
      /\ o.type \in {"apply", "delete"}
  BY <1>2, MigrationConstants DEF Oper
<1>4. row'[c] = Saved(c, o)
  BY <1>1, <1>2
<1>5. /\ \A d \in Controller \ {c} : row'[d] = row[d] /\ (d \in raced' <=> d \in raced)
      /\ \A d \in Controller, t \in Slot : (d # c \/ t # s) => op'[d][t] = op[d][t]
      /\ \A d \in Controller : Projected(d)' = Projected(d)
  BY <1>1, <1>2 DEF Projected
<1>6. ~InWindow(c, s)
  BY <1>1 DEF InWindow
<1>7. CASE row'[c] = o.manifest
  <2>1. op'[c][s] = [o EXCEPT !.at = "saved"]
    BY <1>1, <1>2, <1>3, <1>7
  <2>2. InWindow(c, s)' /\ op'[c][s].manifest = row'[c]
    BY <1>3, <1>7, <2>1 DEF InWindow
  <2>3. c \notin raced' => ~Overlaps(c, s)
    BY <1>1, <1>7
  <2>4. c \notin raced' => \A t \in Slot \ {s} : ~InWindow(c, t)'
    BY <1>5, <2>3 DEF Overlaps, InWindow
  <2>5. c \notin raced' => ~(rpc'[c] # None /\ rpc'[c].at = "committed")
    BY <1>1, <2>3 DEF Overlaps
  <2>6. OneWriter'
    BY <1>1, <1>5, <2>2, <2>4, <2>5 DEF MirrorInv, OneWriter, InWindow
  <2>7. MirrorFollows'
    BY <1>1, <1>5, <2>2 DEF MirrorInv, MirrorFollows, InWindow
  <2> QED BY <2>6, <2>7 DEF MirrorInv
<1>8. CASE row'[c] # o.manifest
  <2>1. o.type = "apply" /\ op'[c][s] = None /\ raced' = raced
    BY <1>1, <1>2, <1>3, <1>4, <1>8 DEF Saved
  <2>2. row'[c] = row[c]
    BY <1>4, <1>8, <2>1 DEF Saved
  <2>3. row' = row
    BY <1>1, <1>2, <2>2
  <2>4. \A d \in Controller, t \in Slot :
          /\ InWindow(d, t)' <=> InWindow(d, t)
          /\ InWindow(d, t) => op'[d][t] = op[d][t]
    BY <1>5, <1>6, <2>1 DEF InWindow
  <2> QED BY <1>1, <2>1, <2>3, <2>4, MirrorFrame
<1> QED BY <1>7, <1>8

\* It writes its file, or fails to.
LEMMA MirrorsMirror ==
  ASSUME MigBase, MirrorInv, NEW c \in Controller, NEW s \in Slot, Mirrors(c, s)
  PROVE  MirrorInv'
<1>1. /\ InWindow(c, s) /\ op' = [op EXCEPT ![c][s] = None]
      /\ \/ file' = [file EXCEPT ![c] = op[c][s].manifest] /\ dirty' = dirty \ {c}
         \/ dirty' = dirty \cup {c} /\ UNCHANGED file
      /\ UNCHANGED <<row, rpc, raced>>
  BY DEF Mirrors, InWindow
<1>2. /\ op \in [Controller -> [Slot -> Oper \cup {None}]]
      /\ file \in [Controller -> Desired \cup {None}]
  BY DEF MigBase, TypeOK
<1>3. /\ \A d \in Controller, t \in Slot : (d # c \/ t # s) => op'[d][t] = op[d][t]
      /\ op'[c][s] = None
      /\ \A d \in Controller : Projected(d)' = Projected(d)
  BY <1>1, <1>2 DEF Projected
<1>4. OneWriter'
  BY <1>1, <1>3 DEF MirrorInv, OneWriter, InWindow
<1>5. c \in dirty' \cup raced' \/ file'[c] = row'[c]
  BY <1>1, <1>2 DEF MirrorInv, OneWriter
<1>6. \A d \in Controller \ {c} : file'[d] = file[d] /\ (d \in dirty' <=> d \in dirty)
  BY <1>1, <1>2
<1>7. MirrorFollows'
  BY <1>1, <1>3, <1>5, <1>6 DEF MirrorInv, MirrorFollows
<1> QED BY <1>4, <1>7 DEF MirrorInv

\* A call takes a step.
LEMMA CallsMirror ==
  ASSUME MigBase, MirrorInv, NEW c \in Controller,
         \/ ExportStarts(c) \/ ExportSnapshots(c) \/ ExportReplies(c)
         \/ AdoptStarts(c) \/ ForgetStarts(c)
         \/ Verifies(c) \/ Observes(c) \/ Adopt(c) \/ Forget(c)
         \/ Replies(c) \/ CallFails(c) \/ Restarts(c)
  PROVE  MirrorInv'
<1>0. /\ rpc \in [Controller -> Call \cup {None}] /\ row \in [Controller -> Desired \cup {None}]
      /\ file \in [Controller -> Desired \cup {None}]
  BY DEF MigBase, TypeOK
<1>a. ASSUME NEW r, rpc' = [rpc EXCEPT ![c] = r], r # None => r.at # "committed",
             UNCHANGED <<row, file, op, dirty, raced>>
      PROVE  MirrorInv'
  <2>1. rpc'[c] = r /\ \A d \in Controller \ {c} : rpc'[d] = rpc[d]
    BY <1>0, <1>a
  <2> QED BY <1>a, <2>1, MirrorFrame DEF InWindow
<1>b. ASSUME NEW at \in {"verified", "observed"}, rpc[c] # None,
             rpc' = [rpc EXCEPT ![c].at = at], UNCHANGED <<row, file, op, dirty, raced>>
      PROVE  MirrorInv'
  <2>1. [rpc[c] EXCEPT !.at = at].at = at
    BY <1>b, CallTypes DEF MigBase, Call
  <2> QED BY <1>a, <1>b, <2>1
<1>c. ASSUME rpc[c] # None, migrationIdle(c), NEW m,
             rpc' = [rpc EXCEPT ![c].at = "committed"],
             row' = [row EXCEPT ![c] = m], m = IF rpc[c].kind = "forget" THEN None ELSE rpc[c].manifest,
             dirty' = dirty \cup {c}, raced' = raced \ {c}, UNCHANGED <<file, op>>
      PROVE  MirrorInv'
  <2>1. /\ rpc'[c].kind = rpc[c].kind /\ rpc'[c].manifest = rpc[c].manifest
        /\ \A d \in Controller \ {c} : rpc'[d] = rpc[d] /\ row'[d] = row[d]
        /\ row'[c] = m
    BY <1>0, <1>c, CallTypes DEF MigBase, Call
  <2>2. Projected(c)' = row'[c] /\ \A d \in Controller \ {c} : Projected(d)' = Projected(d)
    BY <1>c, <2>1 DEF Projected
  <2>3. \A s \in Slot : ~InWindow(c, s)'
    BY <1>c DEF migrationIdle, InWindow
  <2>4. OneWriter'
    BY <1>c, <2>1, <2>2, <2>3 DEF MirrorInv, OneWriter, InWindow
  <2>5. MirrorFollows'
    BY <1>c, <2>1 DEF MirrorInv, MirrorFollows
  <2> QED BY <2>4, <2>5 DEF MirrorInv
<1>1. CASE ExportStarts(c) \/ AdoptStarts(c) \/ ForgetStarts(c)
  BY <1>1, <1>a DEF ExportStarts, AdoptStarts, ForgetStarts, Starts, histVars
<1>2. CASE ExportSnapshots(c)
  <2> DEFINE r == [rpc[c] EXCEPT !.manifest = row[c], !.at = "snapshot"]
  <2>1. rpc[c] \in Call /\ rpc' = [rpc EXCEPT ![c] = r]
    BY <1>2, CallTypes DEF ExportSnapshots, InCall, MigBase
  <2>2. r.at = "snapshot"
    BY <2>1 DEF Call
  <2> HIDE DEF r
  <2> QED BY <1>2, <1>a, <2>1, <2>2 DEF ExportSnapshots, histVars
<1>3. CASE ExportReplies(c)
  BY <1>3, <1>a DEF ExportReplies, histVars
<1>4. CASE Verifies(c)
  BY <1>4, <1>b DEF Verifies, InCall, histVars
<1>5. CASE Observes(c)
  BY <1>5, <1>b DEF Observes, InCall, histVars
<1>6. CASE Adopt(c)
  BY <1>6, <1>c DEF Adopt, InCall, MayAdopt
<1>7. CASE Forget(c)
  BY <1>7, <1>c DEF Forget, InCall, MayForget
<1>8. CASE Replies(c)
  <2>1. /\ rpc[c] # None /\ rpc[c].at = "committed"
        /\ file' = [file EXCEPT ![c] = Projected(c)] /\ dirty' = dirty \ {c}
        /\ rpc' = [rpc EXCEPT ![c] = None] /\ UNCHANGED <<row, op, raced>>
    BY <1>8 DEF Replies
  <2>2. /\ rpc'[c] = None /\ file'[c] = Projected(c)
        /\ \A d \in Controller \ {c} : rpc'[d] = rpc[d] /\ file'[d] = file[d] /\ (d \in dirty' <=> d \in dirty)
    BY <1>0, <2>1
  <2>3. \A d \in Controller \ {c} : Projected(d)' = Projected(d)
    BY <2>2 DEF Projected
  <2>4. OneWriter'
    BY <2>1, <2>2, <2>3 DEF MirrorInv, OneWriter, InWindow
  <2>5. MirrorFollows'
    BY <2>1, <2>2 DEF MirrorInv, OneWriter, MirrorFollows
  <2> QED BY <2>4, <2>5 DEF MirrorInv
<1>9. CASE CallFails(c)
  BY <1>9, <1>a DEF CallFails, histVars
<1>10. CASE Restarts(c)
  <2>1. /\ \A d \in Controller \ {c}, s \in Slot : op'[d][s] = op[d][s]
        /\ \A s \in Slot : op'[c][s] = IF op[c][s] # None /\ op[c][s].at = "pending" THEN op[c][s] ELSE None
    BY <1>10 DEF Restarts, MigBase, TypeOK
  <2>2. /\ rpc'[c] = None /\ \A d \in Controller \ {c} : rpc'[d] = rpc[d]
        /\ \A d \in Controller \ {c} : file'[d] = file[d] /\ (d \in dirty' <=> d \in dirty)
        /\ UNCHANGED <<row, raced>>
    BY <1>0, <1>10 DEF Restarts
  <2>3. /\ \A s \in Slot : ~InWindow(c, s)'
        /\ \A d \in Controller \ {c} : Projected(d)' = Projected(d)
    BY <2>1, <2>2 DEF InWindow, Projected
  <2>4. \/ file'[c] = row'[c]
        \/ /\ file'[c] = file[c] /\ (c \in dirty => c \in dirty')
           /\ (\E s \in Slot : InWindow(c, s)) => c \in dirty'
    BY <1>0, <1>10, <2>2 DEF Restarts, InWindow
  <2>5. OneWriter'
    BY <2>1, <2>2, <2>3 DEF MirrorInv, OneWriter, InWindow
  <2>6. MirrorFollows'
    BY <2>1, <2>2, <2>4 DEF MirrorInv, MirrorFollows, InWindow
  <2> QED BY <2>5, <2>6 DEF MirrorInv
<1> QED BY <1>1, <1>2, <1>3, <1>4, <1>5, <1>6, <1>7, <1>8, <1>9, <1>10

\* The mirror, whatever fails between row and file: except after a write that
\* did not happen, or writers that overlapped, the file is the row.
THEOREM MirrorIsKept == MigrationSpec => []MirrorFollows
<1>1. Init => MirrorInv
  BY DEF Init, MirrorInv, OneWriter, MirrorFollows, InWindow
<1>2. MigBase /\ MirrorInv /\ [Next]_vars => MirrorInv'
  <2> SUFFICES ASSUME MigBase, MirrorInv, [Next]_vars PROVE MirrorInv'
    OBVIOUS
  <2>1. CASE UNCHANGED vars
    BY <2>1, MirrorFrame DEF vars, histVars, InWindow
  <2>2. CASE Next
    BY <2>2, OthersMirror, SavesMirror, MirrorsMirror, CallsMirror DEF Next
  <2> QED BY <2>1, <2>2
<1>3. MirrorInv => MirrorFollows
  BY DEF MirrorInv
<1> QED BY <1>1, <1>2, <1>3, MigrationTypes, PTL DEF MigrationSpec

===============================================================================
