------------------------------- MODULE Migration -------------------------------
(***************************************************************************)
(* Moving the management of one VM between controllers                     *)
(* (internal/controller/manifests/migration.go and migration_disk.go,      *)
(* server/migration.go, internal/cli/ctl_migration.go) while everything    *)
(* else that manages the VM goes on: requests, runtime actions, the        *)
(* auto-reconciler, the GitOps watcher and composites that apply the VM as *)
(* a child (server/resource.go, operations, reconciler, dispatcher).       *)
(*                                                                         *)
(* Export, adopt and forget are three calls to two processes with no       *)
(* transaction across them.  Each call is modelled at the steps where      *)
(* another process, or another goroutine of the same one, can act: it      *)
(* takes managementMu, reads the provider, commits one SQLite transaction  *)
(* and then writes the file mirror.  Replies can be lost and processes     *)
(* killed at every step, and any call can be repeated.                     *)
(***************************************************************************)
EXTENDS Naturals, FiniteSets

CONSTANTS
  Controller,
  Manifest,    \* desired manifests of the VM that a user can write
  Child,       \* the manifest a composite gives the VM (it has owner labels)
  None,
  Identity,    \* what MigrationIdentity can return: node, VMID and UUID
  Scenarios    \* bounds to explore, each a record of Bounds

Bounds == [calls : Nat, requests : Nat, children : Nat, actions : Nat,
           auto : Nat, stops : Nat, failures : Nat, gitops : SUBSET BOOLEAN]

Desired == Manifest \cup {Child}

\* What `ctl export` writes to a file.  A digest determines its manifest.
Bundle == [resource : Manifest, controllerId : Controller, identity : Identity]

\* The VM's own operation is submitted; a composite's child is not.
Slot == {"own", "child"}
Oper == [type : {"apply", "delete"}, manifest : Desired \cup {None},
         at : {"pending", "running", "provided", "saved"}]
Call == [kind : {"export", "adopt", "forget"}, bundle : Bundle \cup {None},
         manifest : Manifest \cup {None},
         at : {"locked", "verified", "observed", "snapshot", "committed"}]

ASSUME MigrationConstants ==
  /\ Child \notin Manifest
  /\ None \notin Desired \cup Identity /\ None \notin Bundle
  /\ None \notin Oper /\ None \notin Call
  /\ Scenarios \subseteq Bounds
  /\ \A s \in Scenarios : FALSE \in s.gitops

VARIABLES
  vm,        \* the identity of the VM, None while there is no VM
  row,       \* controller -> its applied_manifests row
  release,   \* controller -> the digest in its resource_releases row
  file,      \* controller -> the mirrored manifest
  op,        \* controller -> the VM's own operation and the composite's step
  action,    \* controller -> a runtime action is running
  auto,      \* controller -> what the reconciler loaded and has yet to submit
  rpc,       \* controller -> the migration call that holds managementMu
  gitops,    \* controller -> the watcher runs (read from the config at start)
  bundles,   \* the bundle files operators hold
  left,      \* what remains of the scenario's bounds
  acked,     \* bundles that operators have seen adopted elsewhere (history)
  retired,   \* bundles of a controller that has adopted since (history)
  forgotten, \* bundles whose forget has removed a row (history)
  strayed,   \* a row went by a bundle not in acked, or in retired (history)
  again,     \* bundles whose repeated forget has been the first to stray, and
             \* has left the VM without a row anywhere (history)
  dirty,     \* controllers whose last mirror write did not happen (history)
  raced      \* controllers where an operation last saved between the row and the
             \* file of a call or of another operation (history)

histVars == <<acked, retired, forgotten, strayed, again, dirty, raced>>
vars == <<vm, row, release, file, op, action, auto, rpc, gitops, bundles, left, histVars>>

TypeOK ==
  /\ vm \in Identity \cup {None}
  /\ row \in [Controller -> Desired \cup {None}]
  /\ release \in [Controller -> Manifest \cup {None}]
  /\ file \in [Controller -> Desired \cup {None}]
  /\ op \in [Controller -> [Slot -> Oper \cup {None}]]
  /\ action \in [Controller -> BOOLEAN]
  /\ auto \in [Controller -> Desired \cup {None}]
  /\ rpc \in [Controller -> Call \cup {None}]
  /\ gitops \in [Controller -> BOOLEAN]
  /\ bundles \in SUBSET Bundle
  /\ left \in Bounds
  /\ acked \subseteq bundles /\ retired \subseteq bundles
  /\ forgotten \subseteq bundles /\ again \subseteq forgotten
  /\ strayed \in BOOLEAN /\ dirty \subseteq Controller /\ raced \subseteq Controller

Init ==
  /\ vm \in Identity
  /\ \E c \in Controller, m \in Manifest :
       /\ row = [d \in Controller |-> IF d = c THEN m ELSE None]
       /\ file = row
  /\ release = [c \in Controller |-> None]
  /\ op = [c \in Controller |-> [s \in Slot |-> None]]
  /\ action = [c \in Controller |-> FALSE]
  /\ auto = [c \in Controller |-> None]
  /\ rpc = [c \in Controller |-> None]
  /\ gitops = [c \in Controller |-> FALSE]
  /\ bundles = {}
  /\ left \in Scenarios
  /\ acked = {} /\ retired = {} /\ forgotten = {} /\ again = {}
  /\ strayed = FALSE /\ dirty = {} /\ raced = {}

Spend(b) == left[b] > 0 /\ left' = [left EXCEPT ![b] = @ - 1]

------------------------------------------------------------------------------
(* What the transactions check *)

\* migrationIdle: no operation of any resource is pending or running.
migrationIdle(c) == \A s \in Slot : op[c][s] = None

\* validateMigrationResource: no owner labels (references and opaque provider
\* state are refused by the same predicate and are not distinguished here).
validateMigrationResource(m) == m \in Manifest

CheckNotForgotten(c) == release[c] = None

------------------------------------------------------------------------------
(* Everything that manages the VM and is not a migration *)

\* Submit: the fence and the one-in-flight rule in one transaction.
FaultySubmitUnfenced(c, type, m) ==
  /\ op[c]["own"] = None
  /\ op' = [op EXCEPT ![c]["own"] = [type |-> type, manifest |-> m, at |-> "pending"]]
Submit(c, type, m) ==
  /\ CheckNotForgotten(c)
  /\ op[c]["own"] = None
  /\ op' = [op EXCEPT ![c]["own"] = [type |-> type, manifest |-> m, at |-> "pending"]]

\* Apply and Delete requests hold managementMu for reading through Submit.
Request(c, type, m) ==
  /\ rpc[c] = None /\ CheckNotForgotten(c)
  /\ type = "delete" => row[c] # Child
  /\ Submit(c, type, m)
  /\ Spend("requests")
  /\ UNCHANGED <<vm, row, release, file, action, auto, rpc, gitops, bundles, histVars>>

\* InvokeAction holds it for reading until the provider has answered.
InvokeAction(c) ==
  /\ rpc[c] = None /\ CheckNotForgotten(c) /\ ~action[c]
  /\ action' = [action EXCEPT ![c] = TRUE]
  /\ Spend("actions")
  /\ UNCHANGED <<vm, row, release, file, op, auto, rpc, gitops, bundles, histVars>>

ActionEnds(c) ==
  /\ action[c]
  /\ action' = [action EXCEPT ![c] = FALSE]
  /\ UNCHANGED <<vm, row, release, file, op, auto, rpc, gitops, bundles, left, histVars>>

\* The auto-reconciler loads a drifted resource's manifest, and later submits
\* what it loaded without managementMu; Submit may refuse it.
ReconcilerLoads(c) ==
  /\ row[c] # None /\ auto[c] = None
  /\ auto' = [auto EXCEPT ![c] = row[c]]
  /\ Spend("auto")
  /\ UNCHANGED <<vm, row, release, file, op, action, rpc, gitops, bundles, histVars>>

ReconcilerSubmits(c) ==
  /\ auto[c] # None
  /\ Submit(c, "apply", auto[c]) \/ UNCHANGED op
  /\ auto' = [auto EXCEPT ![c] = None]
  /\ UNCHANGED <<vm, row, release, file, action, rpc, gitops, bundles, left, histVars>>

\* The watcher and its startup walk submit a file that is not the row.
GitOpsSubmits(c) ==
  /\ gitops[c] /\ file[c] # None /\ file[c] # row[c]
  /\ Submit(c, "apply", file[c])
  /\ Spend("auto")
  /\ UNCHANGED <<vm, row, release, file, action, auto, rpc, gitops, bundles, histVars>>

\* A composite's operation reaches this VM: ApplyManifest or DeleteManifest on
\* it, inside an operation that keeps the controller busy, with no fence.
ChildStarts(c, type) ==
  /\ op[c]["child"] = None
  /\ op' = [op EXCEPT ![c]["child"] =
              [type |-> type, manifest |-> IF type = "apply" THEN Child ELSE None, at |-> "running"]]
  /\ Spend("children")
  /\ UNCHANGED <<vm, row, release, file, action, auto, rpc, gitops, bundles, histVars>>

Claim(c) ==
  /\ op[c]["own"] # None /\ op[c]["own"].at = "pending"
  /\ op' = [op EXCEPT ![c]["own"].at = "running"]
  /\ UNCHANGED <<vm, row, release, file, action, auto, rpc, gitops, bundles, left, histVars>>

\* Provider Apply (which creates a VM that is missing, under an identity of
\* its own) or Delete.
Provides(c, s) ==
  /\ op[c][s] # None /\ op[c][s].at = "running"
  /\ vm' \in IF op[c][s].type = "delete" THEN {None}
             ELSE IF vm = None
                  THEN Identity \ {b.identity : b \in bundles}
                  ELSE {vm}
  /\ op' = [op EXCEPT ![c][s].at = "provided"]
  /\ UNCHANGED <<row, release, file, action, auto, rpc, gitops, bundles, left, histVars>>

\* SaveWithRefsHash, refused by the fence, or Store.Delete, which has none.
Saved(c, o) ==
  CASE o.type = "delete"        -> None
    [] CheckNotForgotten(c)     -> o.manifest
    [] OTHER                    -> row[c]

\* Another writer of the file is between its row and its file.
Overlaps(c, s) ==
  \/ rpc[c] # None /\ rpc[c].at = "committed"
  \/ \E t \in Slot \ {s} : op[c][t] # None /\ op[c][t].at = "saved"

Saves(c, s) ==
  LET o == op[c][s]
  IN /\ o # None /\ o.at = "provided"
     /\ row' = [row EXCEPT ![c] = Saved(c, o)]
     /\ op' = [op EXCEPT ![c][s] = IF o.type = "apply" /\ row'[c] # o.manifest
                                   THEN None ELSE [@ EXCEPT !.at = "saved"]]
     /\ raced' = IF row'[c] # o.manifest THEN raced
                 ELSE IF Overlaps(c, s) THEN raced \cup {c} ELSE raced \ {c}
     /\ UNCHANGED <<vm, release, file, action, auto, rpc, gitops, bundles, left,
                    acked, retired, forgotten, strayed, again, dirty>>

\* writeFile or removeFile, then Complete; a failure is only logged.
Mirrors(c, s) ==
  LET o == op[c][s]
  IN /\ o # None /\ o.at = "saved"
     /\ \/ /\ file' = [file EXCEPT ![c] = o.manifest]
           /\ dirty' = dirty \ {c}
           /\ UNCHANGED left
        \/ Spend("failures") /\ dirty' = dirty \cup {c} /\ UNCHANGED file
     /\ op' = [op EXCEPT ![c][s] = None]
     /\ UNCHANGED <<vm, row, release, action, auto, rpc, gitops, bundles,
                    acked, retired, forgotten, strayed, again, raced>>

\* Cancellation, a provider's error, a cache hit, or a save that fails.
Fails(c, s) ==
  /\ op[c][s] # None /\ op[c][s].at # "saved"
  /\ op' = [op EXCEPT ![c][s] = None]
  /\ UNCHANGED <<vm, row, release, file, action, auto, rpc, gitops, bundles, left, histVars>>

------------------------------------------------------------------------------
(* ExportResource, AdoptResource, ForgetResource *)

\* The handler takes managementMu for writing, so it waits for requests and
\* actions, and is refused while GitOps automation runs.
Begin(c) == rpc[c] = None /\ ~action[c] /\ ~gitops[c]

Starts(c, kind, b, m) ==
  /\ Begin(c)
  /\ rpc' = [rpc EXCEPT ![c] = [kind |-> kind, bundle |-> b, manifest |-> m, at |-> "locked"]]
  /\ Spend("calls")
  /\ UNCHANGED <<vm, row, release, file, op, action, auto, gitops, bundles, histVars>>

ExportStarts(c) == Starts(c, "export", None, None)

\* From a bundle, or from a manifest alone; --provider-context rewrites the
\* manifest of a bundle before it is recorded.
AdoptStarts(c) ==
  \E b \in bundles \cup {None}, m \in Manifest : Starts(c, "adopt", b, m)

ForgetStarts(c) == \E b \in bundles : Starts(c, "forget", b, b.resource)

InCall(c, kind, at) == rpc[c] # None /\ rpc[c].kind = kind /\ rpc[c].at = at

\* ExportMigration: the manifest is read in one transaction ...
ExportSnapshots(c) ==
  /\ InCall(c, "export", "locked")
  /\ migrationIdle(c) /\ CheckNotForgotten(c)
  /\ row[c] # None /\ validateMigrationResource(row[c])
  /\ rpc' = [rpc EXCEPT ![c].manifest = row[c], ![c].at = "snapshot"]
  /\ UNCHANGED <<vm, row, release, file, op, action, auto, gitops, bundles, left, histVars>>

\* ... and the identity from the provider afterwards.  The bundle reaches a
\* file or, when the reply is lost, nobody.
ExportReplies(c) ==
  /\ InCall(c, "export", "snapshot") /\ vm # None
  /\ \/ bundles' = bundles \cup {[resource |-> rpc[c].manifest, controllerId |-> c, identity |-> vm]}
     \/ UNCHANGED bundles
  /\ rpc' = [rpc EXCEPT ![c] = None]
  /\ UNCHANGED <<vm, row, release, file, op, action, auto, gitops, left, histVars>>

\* MigrationIdentity: the VM exists and is the bundle's.
IdentityMatches(c) ==
  /\ vm # None
  /\ rpc[c].bundle # None => vm = rpc[c].bundle.identity

Verifies(c) ==
  /\ InCall(c, "adopt", "locked") \/ InCall(c, "forget", "locked")
  /\ IdentityMatches(c)
  /\ rpc' = [rpc EXCEPT ![c].at = "verified"]
  /\ UNCHANGED <<vm, row, release, file, op, action, auto, gitops, bundles, left, histVars>>

\* Provider Get, which adoption requires to succeed.
Observes(c) ==
  /\ InCall(c, "adopt", "verified") /\ vm # None
  /\ rpc' = [rpc EXCEPT ![c].at = "observed"]
  /\ UNCHANGED <<vm, row, release, file, op, action, auto, gitops, bundles, left, histVars>>

\* Adopt: a different manifest on record is a conflict.
MayAdopt(c, m) == migrationIdle(c) /\ row[c] \in {None, m}

Adopt(c) ==
  /\ InCall(c, "adopt", "observed")
  /\ MayAdopt(c, rpc[c].manifest)
  /\ row' = [row EXCEPT ![c] = rpc[c].manifest]
  /\ release' = [release EXCEPT ![c] = None]
  /\ rpc' = [rpc EXCEPT ![c].at = "committed"]
  /\ retired' = retired \cup {b \in bundles : b.controllerId = c}
  /\ dirty' = dirty \cup {c}
  /\ raced' = raced \ {c}
  /\ UNCHANGED <<vm, file, op, action, auto, gitops, bundles, left, acked,
                 forgotten, strayed, again>>

\* Forget: the row must still be what was exported here; without a row, the
\* release must be this bundle's own (a retry).
FaultyForgetAnywhere(c, b) ==
  /\ migrationIdle(c)
  /\ IF row[c] = None THEN release[c] = b.resource ELSE row[c] = b.resource
MayForget(c, b) ==
  /\ migrationIdle(c)
  /\ b.controllerId = c
  /\ IF row[c] = None THEN release[c] = b.resource ELSE row[c] = b.resource

Forget(c) ==
  LET b == rpc[c].bundle
  IN /\ InCall(c, "forget", "verified")
     /\ MayForget(c, b)
     /\ row' = [row EXCEPT ![c] = None]
     /\ release' = [release EXCEPT ![c] = b.resource]
     /\ rpc' = [rpc EXCEPT ![c].at = "committed"]
     /\ IF row[c] = None
        THEN UNCHANGED <<forgotten, strayed, again>>
        ELSE /\ forgotten' = forgotten \cup {b}
             /\ strayed' = (strayed \/ b \notin acked \/ b \in retired)
             /\ again' = IF b \in forgotten /\ ~strayed /\ \A d \in Controller : row'[d] = None
                         THEN again \cup {b} ELSE again
     /\ dirty' = dirty \cup {c}
     /\ raced' = raced \ {c}
     /\ UNCHANGED <<vm, file, op, action, auto, gitops, bundles, left, acked, retired>>

\* Materialize (which checks the fence again) or RemoveProjection.
FaultyProjected(c) == IF file[c] = None THEN row[c] ELSE file[c]
Projected(c) == IF rpc[c].kind = "forget" THEN None ELSE rpc[c].manifest

Replies(c) ==
  /\ rpc[c] # None /\ rpc[c].at = "committed"
  /\ (release[c] # None) = (rpc[c].kind = "forget")
  /\ file' = [file EXCEPT ![c] = Projected(c)]
  /\ dirty' = dirty \ {c}
  /\ \/ acked' = acked \cup {b \in bundles : /\ b = rpc[c].bundle /\ b.controllerId # c
                                              /\ rpc[c].kind = "adopt"}
     \/ UNCHANGED acked
  /\ rpc' = [rpc EXCEPT ![c] = None]
  /\ UNCHANGED <<vm, row, release, op, action, auto, gitops, bundles, left,
                 retired, forgotten, strayed, again, raced>>

\* A check refuses, the provider does not answer, the transaction fails, or
\* the mirror cannot be written ("retry to repair").
CallFails(c) ==
  /\ rpc[c] # None
  /\ IF rpc[c].at = "committed" THEN Spend("failures") ELSE UNCHANGED left
  /\ rpc' = [rpc EXCEPT ![c] = None]
  /\ UNCHANGED <<vm, row, release, file, op, action, auto, gitops, bundles, histVars>>

\* DiskMirror.Reconcile, which a start needs to succeed: a missing file is
\* written again from its row, and files that differ, or have no row, are left.
FileMissing(c) == row[c] # None /\ file[c] = None

\* The process dies and starts again, perhaps with GitOps switched.  Pending
\* rows survive; running ones are marked interrupted.
Restarts(c) ==
  /\ \E g \in left.gitops : gitops' = [gitops EXCEPT ![c] = g]
  /\ Spend("stops")
  /\ file' = [file EXCEPT ![c] = IF FileMissing(c) THEN row[c] ELSE @]
  /\ dirty' = IF FileMissing(c) THEN dirty \ {c}
              ELSE IF \E s \in Slot : op[c][s] # None /\ op[c][s].at = "saved"
              THEN dirty \cup {c} ELSE dirty
  /\ op' = [op EXCEPT ![c] =
              [s \in Slot |-> IF @[s] # None /\ @[s].at = "pending" THEN @[s] ELSE None]]
  /\ action' = [action EXCEPT ![c] = FALSE]
  /\ auto' = [auto EXCEPT ![c] = None]
  /\ rpc' = [rpc EXCEPT ![c] = None]
  /\ UNCHANGED <<vm, row, release, bundles, acked, retired, forgotten, strayed, again, raced>>

Next == \E c \in Controller :
  \/ \E m \in Manifest : Request(c, "apply", m)
  \/ Request(c, "delete", None)
  \/ InvokeAction(c) \/ ActionEnds(c)
  \/ ReconcilerLoads(c) \/ ReconcilerSubmits(c) \/ GitOpsSubmits(c)
  \/ \E type \in {"apply", "delete"} : ChildStarts(c, type)
  \/ Claim(c)
  \/ \E s \in Slot : Provides(c, s) \/ Saves(c, s) \/ Mirrors(c, s) \/ Fails(c, s)
  \/ ExportStarts(c) \/ ExportSnapshots(c) \/ ExportReplies(c)
  \/ AdoptStarts(c) \/ ForgetStarts(c)
  \/ Verifies(c) \/ Observes(c) \/ Adopt(c) \/ Forget(c)
  \/ Replies(c) \/ CallFails(c) \/ Restarts(c)

MigrationSpec == Init /\ [][Next]_vars

------------------------------------------------------------------------------
(* Properties *)

\* The fence: from the transaction that releases the VM until an adoption, the
\* controller has no manifest of it, no operation of it pending or running and
\* no runtime action on it, whatever the reconciler, the watcher, a composite
\* or a request had in progress (Forget, Submit, SaveWithRefsHash and
\* managementMu together).
ReleasedIsUnmanaged ==
  \A c \in Controller : release[c] # None =>
    row[c] = None /\ op[c]["own"] = None /\ ~action[c]

\* The handoff: while operators release a VM only with a bundle that they have
\* seen adopted elsewhere, and whose source has not adopted the VM again since, the VM
\* of that bundle always has a controller that manages it, however calls are
\* lost, repeated or cut short by a crash, and whatever else the controllers
\* do (the digest, controller and identity checks of Adopt and Forget).
HandedOver ==
  \A b \in forgotten : (~strayed /\ vm = b.identity) => \E d \in Controller : row[d] # None

\* The mirror: whenever no call and no operation is between its transaction and
\* its file, the file is the row, unless that write failed or was cut off and
\* nothing has been written since: a repeated call repairs it (Materialize,
\* RemoveProjection and the retry branch of Forget).  Operations do not hold
\* managementMu, and a composite's step has no operation of its own, so that one
\* may save inside the window of a call or of another operation: whichever
\* writes the file last wins, and the file may be wrong until the next save.
MirrorFollows ==
  \A c \in Controller :
    \/ c \in dirty \cup raced
    \/ \E s \in Slot : op[c][s] # None /\ op[c][s].at = "saved"
    \/ file[c] = row[c]

------------------------------------------------------------------------------
(* What documents and comments say and the code does not keep; each has a  *)
(* configuration, named after it, with which TLC refutes it.               *)

\* README.md: "Matching retries are safe" (of forget): where every release
\* so far had followed an adoption elsewhere, repeating a forget that has
\* succeeded never takes the VM away from the only controller that manages it.
MatchingRetriesAreSafe == \A b \in again : vm # b.identity
===============================================================================
