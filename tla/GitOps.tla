-------------------------------- MODULE GitOps --------------------------------
(***************************************************************************)
(* Two-way GitOps (internal/controller/manifests: watcher.go, disk.go,     *)
(* reconcile.go, prune.go, git.go, githook.go; the wiring in               *)
(* cmd/openctl-controller/main.go; server/repo.go, webhook_http.go).       *)
(*                                                                         *)
(* Three copies of what is desired are kept in step by goroutines that     *)
(* share nothing but these copies: the applied_manifests rows, the files   *)
(* of the mirror directory, and a git history with its remote.  Operations *)
(* write rows, then files, then commits; file events become operations     *)
(* through debounce timers; pulls change files and walk the whole tree.    *)
(* The dispatcher is reduced to what it does to these copies: one          *)
(* operation per resource in flight, which saves or ends without saving.   *)
(***************************************************************************)
EXTENDS Naturals, Sequences

CONSTANTS
  Resource,
  Spec,        \* specs a manifest can have
  None,        \* no file, no row, no operation
  Broken,      \* a file that is not a manifest (half-written, bad YAML)
  Dir,         \* resource -> the directory of its file
  Slot,        \* debounce timers that can exist per file at a time
  Puller,      \* the goroutines that pull: the ticker, a webhook request
  Modes,       \* the configurations to consider, each with its bounds
  Client,      \* what the CLI and the UI apply or delete in this model
  EditedTo,    \* what users turn a file of the directory into
  Upstream,    \* what upstream commits turn a file into
  MaxCommits   \* bound on the length of a history

File   == Spec \cup {Broken, None}
Source == {"cli", "gitops"}

\* The settings under manifests.gitops, the resources that carry a label of a
\* composite owner, and bounds on edits (with upstream commits and client
\* requests), pulls and crashes.
Mode == [deleteOnRemove : BOOLEAN, git : BOOLEAN, prune : BOOLEAN,
         children : SUBSET Resource, edits : Nat, pulls : Nat, stops : Nat]

Trees  == [Resource -> File]
Dirs   == {Dir[r] : r \in Resource}

Row  == [spec : Spec, source : Source]
Oper == [type : {"apply", "delete"}, spec : Spec \cup {None}, source : Source,
         at : {"pending", "saved", "mirrored", "committed"}]

ASSUME GitOpsConstants ==
  /\ Broken \notin Spec /\ None \notin Spec \cup Row \cup Oper /\ Broken # None
  /\ Modes \subseteq Mode
  /\ Slot \subseteq Nat \ {0} /\ Slot # {}
  /\ Client \subseteq [res : Resource, type : {"apply", "delete"}, spec : Spec \cup {None}]
  /\ \A q \in Client : q.type = "delete" <=> q.spec = None
  /\ EditedTo \subseteq File /\ Upstream \subseteq File
  /\ MaxCommits \in Nat

VARIABLES
  mode,       \* the configuration of the process
  up,         \* the controller runs
  row,        \* applied_manifests: resource -> spec and source
  tree,       \* the mirror directory: resource -> its file
  dirWatch,   \* directory -> whether fsnotify watches it
  op,         \* resource -> its operation in flight
  watch,      \* resource -> its debounce timers and its pending-map entry
  local,      \* the commits of the mirror repository, oldest first
  remote,     \* the commits of its remote
  puller,     \* goroutine -> where its PullAndReconcile call is
  edits, pulls, stops,   \* counters for the bounds
  excused,    \* resources whose latest change some step has given up (history)
  unsynced    \* PullAndReconcile has advanced HEAD, and since then no Sync has begun
              \* and no walk that was due was lost with a failed read of HEAD (history)

repoVars == <<local, remote>>
bounds == <<edits, pulls, stops>>
histVars == <<excused, unsynced>>
vars == <<mode, up, row, tree, dirWatch, op, watch, repoVars, puller, bounds, histVars>>

Idle == [st |-> "idle", kind |-> "write", spec |-> None]
NoPull == [pc |-> "idle", before |-> 0, todo |-> {}, cur |-> None, spec |-> None]
Quiet == [slot |-> [i \in Slot |-> Idle], listed |-> 0]

Timer == [st : {"idle", "armed", "fired", "cleared", "submit"},
          kind : {"write", "remove"}, spec : Spec \cup {None}]
Commit == [tree : Trees, by : {"controller", "upstream"}]
Pull == [pc : {"idle", "pull", "pulled", "sync", "submit", "onDisk", "list", "prune"},
         before : Nat, todo : SUBSET Resource, cur : Resource \cup {None},
         spec : Spec \cup {None}]

TypeOK ==
  /\ mode \in Modes /\ up \in BOOLEAN
  /\ row \in [Resource -> Row \cup {None}]
  /\ tree \in Trees /\ dirWatch \in [Dirs -> {"no", "reported", "yes"}]
  /\ op \in [Resource -> Oper \cup {None}]
  /\ watch \in [Resource -> [slot : [Slot -> Timer], listed : Slot \cup {0}]]
  /\ local \in Seq(Commit) /\ remote \in Seq(Commit)
  /\ puller \in [Puller -> Pull]
  /\ edits \in 0..mode.edits /\ pulls \in 0..mode.pulls /\ stops \in 0..mode.stops
  /\ excused \subseteq Resource /\ unsynced \in BOOLEAN

\* A new installation: EnsureInit has made the repository, which shares its
\* first commit with the remote; nothing is applied.
Init ==
  /\ mode \in Modes /\ up = TRUE
  /\ row = [r \in Resource |-> None]
  /\ tree = [r \in Resource |-> None] /\ dirWatch = [d \in Dirs |-> "no"]
  /\ op = [r \in Resource |-> None]
  /\ watch = [r \in Resource |-> Quiet]
  /\ local = <<[tree |-> tree, by |-> "upstream"]>> /\ remote = local
  /\ puller = [p \in Puller |-> NoPull]
  /\ edits = 0 /\ pulls = 0 /\ stops = 0 /\ excused = {} /\ unsynced = FALSE

-----------------------------------------------------------------------------
(* File events.  (Definitions named Faulty... are variants of the one that *)
(* follows, each of which breaks a property.)                              *)

Listed(w) == w.listed # 0 /\ w.slot[w.listed].st = "armed"
Free(w) == {i \in Slot : w.slot[i].st = "idle"}

\* handle: an armed timer that the pending map still lists is stopped and
\* replaced; one that has fired, or that is no longer listed, goes on.
Handled(w, kind) ==
  LET i == IF Listed(w) THEN w.listed
           ELSE CHOOSE j \in Free(w) : TRUE
  IN [slot |-> [w.slot EXCEPT ![i] = [st |-> "armed", kind |-> kind, spec |-> None]],
      listed |-> i]

Changed(t) == {r \in Resource : t[r] # tree[r]}

Without(t, d) == \A r \in Resource : Dir[r] = d => t[r] = None

\* fsnotify watches one directory, not what is below it.  MkdirAll and git make
\* the levels of a path at once: by the time handle adds a level, the next one
\* may already be there, and then nobody reports it.  So a directory that
\* appears is watched at once, or is reported and watched later, or never.  The
\* watch of a directory goes with the directory.
DirWatchAfter(d, t) ==
  IF dirWatch[d] = "no" /\ Without(tree, d) /\ ~ Without(t, d) THEN {"no", "reported", "yes"}
  ELSE IF Without(t, d) THEN {dirWatch[d], "no"}
  ELSE {dirWatch[d]}

\* The directory becomes t.  A running watcher hears of the changes in watched
\* directories; a file that appears with its directory may be too early for it.
Rewrite(t) ==
  \E dw \in [Dirs -> {"no", "reported", "yes"}],
    lost \in SUBSET {r \in Changed(t) : dirWatch[Dir[r]] # "yes"} :
    LET seen == {r \in Changed(t) \ lost : up /\ "yes" \in {dirWatch[Dir[r]], dw[Dir[r]]}} IN
    /\ \A d \in Dirs : dw[d] \in IF up THEN DirWatchAfter(d, t) ELSE {dirWatch[d]}
    /\ tree' = t /\ dirWatch' = dw
    /\ \A r \in seen : Listed(watch[r]) \/ Free(watch[r]) # {}
    /\ watch' = [r \in Resource |->
         IF r \in seen
         THEN Handled(watch[r], IF t[r] = None THEN "remove" ELSE "write")
         ELSE watch[r]]
    /\ excused' = (excused \ seen) \cup (Changed(t) \ seen)

\* handle, for a directory: the watch is added, or adding it fails and nobody asks.
AddsWatch(d) ==
  /\ up /\ dirWatch[d] = "reported"
  /\ \E w \in {"yes", "no"} : dirWatch' = [dirWatch EXCEPT ![d] = w]
  /\ UNCHANGED <<mode, up, row, tree, op, watch, repoVars, puller, bounds, histVars>>

\* Submit refuses a second operation on a resource; the callers here only log it.
Submits(r, q) ==
  IF op[r] = None THEN op' = [op EXCEPT ![r] = q] /\ UNCHANGED excused
                  ELSE excused' = excused \cup {r} /\ UNCHANGED op

GitOpsApply(s) == [type |-> "apply", spec |-> s, source |-> "gitops", at |-> "pending"]
GitOpsDelete == [type |-> "delete", spec |-> None, source |-> "gitops", at |-> "pending"]

SetTimer(r, i, st, s) ==
  watch' = [watch EXCEPT ![r].slot[i] = IF st = "idle" THEN Idle
                                        ELSE [@ EXCEPT !.st = st, !.spec = s]]

\* The timer fires: from here on Stop no longer stops it.
Expire(r, i) ==
  /\ up /\ watch[r].slot[i].st = "armed"
  /\ SetTimer(r, i, "fired", None)
  /\ UNCHANGED <<mode, up, row, tree, dirWatch, op, repoVars, puller, bounds, histVars>>

\* The callback removes the map's entry for this file, whoever's it is.
Clear(r, i) ==
  /\ watch[r].slot[i].st = "fired"
  /\ watch' = [watch EXCEPT ![r].slot[i].st = "cleared", ![r].listed = 0]
  /\ UNCHANGED <<mode, up, row, tree, dirWatch, op, repoVars, puller, bounds, histVars>>

ProcessRemove(r, i) ==
  /\ watch[r].slot[i].st = "cleared" /\ watch[r].slot[i].kind = "remove"
  /\ SetTimer(r, i, "idle", None)
  /\ IF mode.deleteOnRemove THEN Submits(r, GitOpsDelete)
     ELSE excused' = excused \cup {r} /\ UNCHANGED op
  /\ UNCHANGED <<mode, up, row, tree, dirWatch, repoVars, puller, bounds, unsynced>>

FaultyMatchesAny(r, f) == row[r] # None

\* matchesStored: the file's spec against the row.
matchesStored(r, f) == row[r] # None /\ row[r].spec = f

\* applyFileIfChanged up to the submission: a missing, broken or matching file
\* is skipped.
NeedsApply(r) == tree[r] \in Spec /\ ~ matchesStored(r, tree[r])

ProcessWrite(r, i) ==
  /\ watch[r].slot[i].st = "cleared" /\ watch[r].slot[i].kind = "write"
  /\ IF NeedsApply(r) THEN SetTimer(r, i, "submit", tree[r]) ELSE SetTimer(r, i, "idle", None)
  /\ UNCHANGED <<mode, up, row, tree, dirWatch, op, repoVars, puller, bounds, histVars>>

ProcessSubmit(r, i) ==
  /\ watch[r].slot[i].st = "submit"
  /\ Submits(r, GitOpsApply(watch[r].slot[i].spec))
  /\ SetTimer(r, i, "idle", None)
  /\ UNCHANGED <<mode, up, row, tree, dirWatch, repoVars, puller, bounds, unsynced>>

-----------------------------------------------------------------------------
(* Operations, as far as they touch the copies.                            *)

\* The operation fails, is canceled, or is answered from the cache.
OpEndsUnsaved(r) ==
  /\ up /\ op[r] # None /\ op[r].at = "pending"
  /\ op' = [op EXCEPT ![r] = None]
  /\ excused' = excused \cup {r}
  /\ UNCHANGED <<mode, up, row, tree, dirWatch, watch, repoVars, puller, bounds, unsynced>>

Goes(r, at) == op' = [op EXCEPT ![r].at = at]

\* Store.SaveWithRefsHash, Store.Delete.
OpSaves(r) ==
  /\ up /\ op[r] # None /\ op[r].at = "pending"
  /\ row' = [row EXCEPT ![r] = IF op[r].type = "delete" THEN None
                               ELSE [spec |-> op[r].spec, source |-> op[r].source]]
  /\ Goes(r, "saved")
  /\ UNCHANGED <<mode, up, tree, dirWatch, watch, repoVars, puller, bounds, histVars>>

\* What writeFile or removeFile leaves at the resource's path.
Mirrored(r) == op[r].spec

\* DiskMirror.writeFile (an atomic rename) or removeFile.
OpMirrors(r) ==
  /\ up /\ op[r] # None /\ op[r].at = "saved"
  /\ Rewrite([tree EXCEPT ![r] = Mirrored(r)])
  /\ IF mode.git THEN Goes(r, "mirrored") ELSE op' = [op EXCEPT ![r] = None]
  /\ UNCHANGED <<mode, up, row, repoVars, puller, bounds, unsynced>>

\* The disk write fails: the row stays, the error is logged, the hook is skipped.
OpMirrorFails(r) ==
  /\ up /\ op[r] # None /\ op[r].at = "saved"
  /\ op' = [op EXCEPT ![r] = None]
  /\ excused' = excused \cup {r}
  /\ UNCHANGED <<mode, up, row, tree, dirWatch, watch, repoVars, puller, bounds, unsynced>>

HeadCommit == local[Len(local)]

\* GitHook: CommitAll takes whatever the directory holds, if it differs from
\* HEAD; without a change there is no commit and no push.
OpCommits(r) ==
  /\ up /\ op[r] # None /\ op[r].at = "mirrored"
  /\ IF tree = HeadCommit.tree
     THEN op' = [op EXCEPT ![r] = None] /\ UNCHANGED local
     ELSE /\ Len(local) < MaxCommits
          /\ local' = Append(local, [tree |-> tree, by |-> "controller"])
          /\ Goes(r, "committed")
  /\ UNCHANGED <<mode, up, row, tree, dirWatch, watch, remote, puller, bounds, histVars>>

\* Histories are compared by their commits.
AncestorOf(a, b) == Len(a) <= Len(b) /\ SubSeq(b, 1, Len(a)) = a

\* The push after a commit; the remote refuses what is not a fast-forward, and
\* a failure is only logged.
OpPushes(r) ==
  /\ up /\ op[r] # None /\ op[r].at = "committed"
  /\ op' = [op EXCEPT ![r] = None]
  /\ remote' \in {remote} \cup (IF AncestorOf(remote, local) THEN {local} ELSE {})
  /\ UNCHANGED <<mode, up, row, tree, dirWatch, watch, local, puller, bounds, histVars>>

\* Repo.Push from the periodic push or the RepoService.
Push ==
  /\ up /\ mode.git
  /\ AncestorOf(remote, local) /\ remote # local
  /\ remote' = local
  /\ UNCHANGED <<mode, up, row, tree, dirWatch, op, watch, local, puller, bounds, histVars>>

-----------------------------------------------------------------------------
(* Pulls.                                                                  *)

Tip == remote[Len(remote)]
Moved == {r \in Resource : Tip.tree[r] # HeadCommit.tree[r]}

\* git pull --ff-only refuses diverged histories, and to overwrite a file that
\* was changed and not committed.
CanPull == /\ AncestorOf(local, remote) /\ local # remote
           /\ \A r \in Moved : tree[r] \in {HeadCommit.tree[r], None}

FastForwards ==
  /\ CanPull
  /\ local' = remote
  /\ Rewrite([r \in Resource |-> IF r \in Moved THEN Tip.tree[r] ELSE tree[r]])

At(p, pc) == up /\ puller[p].pc = pc
PullGoto(p, st) == puller' = [puller EXCEPT ![p] = st]

\* The ticker fires, or a webhook request is accepted; head reads HEAD, or fails
\* and returns "".
PullStarts(p) ==
  /\ At(p, "idle") /\ mode.git
  /\ pulls < mode.pulls /\ pulls' = pulls + 1
  /\ \E before \in {Len(local), 0} :
       PullGoto(p, [NoPull EXCEPT !.pc = "pull", !.before = before])
  /\ UNCHANGED <<mode, up, row, tree, dirWatch, op, watch, repoVars, edits, stops, histVars>>

PullAdvances(p) ==
  /\ At(p, "pull")
  /\ FastForwards
  /\ PullGoto(p, [puller[p] EXCEPT !.pc = "pulled"])
  /\ unsynced' = TRUE
  /\ UNCHANGED <<mode, up, row, op, remote, bounds>>

\* Already up to date; or an error, after which the call returns.
PullDoesNothing(p) ==
  /\ At(p, "pull")
  /\ \/ PullGoto(p, NoPull)
     \/ /\ AncestorOf(remote, local)
        /\ PullGoto(p, [puller[p] EXCEPT !.pc = "pulled"])
  /\ UNCHANGED <<mode, up, row, tree, dirWatch, op, watch, repoVars, bounds, histVars>>

FaultyLastCommitIsOurs(p) == Len(local) > puller[p].before /\ HeadCommit.by = "upstream"

\* PullAndReconcile compares HEAD with what it was before the pull.
HeadAdvanced(p) == Len(local) > puller[p].before

PullDecides(p) ==
  /\ At(p, "pulled")
  /\ IF HeadAdvanced(p)
     THEN /\ PullGoto(p, [puller[p] EXCEPT !.pc = "sync", !.todo = Resource])
          /\ unsynced' = FALSE
     ELSE PullGoto(p, NoPull) /\ UNCHANGED unsynced
  /\ UNCHANGED <<mode, up, row, tree, dirWatch, op, watch, repoVars, bounds, excused>>

\* The read after the pull fails: "" counts as nothing new, whatever was pulled,
\* and a walk that was due is not made.
PullLosesHead(p) ==
  /\ At(p, "pulled")
  /\ PullGoto(p, NoPull) /\ unsynced' = (unsynced /\ ~ HeadAdvanced(p))
  /\ UNCHANGED <<mode, up, row, tree, dirWatch, op, watch, repoVars, bounds, excused>>

\* Sync: one file of the walk, read and compared.
SyncFile(p, r) ==
  /\ At(p, "sync") /\ r \in puller[p].todo
  /\ LET rest == [puller[p] EXCEPT !.todo = @ \ {r}] IN
     PullGoto(p, IF NeedsApply(r)
                 THEN [rest EXCEPT !.pc = "submit", !.cur = r, !.spec = tree[r]]
                 ELSE rest)
  /\ UNCHANGED <<mode, up, row, tree, dirWatch, op, watch, repoVars, bounds, histVars>>

SyncSubmit(p) ==
  /\ At(p, "submit")
  /\ Submits(puller[p].cur, GitOpsApply(puller[p].spec))
  /\ PullGoto(p, [puller[p] EXCEPT !.pc = "sync", !.cur = None, !.spec = None])
  /\ UNCHANGED <<mode, up, row, tree, dirWatch, watch, repoVars, bounds, unsynced>>

SyncEnds(p) ==
  /\ At(p, "sync") /\ puller[p].todo = {}
  /\ PullGoto(p, IF mode.prune THEN [puller[p] EXCEPT !.pc = "onDisk"] ELSE NoPull)
  /\ UNCHANGED <<mode, up, row, tree, dirWatch, op, watch, repoVars, bounds, histVars>>

\* Prune: first the files, then the rows, then one resource after the other.
PruneOnDisk(p) ==
  /\ At(p, "onDisk")
  /\ PullGoto(p, [puller[p] EXCEPT !.pc = "list", !.todo = {r \in Resource : tree[r] = None}])
  /\ UNCHANGED <<mode, up, row, tree, dirWatch, op, watch, repoVars, bounds, histVars>>

Protected(r) == r \in mode.children \/ row[r].source = "cli"

PruneList(p) ==
  /\ At(p, "list")
  /\ PullGoto(p, [puller[p] EXCEPT !.pc = "prune",
                    !.todo = {r \in @ : row[r] # None /\ ~ Protected(r)}])
  /\ UNCHANGED <<mode, up, row, tree, dirWatch, op, watch, repoVars, bounds, histVars>>

PruneDelete(p, r) ==
  /\ At(p, "prune") /\ r \in puller[p].todo
  /\ Submits(r, GitOpsDelete)
  /\ PullGoto(p, [puller[p] EXCEPT !.todo = @ \ {r}])
  /\ UNCHANGED <<mode, up, row, tree, dirWatch, watch, repoVars, bounds, unsynced>>

PruneEnds(p) ==
  /\ At(p, "prune") /\ puller[p].todo = {}
  /\ PullGoto(p, NoPull)
  /\ UNCHANGED <<mode, up, row, tree, dirWatch, op, watch, repoVars, bounds, histVars>>

-----------------------------------------------------------------------------
(* People, and the process.                                                *)

Edit == edits < mode.edits /\ edits' = edits + 1

\* Somebody edits, breaks or removes a file of the mirror directory.
UserEdits(r, f) ==
  /\ Edit /\ f # tree[r]
  /\ Rewrite([tree EXCEPT ![r] = f])
  /\ UNCHANGED <<mode, up, row, op, repoVars, puller, pulls, stops, unsynced>>

\* A commit is pushed to the remote by somebody else.
UpstreamCommits(r, f) ==
  /\ Edit /\ mode.git /\ f # Tip.tree[r] /\ Len(remote) < MaxCommits
  /\ remote' = Append(remote, [tree |-> [Tip.tree EXCEPT ![r] = f], by |-> "upstream"])
  /\ UNCHANGED <<mode, up, row, tree, dirWatch, op, watch, local, puller, pulls, stops, histVars>>

\* Apply or Delete from the CLI or the UI, accepted.
ClientSubmits(q) ==
  /\ Edit /\ up /\ op[q.res] = None
  /\ op' = [op EXCEPT ![q.res] = [type |-> q.type, spec |-> q.spec, source |-> "cli",
                                  at |-> "pending"]]
  /\ UNCHANGED <<mode, up, row, tree, dirWatch, watch, repoVars, puller, pulls, stops, histVars>>

\* RepoService.Pull: advisory, nothing is reconciled.
RepoPull ==
  /\ up /\ mode.git
  /\ FastForwards
  /\ UNCHANGED <<mode, up, row, op, remote, puller, bounds, unsynced>>

\* Timers, goroutines and running operations are gone; an operation that was
\* not claimed stays pending.
Crash ==
  /\ up /\ stops < mode.stops
  /\ up' = FALSE /\ stops' = stops + 1
  /\ op' \in {o \in [Resource -> Oper \cup {None}] :
       \A r \in Resource : \/ o[r] = None
                           \/ o[r] = op[r] /\ op[r].at = "pending"}
  /\ watch' = [r \in Resource |-> Quiet] /\ dirWatch' = [d \in Dirs |-> "no"]
  /\ puller' = [p \in Puller |-> NoPull]
  /\ excused' = Resource /\ unsynced' = FALSE
  /\ UNCHANGED <<mode, row, tree, repoVars, edits, pulls>>

\* DiskMirror.Reconcile: rows without a file get one again; files without a row
\* and files that differ from theirs are left alone.
Reconciled == [r \in Resource |->
  IF row[r] # None /\ tree[r] = None THEN row[r].spec ELSE tree[r]]

\* The mirror is reconciled before the dispatcher and the watcher start; Start
\* walks the tree and watches every directory it finds, empty ones too.
Restart ==
  /\ ~ up /\ up' = TRUE
  /\ tree' = Reconciled
  /\ dirWatch' \in {w \in [Dirs -> {"no", "yes"}] :
       \A d \in Dirs : ~ Without(Reconciled, d) => w[d] = "yes"}
  /\ excused' = {r \in Resource : /\ Reconciled[r] # None
                                  /\ ~ matchesStored(r, Reconciled[r])}
  /\ UNCHANGED <<mode, row, op, watch, repoVars, puller, bounds, unsynced>>

-----------------------------------------------------------------------------

Watches(r, i) == \/ Expire(r, i) \/ Clear(r, i) \/ ProcessRemove(r, i)
                 \/ ProcessWrite(r, i) \/ ProcessSubmit(r, i)

Operates(r) == \/ OpEndsUnsaved(r) \/ OpSaves(r) \/ OpMirrors(r) \/ OpMirrorFails(r)
               \/ OpCommits(r) \/ OpPushes(r)

Pulls(p) == \/ PullAdvances(p) \/ PullDoesNothing(p) \/ PullDecides(p) \/ PullLosesHead(p)
            \/ \E r \in Resource : SyncFile(p, r) \/ PruneDelete(p, r)
            \/ SyncSubmit(p) \/ SyncEnds(p)
            \/ PruneOnDisk(p) \/ PruneList(p) \/ PruneEnds(p)

Next ==
  \/ \E r \in Resource, i \in Slot : Watches(r, i)
  \/ \E r \in Resource : Operates(r)
  \/ \E d \in Dirs : AddsWatch(d)
  \/ \E p \in Puller : PullStarts(p) \/ Pulls(p)
  \/ \E r \in Resource, f \in EditedTo : UserEdits(r, f)
  \/ \E r \in Resource, f \in Upstream : UpstreamCommits(r, f)
  \/ \E q \in Client : ClientSubmits(q)
  \/ Push \/ RepoPull \/ Crash \/ Restart

GitOpsSpec == Init /\ [][Next]_vars
-----------------------------------------------------------------------------
(* Properties.                                                             *)

Settled ==
  /\ up
  /\ \A r \in Resource : op[r] = None /\ \A i \in Slot : watch[r].slot[i].st = "idle"
  /\ \A p \in Puller : puller[p].pc = "idle"

\* Rows and files are changed by goroutines that do not lock each other out.
\* Yet once timers, operations and pulls have come to rest, a manifest file and
\* its row agree, or both are absent, unless the LATEST change of that file was
\* given up: its directory had no watch (then or, for a nested directory that
\* was never reported, until a restart), the process was down, the submission
\* was refused because an operation was in flight, the operation or the disk
\* write failed, or removals are ignored.
SettledAgree ==
  Settled =>
    \A r \in Resource \ excused :
      tree[r] = Broken \/ (IF row[r] = None THEN tree[r] = None
                                           ELSE tree[r] = row[r].spec)

\* "onChange runs only on a real HEAD advance": the converse is what matters.
\* The ticker and webhook requests read HEAD, pull and read HEAD again without
\* holding the lock in between, while operations commit and RepoService pulls.
\* Still, when one of them has advanced HEAD, some goroutine is about to walk
\* the tree, unless the process stopped or git could not tell HEAD after a pull,
\* which the code takes for "nothing new".  (What RepoService.Pull brings is not
\* walked: it is advisory.)
PulledIsSynced == unsynced => \E p \in Puller : At(p, "pulled") /\ HeadAdvanced(p)

\* watcher.go, Start: "New subdirs get picked up on-the-fly by the event loop
\* (Create on a dir triggers a fresh Add)".  MCSubdirsWatched.cfg shows that the
\* code does not keep this: a nested directory may never be reported.
SubdirsAreWatched ==
  up /\ (\A d \in Dirs : dirWatch[d] # "reported") =>
    \A d \in Dirs : Without(tree, d) \/ dirWatch[d] = "yes"
===============================================================================
