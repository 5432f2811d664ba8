# openctl: a TLA+ verification project

openctl is a declarative infrastructure tool. Users write manifests; a
controller stores what is desired, queues every change as an *operation*, and
drives *providers* (Proxmox VMs, k3s clusters, external plugins) until the world
agrees. This directory models the parts of the controller where correctness is
hard: the operations table, the dispatcher that drains it and the dependency
graph engine under it; two-way GitOps; the migration of a VM between
controllers; the k3s provider, which builds, changes and upgrades clusters out of
VMs in many steps that can each be the last; the drift reconciler; the plugin
protocol and the k8s plugin behind it; and the watch streams with the page of the
web UI that they feed.

Paths below are relative to the repository root.

## 1. Inventory

### Components, their state and their operations

| component | code | state | operations |
|---|---|---|---|
| Operations store | `internal/controller/operations/operations.go` | SQLite table of operations: status, type, resource, manifest, times | Submit, ClaimNextPending, Complete, CancelPending, MarkRunningInterrupted, gcResource; child rows, labels |
| Graph engine | `operations/graph.go` | locals of one call: ready list, indegree counters, in-flight count, first error | RunGraph |
| Dispatcher | `operations/dispatcher.go` | the `running` and `userCancelled` maps, the stop flag, one loop goroutine | drain, execute, CancelRunning, Stop, ApplyManifest, DeleteManifest |
| Cross-op scheduling | `operations/crossop.go` | none (derived from a batch) | crossOpEdges, crossOpAcyclic |
| Reference resolution | `internal/controller/refs/refs.go` | none (reads live resources) | Resolve, Collect |
| Desired-state store | `internal/controller/manifests/store.go`, `hash.go` | SQLite table `applied_manifests`: spec, `input_hash`, `refs_hash` | SaveWithRefsHash, LoadHashes, Delete |
| Composite children | `operations/childdispatch.go`, `childop.go`, `refgraph.go` | child rows | ApplyChild, DeleteChild, BeginChild, EndChild |
| k3s provider | `internal/controller/providers/k3s` | a state file per cluster, node and agent, a CA bundle; what is on the nodes | Plan, Apply (create, count-up, count-down, respec), Delete |
| Rolling upgrade, node agent | `providers/k3s/cluster_upgrade*.go`, `pkg/k3s/agent` | binary and service on every node | runClusterUpgrade, rollingUpgrade, runUpgrade, Info |
| Proxmox provider | `internal/controller/providers/proxmox`, `pkg/proxmox/handler` | VMs | Apply (create, resize), Delete, MigrationIdentity |
| Reconciler | `internal/controller/reconciler` | drift and back-off maps | tick, tryAutoApply |
| GitOps | `internal/controller/manifests/watcher.go`, `disk.go`, `reconcile.go`, `prune.go`, `git.go` | files of the mirror, debounce timers and their map, commits, the remote | handle, process, Sync, Reconcile, Prune, CommitAll, Push, Pull, PullAndReconcile |
| Migration | `manifests/migration.go`, `server/migration.go` | release fences, `managementMu` | ExportResource, AdoptResource, ForgetResource |
| RPC server | `internal/controller/server` | a snapshot and an error count per watch stream | Apply, Delete, CancelOperation, Watch, reads |
| Plugin protocol | `pkg/pluginproto`, `internal/controller/providers/external` | pending calls and their channels, two pipes, a reader goroutine; a state blob per resource (`provider_state`) | Spawn, Handshake, call, readLoop, failAll, Close; Apply, Get, Delete of the adapter |
| k8s plugin | `plugins/k8s` | what is in the clusters; its blob lists it | apply and delete of Manifest, Kustomize, Platform, HelmRelease |
| Web UI | `ui/src` | rows, the active abort controller of a page | switchTo, run, mergeRow, onDestroy |
| Terraform host, Cloudflare plugin, access control, secrets, storage, CLI | `providers/tfhost`, `plugins/cloudflare`, `auth`, `secrets`, `storage`, `internal/cli` | sessions, users, blobs; none that the modelled parts depend on | |

### How they interact

RPC handlers, the git watcher and the reconciler call `Submit` and then wake the
dispatcher. One goroutine claims rows; by default it claims everything pending,
builds a graph from the `$ref`s between the claimed operations and hands it to
`RunGraph`, which runs every operation's `execute` in a goroutine of its own.
`execute` resolves `$ref`s against live resources, may answer from the cache in
the desired-state table, calls the provider, saves the manifest and records the
outcome. `CancelOperation` touches either the table (a pending row) or the
dispatcher's maps (a running one). At start-up the rows that a previous process
left running are swept to `interrupted` before the dispatcher starts; at
shutdown the root context is canceled and `Stop` waits for the loop. A composite
provider applies its children through the dispatcher and `RunGraph` again.

A saved manifest is mirrored to a file and committed to git. With GitOps on, file
events, after a debounce, and pulls become operations again, so the loop through
row, file, commit and event must close. Migration calls lock out requests and
runtime actions of the same process with `managementMu`, and operations only
through a check that none is in flight. The upgrade of a cluster is a runtime
action: it runs beside operations.

The reconciler reads provider and rows on a ticker and submits like any client.
An external provider is a process behind two pipes that all goroutines share; it
serves one request after the other, gets the blob of the resource with each and
returns a new one, which the adapter stores. Watch streams poll the same
provider's `List` and send differences; a page of the UI merges them into what a
first list gave it.

### What is hard

* **Ownership of a row.** `Complete` writes its status whatever the row says.
  Cancel, sweep, prune, claim and complete touch rows from different goroutines
  and processes.
* **Three separate writes.** Provider effect, saved manifest and recorded outcome
  are not atomic, and the first two are cancelable while the third is not.
* **Stale reads.** `$ref` values and cache hashes are read, then used after a long
  call.
* **Order under concurrency.** Edges, counters, a concurrency limit, results in any
  order, an error or a cancellation in the middle.
* **Copies.** Row, file and commit of a manifest are written one after the other,
  by goroutines that do not lock each other out, and watched meanwhile.
* **No transaction across machines.** Adopting here and forgetting there are two
  calls; a cluster is VMs, installs, agents and five kinds of files. Whatever step
  was the last one, the next operation starts from what it left.
* **Files that stand for machines.** The k3s provider plans from state files and
  skips what a file says is done.
* **Given up is not undone.** A call that is canceled leaves its request in the pipe
  or in the plugin, whose late reply, and late effect, meet newer calls.
* **Blobs that stand for objects.** What a plugin has made is known only to a blob
  that is stored when the whole request has succeeded, and by reads too.
* **Reads at different moments.** The reconciler compares, and the UI shows, things
  that were read before something else changed.
* **Termination.** `$ref` cycles, shutdown while work is in flight, rows without
  an owner after a crash.

The hazards, line by line, with the properties that cover them, are in
`PROJECT.json`. The properties that make each component correct are listed with
the runs in section 4.

## 2. Modules

| module | models | relation to the others |
|---|---|---|
| `RunGraph` | `operations.RunGraph` | stand-alone: any caller, any graph |
| `TaskGraph` | what a caller of RunGraph may rely on | implemented by `RunGraph` (`ImplementsTaskGraph`) |
| `MCRunGraph` | TLC instance, reference definition of "on or behind a cycle" | extends `RunGraph` |
| `OpStore` | the operations table: one operator per Store call | used by `Dispatcher` |
| `OpLifecycle` | the life of an operation as a client sees it | implemented by `Dispatcher` (`ImplementsOpLifecycle`) |
| `Dispatcher` | dispatcher, cross-op scheduling, execute, cancellation, process life | composes `RunGraph` and `OpStore` |
| `MCDispatcher` | TLC instances | extends `Dispatcher` |
| `RunGraphProofs`, `DispatcherProofs`, `GitOpsProofs`, `MigrationProofs`, `PluginClientProofs`, `KubeObjectsProofs`, `ResourceWatchProofs`, `ClusterProofs` | theorems | each extends the module it is about |
| `GitOps`, `MCGitOps` | watcher, mirror, startup reconcile, prune, git | stand-alone; operations reduced to what they do to row, file and commit |
| `Migration`, `MCMigration` | export, adopt, forget, the fence, and everything that manages the VM meanwhile | stand-alone; two controllers around one VM |
| `ProxmoxVM` | a VM and its row, as ApplyManifest and the Proxmox provider change them | used by `Cluster` |
| `Cluster`, `MCCluster` | the k3s provider's Cluster and its rolling upgrade | extends `ProxmoxVM` |
| `Reconciler`, `MCReconciler` | reconcile passes, drift state, backoff, auto-apply | stand-alone; operations reduced to provider effect and save, strangers |
| `PluginClient`, `MCPluginClient` | calls, pipes, reader and life of a plugin | stand-alone; any callers |
| `KubeObjects`, `MCKubeObjects` | adapter, stored blob and the k8s plugin | stand-alone; relies on what `PluginClient` shows of answers and order |
| `ResourceWatch`, `MCResourceWatch` | Watch of a kind and the list page of the UI | stand-alone; operations reduced to effect and save, strangers |

### RunGraph

State is the call's locals: `tasks` and `deps` (the arguments), `limit`,
`indegree`, `ready`, `firstErr`, `stopLaunch`, and `state`, which says for each
task whether it waits, is inside `Run`, is blocked on the results channel, or
has been received. `inFlight` and `completed` are derived from it. The loop's
locals are private to its goroutine, so a receipt with everything up to the next
receipt is one action (`ReceiveAndStop`, `ReceiveAndLaunch`); what runs
concurrently are the tasks (`TaskReturns`) and the cancellation (`CancelCtx`).
`CallRejected`, `CallCanceled` and `CallStarts` are the three ways in, `Return`
the way out. IDs are numbers because the code only compares them. A `DependsOn`
that names a task twice is a set here: the code would count it twice up and
twice down in the same receipt.

### OpStore

Store transactions are `BEGIN IMMEDIATE` or single statements, so each call maps a
table to a table. Operations are numbered in submission order; the number is
both ID and `submitted_at`. `submitted_at` is ordered as RFC3339Nano *text*,
which drops trailing zeros, so an instant on a whole second sorts after the rest
of that second; `SortKey` models that, `Second` being the number of instants per
second. `Submit`'s prune runs after the commit under the request's context and
may fail (`pruned`); `Complete`'s runs under a detached context and is part of
the same step.

### Dispatcher

* `loop` is where the dispatcher goroutine is (`claim`, `graph` inside RunGraph,
  `exec` in the FIFO mode, `wait` in its select, `down`); `batch` is what it has
  claimed; `pc` is where each `execute` call is.
* `manifest` is the desired-state table, `live` the provider's reality. Both hold
  *contents*: a manifest and the values its `$ref`s had. `input_hash` and
  `refs_hash` identify exactly these two, so equal hashes are equal parts.
* `Begin` registers and looks the provider up; `ServeFromCache`, `ResolveRefs`,
  `ResolveFails` are the read phase; `ProviderOk`, `ProviderFails` the provider
  call (a failed call may have taken effect, a canceled one may still succeed);
  `ChildStep` is what the provider of a composite does through `ApplyManifest` and
  `DeleteManifest` before it returns; `SaveManifest` the write of the desired state, which fails if the context is
  canceled; `CompleteOp` the outcome; `Leave` the deferred clean-up and return.
* `Submit`, `CancelPending`, `CancelRunning` are the clients. `Shutdown`,
  `Exit`, `Crash` and `Restart` are the process; `Restart` sweeps first.
* `asked`, `began` and `plan` are history for properties. `plan` is what the batch
  was when its edges were computed: whether it had a cycle, what it deletes, and which
  children its composites have. Later rows do not say: Submit's prune can remove the row of an operation of the
  batch that has ended.

A composite changes resources that have no operation and no edge. `Emits` gives its
children and their manifests; any of them may be applied or deleted at any moment of the
call, as often as one likes, and its row written with it unless the context is
canceled (a composite's delete removes its children from the provider only,
`k3s/provider.go:721`). Which children are touched, and in which order, is the subject of
`Cluster`. So a child's row and its live state are not its own operation's alone, and
the properties that rest on that say so.

Merges, and why they are sound: a child's call and the save of its row are one step,
and a call after which the row is not saved is among its outcomes. `execute` resolves
and checks the cache once itself and again inside `ApplyManifest`; on a miss the first
check has no effect, so one read step stands for both. `terminalOutcome` reads the cancel flag right
after the failing call; both are one step. Row decoding and `unknown op type`
cannot fail for rows that `Submit` accepted. A failing secret resolution is a
provider call that fails without effect. Database calls fail only because their
context is canceled; a failing disk is outside the model. Labels, log output,
result JSON and child rows are left out (the dispatcher always injects a child
dispatcher, so on this path children have no rows). Both settings of
`OPENCTL_CROSS_OP_SCHEDULING` are in the model (`CrossOp`).

### GitOps

* `row`, `tree` and `local`/`remote` are the three copies. `tree` holds, for each
  resource, the spec in its file, `Broken` (not a manifest) or nothing.
* `watch` holds the debounce timers of a file. A timer is armed, has fired (from
  then on `Stop` does not stop it), has cleared the pending map, or holds a spec
  that it has read and not yet submitted; `listed` is the map's entry, which a
  fired timer deletes whoever's it is. `Slot` bounds the timers of one file; a new
  timer is any free one.
* `dirWatch` says of a directory whether it is watched. The watcher adds a directory
  when its parent reports it, and `MkdirAll` makes three levels at once; so a new
  directory is watched with its first file, or later (`AddsWatch`, which can fail), or,
  when it was made before its parent had a watch, never until a restart. `Rewrite` is
  every change of the tree with its events: what changes in a directory without a watch
  raises none, however often. `Expire`, `Clear`, `ProcessRemove`,
  `ProcessWrite`, `ProcessSubmit` are the callback, cut where it unlocks, reads
  and submits.
* An operation saves (`OpSaves`), writes the file (`OpMirrors`), commits
  (`OpCommits`) and pushes (`OpPushes`), or ends without saving; each of these
  can fail in the way the code survives.
* `puller` is the ticker and a webhook request inside `PullAndReconcile`: HEAD
  before, pull, HEAD after, walk of the tree file by file, then prune (files,
  rows, deletes). Either read of HEAD can fail and returns nothing: before the pull
  (`PullStarts`) this makes every pull look like an advance, after it
  (`PullLosesHead`) like none. `RepoPull` is the advisory pull of the RPC, whose
  outcome nobody walks.
* `Crash` keeps rows, files, commits and unclaimed operations; `Restart` runs
  `Reconcile` first.
* `excused` collects the resources whose *latest* change the code has knowingly
  given up, `unsynced` that a `PullAndReconcile` has advanced HEAD, the walk that is due
  has not begun and has not been lost to a failed read; a crash ends the matter, because
  the start that follows reconciles.
* The repository has a first commit and a tracking branch at the start. `EnsureInit` can
  leave one that has neither; then every pull fails until the first commit. A queue
  overflow of fsnotify is not modelled.

### Migration

* Per controller: `row`, `release` (the fence, with its digest), `file`, the VM's
  own operation and a composite's step on it, a running action, what the
  auto-reconciler has loaded, and `rpc`, the call that holds `managementMu`.
  `vm` is the VM's identity; `bundles` are the files operators hold, which never
  expire.
* A call takes the lock (`ExportStarts`, `AdoptStarts`, `ForgetStarts`), reads the
  provider (`Verifies`, `Observes`), commits one transaction (`ExportSnapshots`,
  `Adopt`, `Forget`), and then writes the mirror and replies (`Replies`); it can
  fail or be cut off at each point, and its reply can be lost.
* `Request`, `InvokeAction`, `ReconcilerLoads`/`Submits`, `GitOpsSubmits` and
  `ChildStarts` are everything else that manages the VM, each with exactly the
  locks and fence checks of its code path.
* `Restarts` writes a file that is missing from its row before anything else runs, as
  `DiskMirror.Reconcile` does; a start at which that fails is no start.
* A digest determines its manifest, so a bundle holds the manifest. Owner labels
  stand for all reasons why `migrationStandalone` refuses a resource.

### ProxmoxVM and Cluster

* `ProxmoxVM` has one operator per step that can be the last: clone, start, resize,
  save the row, stop, delete, delete the row. Size stands for the manifest of a VM,
  because CPU and memory are what an apply changes on a VM that exists; it does not
  start one.
* `Cluster` adds what is on each node's disk (`k3s`: which cluster, which version,
  whether the service runs; `agent`), the files that claim it (`nodeState`,
  `agentState`, `ca`, `state`) and the operation's list of steps `todo`.
  `applyClusterViaPlan` and `applyExisting` compute that list as the code does:
  the graph in its serial order (the default concurrency), or removals,
  additions, resizes and the rewrite of the state file. Every step is an action;
  `Fails` ends an operation anywhere. `Those` and `OneByOne` give the place of every
  element of such a list directly: the loops that append to a slice, without recursion.
  A node to resize that has nowhere to join is six steps that cannot be taken.
* The installer keeps a cluster that it finds on the disk, and `k3s uninstall` is
  best effort. Addresses are static, so the agent step of a node that has its agent
  file does not wait for the VM. The removal of the state file and of the directory
  with the CA bundle is one step (a bundle that is left over between the two is
  overwritten by the next creation). `VMLost` is somebody deleting a VM in
  Proxmox.
* `upgrade` is the rolling upgrade: it reads the versions first, then per node
  skips, or swaps the binary (`UpgradeSwaps`: the old service runs on), stops the
  service (`UpgradeStops`), starts it (`UpgradeRestarts`) and checks the version
  (`UpgradeChecks`). Version is that of the binary on disk, as `Info` reports it. A
  restart that returned no error may leave a service that exits; `died` remembers these
  nodes.
* `Sound`, `Gap`, `calm` and `unlisted` are not code: they name the situations the
  properties except, and each was found to be necessary (section 4).

### Reconciler

* `observed`, `stored` and `op` are the world: what the provider has, the row, the
  operation in flight. `todo` and `check` are the pass; `check` carries what Get
  and Load have returned from one step to the next, because anything can happen in
  between. `GetFinds`/`GetMisses`/`GetFails`, `Loads`/`LoadsNothing` and
  `AutoSubmits`/`SubmitRefused` are `reconcileOne`, cut at its three calls.
* Time is counted in passes. The backoff starts at `MinBackoff`, doubles up to
  `MaxBackoff`, and `wait` goes down with each pass. `tries` counts the same from
  the outside, for `BackoffKept`.
* A manifest is a spec and whether it has the annotation; the cache compares specs
  (`Hash` leaves annotations out) and does not serve composites.
* An apply of an atomic resource makes it what the manifest says. A composite plans
  from its own record of its children and not from what Get counts, so that an apply of
  one that exists may leave any part of its drift (`Outcome`), and it refuses
  removals and respecs that the annotations do not allow, as often as it is asked
  (`ComposerRefuses`).
* A call of Submit is refused when the resource has an operation in flight. A full
  disk and a released resource refuse it too and are left out (`Migration` has the
  latter). A provider that projects specs before comparison (`DriftSpecs`) is taken
  to have done so.
* The comparison is equality of what the manifest manages.

### PluginClient

* Per call: `pc` (registered, holding `writeMu`, waiting, returned), its `id`, its
  `result`. Sections under `mu` are steps; the write, and every send to a channel,
  blocks as long as pipe or channel is full.
* `ReaderTakes`, `ReaderDelivers` and `FailAll` are the reader goroutine,
  `PluginReads` to `PluginReplies` the plugin's loop. `Faults` is what can befall
  the process: it dies, hangs, or prints something that is no reply.
* `main` is the controller around it: handshake, configuration, serving, closing.
  The end of the root context kills the process, as `exec.CommandContext` does.
* Calls without a timeout of their own end with the operation's or the root
  context. Which method a call is for does not matter to the client, so List, Plan,
  DryRun and actions are calls like the others.

### KubeObjects

* `things` says which spec last wrote a place (cluster, namespace, item), `state`
  is the stored blob. An operation loads, sends, is answered and saves; so does
  each Get, beside it. `queue` and `work` are the requests on their way and in the
  plugin, with whoever still waits for the answer.
* The plugin places one item at a time, then removes one at a time what the prior
  blob lists and the spec does not (`Pruned`); it can fail after each. What a blob
  lists is known by `objectRef.id()`, which has the API version in it (`Kept`); where an
  object is in the cluster does not depend on that version. So an object whose version
  alone has changed is placed, and then pruned (`Renamed`).
* `Restarts` replaces controller and plugin; the old plugin may finish the request
  it is in (`ghost`).
* `astray` collects what the code itself cannot know of any more.

### ResourceWatch

* `visit` is one element per call of `switchTo`, with its list request and its
  stream. The signal of a visit is the number of the visit whose controller it has:
  a later visit aborts it. `switchTo` reads `activeController` after its await, so
  the signal is that of the visit which is the last one by then (`StartsRun`).
* A poll lists, filters by the rows that exist now, emits name by name, and ends
  with the deletions and a new snapshot; breaks, changes and aborts come between.
* `Unauthorized` is an expired session: list and stream are refused with 401, and the
  loop of that visit ends for good (stage `refused`).
* A snapshot holds hashes of specs: status and drift are sent along and not hashed.
* Simplifications: an event is merged in the step that sends it, so events in flight are
  only lost (`Cut`), never late; the list of the provider, the managed rows and the
  drift are read at one moment; the kinds are those whose resources are managed by a row
  of their own, so that the observed-only kinds, and children that are shown because
  of their owner's row, are left out.

## 3. Plan

1. Done: `RunGraph`, `TaskGraph`, `OpStore`, `Dispatcher`, `OpLifecycle`, their
   runs, and the theorems of section 5.
2. Done: `GitOps`, `Migration`, `ProxmoxVM`, `Cluster`, their runs and mutants.
3. Done: `Reconciler`, `PluginClient`, `KubeObjects`, `ResourceWatch`, their runs and
   mutants.
4. Done: the proofs of section 5 for `RunGraph`, `Dispatcher`, `GitOps`,
   `Migration`, `PluginClient`, `KubeObjects`, `ResourceWatch` and `Cluster`: every
   invariant and action property of their runs, and both refinements.
5. Open: what section 5 lists as only model-checked.

## 4. Runs

| run | cfg | result |
|---|---|---|
| `rungraph` | `MCRunGraph.cfg` | passes, 17 053 distinct states |
| `dispatcher` | `MCDispatcher.cfg` | passes, 2 218 362 distinct states |
| `dispatcher_live` | `MCDispatcherLive.cfg` | passes, 125 643 distinct states |
| `reapply_converges` | `MCReapplyConverges.cfg` | violated, see below |
| `gitops` | `MCGitOps.cfg` | passes, 5 619 959 distinct states |
| `migration` | `MCMigration.cfg` | passes, 1 182 786 distinct states |
| `cluster` | `MCCluster.cfg` | passes, 1 018 703 distinct states |
| `upgrade_marches` | `MCUpgradeMarches.cfg` | violated, see below |
| `reconciler` | `MCReconciler.cfg` | passes, 817 667 distinct states |
| `plugin_client` | `MCPluginClient.cfg` | passes, 223 895 distinct states |
| `kube_objects` | `MCKubeObjects.cfg` | passes, 1 391 879 distinct states |
| `resource_watch` | `MCResourceWatch.cfg` | passes, 660 454 distinct states |

The type invariants of `RunGraph` and `Dispatcher` are among the properties of their
runs. Those of the other modules hold in the same configurations and are left out of
them; those of `GitOps`, `Migration`, `PluginClient`, `KubeObjects` and
`ResourceWatch` are part of the invariants proved in section 5.

**rungraph.** Every dependency relation over up to three tasks, cycles, self-loops
and unknown names included, concurrency 0 (clamped to 1) and 2, any outcomes, a
cancellation at any point. Three tasks are enough for a diamond's edge, a chain,
a task behind a cycle and one task waiting while two run. Checked:
`DependenciesFirst`, `WithinLimit`, `SerialRunsLowestReady`, `ReturnIsAccurate`
("unschedulable" is the largest set of tasks each of which waits for another one of
it; that these are the tasks on or behind a cycle of the transitive closure is an
`ASSUME` that TLC evaluates for all graphs),
`NoLaunchAfterFailure`, `CallReturns`, and that `RunGraph` implements `TaskGraph`.

**dispatcher.** Three operations on a composite a with a child c and on a resource b
that refers to both; deletes, cross-op scheduling (the default), one shutdown or crash,
retention 1. (The FIFO mode and batches with a cycle are in `dispatcher_live` and in the
proofs of section 5; with the FIFO mode this run has 3 172 174 states, and passes.) Three operations allow "applied before, then two in one batch" and
a prune, also of a row whose batch still runs; one stop allows every cut between two steps and the recovery from it.
v1 and v2 are interchangeable, hence the symmetry set. Checked:

* `OneInFlightPerResource`: the fail-fast rule survives everything;
* `ExecutingRowIsRunning`: why `Complete`'s unguarded update is harmless;
* `NoOrphanRunning`: a running row always has somebody working on it;
* `DependentsWait`: an operation waits for those of its batch that apply what it refers
  to, in batches without a cycle;
* `RefsFresh`: the values that an apply has read are still true while the provider works
  with them and when they are saved; a delete in the same batch, a composite (of the
  batch, or the apply itself) whose child the resource is, and a cycle are excepted;
  without the second exception TLC shows a composite's step that makes a value stale;
* `CanceledOnlyByUser`: a shutdown is never recorded as a cancellation;
* `RetentionBound`: the cap, plus one row per sweep;
* `SavedUnlessCanceled`: success means saved, except under cancellation and for a
  resource that a composite of the same batch has as a child;
* `ImplementsOpLifecycle`: admitted once, started once, ended once, then only
  forgotten.

**dispatcher_live.** Two operations on an atomic, a composite (never cached) and
an unserved resource, forced manifests, cycles, two stops. `EventuallyTerminal`
and `ShutdownCompletes` under the fairness below.

**gitops.** One resource with two specs and a broken one, two timers per file, two
pulling goroutines; four configurations: the watcher with and without
`deleteOnRemove` (three edits or requests and a crash), and git as source with
prune, with and without owner labels (two edits or upstream commits, up to two
pulls). Resources do not interact except through a commit of the whole directory,
so one is enough for the races; two timers are what one overlap needs, and three
edits what a write, a removal and a restoration need. The pulling goroutines run the
same code, hence the symmetry set.

* `SettledAgree`: when timers, operations and pulls rest, file and row agree, or
  the *latest* change of the file was given up: for a reason that the code logs, or
  because its directory had no watch. A directory that was made nested may have none
  until the next start, and every change in it is then given up without a log line (see
  `SubdirsAreWatched`).
  The interleavings it has to survive are an event
  whose timer has fired and cannot be stopped, an own write seen before or after
  its row, and a pull, a prune and a client at the same time.
* `PulledIsSynced`: although HEAD is read, moved and read again without a lock,
  each advance by a `PullAndReconcile` is seen by the goroutine that made it, or by
  another one, and so walked. Only where HEAD cannot be read after a pull is the walk lost
  (`git.go:443-446`).

**migration.** Two controllers, two manifests and a composite's, two identities.
Six scenarios, because all interference at once is too large: five calls with a
failing mirror write; three calls with two requests and an action; with the
auto-reconciler; with a composite's step; with a restart that may switch GitOps;
and requests and composite's steps that overlap on one controller.
Three calls are a complete handover, five allow a repetition of two of them.
Controllers, manifests and identities are interchangeable.

* `ReleasedIsUnmanaged`: from the release until an adoption the controller has no
  row, no operation and no action for the VM, whatever was in progress.
* `HandedOver`: as long as operators forget only what they have seen adopted
  elsewhere, with a bundle that is not older than the last adoption here, the VM
  always has a controller. The second condition is necessary: see
  `MatchingRetriesAreSafe`.
* `MirrorFollows`: outside the window of a call or an operation the file is the row,
  unless that write failed and nobody has repeated the call. An operation that
  saves inside the window of a call, or of another operation on the same VM (a
  composite's step beside the VM's own), is excepted: no lock keeps them apart, and
  the later write of a file may be that of the earlier row.

**cluster.** Up to three control planes and two workers in two sizes; four
scenarios: three creations or deletions with different manifests, three
convergences that grow, shrink, resize and force, faults (an unsaved row, a failed
read, a lost VM), and two upgrades that may overlap with operations. Three control
planes are the smallest cluster with a majority to lose, and the third operation
is the one that finds what two unfinished ones have left. An operation may end
after every step.

* `Converged`: an apply that succeeds, and that began with files that told the
  truth, leaves exactly the wanted nodes, in one cluster, at the wanted size, with
  agents, and a state file that lists them.
* `QuorumKept`: a convergence that was not forced keeps a majority of the etcd
  members up at every step.
* `DeleteFindsAll`: every VM is listed where a later delete looks for it, except
  those whose operation ended before it wrote the list, and those that a
  repeated, smaller creation has dropped from it.
* `UpgradeOneAtATime`: an undisturbed upgrade takes down none but the node it restarts;
  another node is down only because its service exited after a restart that went well,
  which the gate does not see (`UpgradeDoesNotMarchOn`); and no worker gets the new version
  before every control plane has it.

The exceptions were found by leaving them out: without each of them TLC shows a
violation. `Converged` needs that the state files were true when the apply began
(a missing VM that is listed is not recreated; a node file that survived its VM
makes the installation skip the new one; nodes left by an unfinished delete bring
their old cluster along) and that every node could be read (a failed read skips
the resize). `CONTROLLER.md:84-86` states the promise without them. `QuorumKept`
needs that not one of two control planes is resized, and that a resize does not
come with the removal of others (`Gap`): neither gate counts these together.

**reconciler.** An atomic and a composite resource, two specs, with
and without the annotation, deletes; waits of one to three passes, so that the
doubling reaches its cap. One scenario has three submissions and a failing call, the
other two submissions, two strangers and a restart.

* `BackoffKept`: a pass that finds drift on an opted-in resource submits exactly if
  the wait after the submissions refused since the last one that was taken is over. That
  is what the code throttles; applies that are taken and fail are not throttled, against
  what the documents say (`FailuresAreThrottled`).
* `DriftNoticed`: the drift state of a resource that has come to rest becomes true,
  although passes read it before and after changes.
* `AppliesGoOn`: a drifted resource that has opted in and exists is given an apply again
  and again until it is at rest: refusals, waits, stale reads and applies that fail or
  change nothing do not end it. That it comes to rest is not promised by the code
  (`DriftIsRemediated`).

**plugin_client.** Two callers beside the calls of load and close, pipes for one
message each, one fault of three at any time, a stop at any time. One message is
the least with which a write blocks while a reply waits on the other pipe.

* `OwnAnswer`: a caller gets the answer to its own request or an error.
* `RoomForReply`: the reader never blocks on a channel, nor does `failAll`, which
  holds `mu`.
* `CallsReturn`: every call returns unless the plugin hangs, or works on unread.
* `StopEnds`: a stop ends plugin, reader and controller, also with a hung plugin.

**kube_objects.** Two items, two clusters, namespaces and API versions; per kind three operations
and two Gets without faults, then with a failure and a cancellation, then with a
restart. Three operations are place, change and remove.

* `Tracked`: whatever is in a cluster is in the stored blob, except what `astray`
  names.
* `LastSucceeded`: an operation that succeeded is what the cluster shows, although
  the requests of callers that gave up are still carried out; what the apply renamed to
  another API version is excepted, since the code prunes it (`LeaversArePruned`).

**resource_watch.** Five scenarios: a page opened twice, with a cut and an outage; two
resources; two visits of two kinds with two changes; the same with one change, a cut and
a session that expires; three visits with a change. Two consecutive errors end a stream.

* `InStep`: between polls the page shows the specs of the stream's snapshot, and
  otherwise only rows from before the stream.
* `CatchesUp`: what exists comes to be shown as it is, on a page whose session is valid.

**Deadlock** is checked in the runs of `RunGraph`, `Dispatcher` and `Reconciler`: a
controller that has nothing left to do is still waiting in its select, or for the
next tick. The runs of the other modules stop when their bounds are used up, and
may.

### Fairness

`GraphFairness`: every started goroutine is scheduled and every `Run` returns.
`Fairness` of the dispatcher: its goroutine runs, each `execute` call makes
progress (providers return), a loop that sees the canceled context exits, and a
process that is down is started again (it is a service). All are weak fairness of
one goroutine each, which the Go scheduler gives; that provider calls return is an
assumption about providers, which take a context. Submissions, cancellations,
shutdowns and crashes are never assumed to happen.

`PluginFairness`: goroutines run, a plugin that neither hangs nor has died goes on,
timeouts expire, a kill takes effect. `WatchFairness`: timers fire, requests are
answered or refused, operations save. `ReconcilerFairness`: the ticker fires, a pass
goes on, and the dispatcher works through its queue (`EventuallyTerminal`). Faults,
strangers, cuts, users and visits are never assumed.

### Where documents and code differ

Each of these is a property at the end of its module, with a small configuration,
named after it, with which TLC refutes it. `ReapplyConverges` and
`UpgradeDoesNotMarchOn` are runs of the project; the other configurations are kept to
reproduce the difference.

* `SuccessIsSaved`: `manifests/store.go:2` promises a save on each successful
  apply. A cancellation between the provider's success and the save gives a
  succeeded operation whose manifest was not saved.
* `ReapplyConverges`: `CONTROLLER.md:92` promises that re-applying converges. The
  cache compares with the last *successful* apply, so applying v1 after a failed
  v2 that took effect is answered from the cache.
* `FailedDependencyFailsDependent`: the comment on `drainScheduled` says that a dependent of a
  failed operation fails at resolution. If the resource exists from before, the
  dependent succeeds with the old value.
* `UnstartedResume`: `docs/cross-op-scheduling.md:140` says that the rest of a
  partially run batch resumes. All of it was claimed, so all of it is swept to
  `interrupted`, also what never started.
* `MatchingRetriesAreSafe`: `README.md:383` says "Matching retries are safe" of forget. A
  bundle does not say which tenure of the VM it is of: after the VM has gone to
  another controller and come back with the same manifest, repeating the first
  forget removes the only row.
* `UpgradeDoesNotMarchOn`: `docs/k3s-rolling-upgrade.md:38-49` says that the upgrade waits for
  each node "to rejoin healthy", that one that does not halts it, and that a re-run
  continues where it stopped. The gate (`cluster_upgrade_agent.go:104-106`) looks at the
  version of the binary on disk, which was swapped before the restart, and not at the
  service: a control plane whose service exits after a restart that went well is
  passed, and the next one is taken down. A re-run after a failed restart skips the broken
  control plane for the same reason.
* `SubdirsAreWatched`: `watcher.go:79-81` says that new subdirectories are picked up on the
  fly. Of directories that are made at once (`MkdirAll`, `disk.go:165`) only the topmost is
  reported, and only that one is added (`watcher.go:138-142`)
  (`MCSubdirsWatched.cfg`).
* `DriftIsRemediated`: `README.md:773` offers automatic remediation. The apply that the
  reconciler submits is of the stored manifest, so the cache answers it for every
  atomic resource that exists, and the drift stays. A composite plans from its state
  file (`k3s/provider.go:393-401`) and does not recreate a VM that was deleted out of band,
  or refuses the change (406-415), and stays drifted too.
* `FailuresAreThrottled`: `ROADMAP.md:797-799` wants "throttling (30s → 1h) on repeated
  failure", and the comment at `reconciler.go:92-93` says that consecutive apply failures do not
  hammer the provider. An apply that is enqueued resets the backoff (290-292),
  however it ends, so a resource whose applies fail gets one at every pass
  (`MCFailuresThrottled.cfg`).
* `DriftIsEnqueued`: `reconciler.go:42-43` says an apply is enqueued "whenever drift is
  detected". A missing resource is drift and returns before.
* `AutoAppliesStored`: it is to be an apply "of the stored manifest" (`ROADMAP.md:795-796`).
  A pass that meets a user's apply between its effect and its save takes it for
  drift, and submits the manifest that the apply has replaced by then.
* `OptInTakesEffect`: an apply that only adds or removes the annotation is a cache hit, and is
  not stored.
* `ProbesAreBounded`: the timeout of OwnerOf and ChildrenOf is there "so a hung plugin
  can't wedge a delete" (`external.go:27-29`). It is looked at after the request has
  been written, and the write to a full pipe blocks.
* `BadPluginSkipped`: "one bad provider must not stop the controller" (`main.go:825-826`).
  A plugin that starts and does not answer its handshake does.
* `LeaversArePruned`: objects that leave a manifest are to be pruned
  (`plugins/k8s/schema.go`). A Get that overlapped the apply before has dropped them
  from the blob. And an object that has not left, but whose `apiVersion` alone has changed
  (autoscaling/v1 to v2), is pruned right after it was applied, because its identity
  (`manifest.go:43-45`) has the version in it: set `Specs <- ObjectsRenamed` in
  `MCLeaversPruned.cfg`, and no Get is needed.
* `DriftIsShown`: `watch.go:111-112` attaches drift "so MODIFIED fires on drift
  transitions". Events depend on the hash of the observed spec alone.
* `ListIsLive`: `UI.md:293-295` says that the shell needs no refresh. What is
  deleted while a stream is down stays on the page.
* `LeftStreamsEnd`: `stream.ts:13-14` wants streams to end when the user goes away.
  A list that arrives after that starts a stream with the newer visit's signal.

Met while modelling, without a run of their own: a debounce callback that reads the
file between the save of a row and the write of its file submits the old spec
afterwards and reverts the apply, although `applyFileIfChanged` calls itself
loop-safe (`watcher.go:209`); `ListVMs` (`pkg/proxmox/client/client.go:321-325`)
skips a Proxmox node that does not answer, so its VMs look missing and an apply
clones them again, which `handler.go:838-841` excludes; a VM whose start failed is
not started by the next apply.

### Mutants

Every checked property has a mutant in `PROJECT.json`: a `Faulty...` definition
placed before the definition it varies. With the variant in place TLC finds the
property violated.

## 5. Proofs

Each proof module extends the module it is about. The theorems hold for every value
of the constants that satisfies the module's `ASSUME`s: any number of tasks,
operations, resources, controllers, callers, timers, goroutines and faults. TLC has
checked the inductive invariants on the instances of section 4 first. Invariants are
built in layers: types and shapes (the `...Base` or `...Types` theorem), then what each
property needs on top of them.

**RunGraphProofs.** `RunGraphTypes`, `RunGraphOrder` (`DependenciesFirst`),
`RunGraphLimit` (`WithinLimit`), `RunGraphStops` (`NoLaunchAfterFailure`) rest on
`GraphInv`, which says what the counters mean: while launching goes on, `indegree[t]` is the
number of t's dependencies not yet received as successful (`Counts`), and a ready
task waits for nothing (`ReadyIsReady`). Without it neither the order nor even the
type of the counters is inductive: `indegree - 1` is a natural number only because the
received task was still among the unmet dependencies.
`RunGraphSerial` (`SerialRunsLowestReady`) adds that with a limit of one the task in
flight is lower than every ready one. `RunGraphReturn` (`ReturnIsAccurate`) needs two
more: `ScheduleInv`, by which a call that comes to rest without a reason to stop has missed
no task whose dependencies succeeded, and `CyclesWait`, by which a set of tasks each
of which waits for another one of it is never started; together they say that what
is left at the end is exactly what lies on or behind a cycle.
`RunGraphImplements` (`ImplementsTaskGraph`) maps each step to a step of `TaskGraph` or
a stutter; a receipt is no step of the abstract run, since a task is over for its
caller when it returns.

**DispatcherProofs.** `DispatcherTypes`, `OneInFlight`, `ExecutingRows`,
`CanceledByUser` rest on `DispInv`, which adds to `GraphInv` who owns a row: `LoopShape` ties
every executing call to the loop's state, `QueuedRowIsRunning` and
`ExecutingRowIsRunning` say that claimed and executing operations have running rows,
`Fresh` that unused numbers have no rows, `OutcomeKnown` and `CancelAsked` what may be
recorded. The argument: a cancellation takes pending rows, pruning takes completed
rows, the sweep runs while `loop = "down"`, so between claim and outcome nobody else
writes the row. From it follow `DispatcherImplements` (`ImplementsOpLifecycle`) and, with
`BatchInv` (the batch's rows as its edges were computed from them, and who still owes
them an end), `NoOrphans` and `DependentsAreLast`. `BatchInv` also says that
the children of every composite of the batch are in its plan (`ChildrenPlanned`,
`PlanTold`). `RefsStayFresh` then says that whoever
could change a referenced resource is in the batch, and ended before, or is a
planned delete, or has it as a planned child; or was not admitted. `SavedIsAsked` follows a success back to the save or the
cache hit it comes from; other operations save other resources (`OneInFlight`), but for composites, whose children
are in the plan.
`RetentionHolds`: the text order of `submitted_at` is not the order of time, but it is
a total order of the rows (`SortKeysDiffer`), so the rows that a prune keeps have
different numbers of newer rows, all below the cap, which bounds their number.

**GitOpsProofs.** `GitTypes`. `SettledIsAgreed` (`SettledAgree`) needs `SettleInv`: a resource
whose latest change nobody has given up agrees with its row, or an operation that has
not written its file is in flight, or a timer speaks for the file (it will read it, or has
read exactly what it holds). Reads and writes of the callback are separate steps, so
the last case names the spec a timer carries. Directories without a watch need no clause of their own: what
changes there is given up at once. `PullsAreSynced` (`PulledIsSynced`) is
inductive over the types: what a pull has read of HEAD, or the nothing that a failed read
gives, is at most the length of the history, which only grows; a failed read after the
pull withdraws the claim.

**MigrationProofs.** `MigrationTypes`. `FenceHolds` (`ReleasedIsUnmanaged`) needs that no action
runs beside a call (`managementMu`). `HandoffSafe` (`HandedOver`) needs a witness: once a
bundle of the VM has been seen adopted, some controller is a `Keeper`, one whose row
nothing is about to take; the latest adopter becomes it, and each way of losing a row
contradicts one of its clauses. `MirrorIsKept` (`MirrorFollows`) needs `OneWriter`: unless
writers have overlapped there is one between its row and its file, and what it will
write is the row.

**PluginClientProofs.** `ClientTypes`; `AnswersAreOwn` (`OwnAnswer`) and
`ReaderNeverBlocks` (`RoomForReply`) share `AnswerInv`: an ID belongs to one call, every message
on its way carries the request of the call whose ID it has, and whoever sends to a
channel has taken it out of `pending`.

**KubeObjectsProofs.** `KubeTypes` includes the order of requests: only Gets come behind
the request of the operation in progress. `EverythingTracked` (`Tracked`) rests on
`KnownInv`, which follows a place from the stored blob into the operation that has loaded it,
its request and the plugin's list of removals. `LastStays` (`LastSucceeded`): the plugin's
partial work shows in the cluster, and what it removes of what it has placed are exactly
the objects that the apply renamed to another API version.

**ResourceWatchProofs.** `StreamsFollow` and `PageInStep` (`InStep`): a stream comes to be alone
only by connecting, and from then on the page lies between the stream's snapshot and
what the poll at hand has told (`Follows`).

**ClusterProofs.** Lemmas on lists come first: `ThoseAt` says that `Those` keeps the order of
the list and misses none of its places (by counting the places below, with the
library's theorems on cardinality), `Places` where `OneByOne` puts a node's steps. From them
`CreatePlan`, `ConvergePlan` and `DeletePlan` say what a plan holds, and `PlanTail` and `PlanOn`
that its rest still does. `ClusterTypes` is inductive over plans of the right type
(`OpInv`, whose other half is that the step which writes the final state file is the
last one). `VMsAreFound` (`DeleteFindsAll`) needs `ListInv`, which says what an operation
may still assume of the state file that it has read when it began: until the stub is
written a creation works on that list, and after it the file lists the manifest's
nodes; a convergence that will rewrite the list creates VMs of the manifest only, and
every listed node that the manifest drops has lost its VM or has a `delVM` to come; a
deletion has a `destroy` to come for every listed VM. Then each of the four writes drops
no VM. `UpgradesOneAtATime` (`UpgradeOneAtATime`) needs `RollInv`: the versions read at the
start are still those of the binaries for every node to come, each comes once, control
planes come first, a control plane that does not come any more has the new version, and
every node but the one that is restarted is up or has died after its restart (`died`). So
when a worker's turn comes no control plane is left with the old one. An operation that
begins, or a lost VM, ends the premise of the property, and steps of an operation need
one that runs.

`AppliesConverge` (`Converged`) has to say, in the middle of a plan, what its finished part
has achieved and what its rest will touch. `ToCome(n)` is the set of steps that a node has
still to come, and `SoundInv` speaks of an apply that began soundly:

* `OrderInv`: a node's steps come in the order of their `Rank` (agent, node and VM go, then VM,
  k3s and agent come), a step that goes on as another one is the first, and the listed nodes
  that stay are recreated last, one after the other. So the step at hand is the lowest that
  its node has to come.
* `FilesInv`: a node's files tell the truth about its machine, but for the one that the step at
  hand is about to remove; a VM goes after its files.
* `WantedInv`: a wanted node has its VM at the wanted size, its k3s with a file and its agent,
  or the step that makes them is to come; what destroys part of it comes with all that makes it
  again. A convergence that has nobody to join is stuck, and never finishes.
* `SameCluster`: all k3s belong to one cluster; a creation has none before the first control
  plane's, and a node joins the cluster of the node it joins.
* `ClosingInv`: the state file lists the wanted nodes, or the step that writes it is to come.

`CreateOrder` and `ConvergeOrder` show that the plans begin so, one lemma for each action that it
stays so (`NodeSound` and the lemmas above it), and with nothing to come it is `Converged`
(`SoundEnds`). None of it is needed of an apply that did not begin soundly, and a lost VM
or an upgrade makes one unsound.

`QuorumStays` (`QuorumKept`) adds `GateInv`, a count that the gates make and the steps keep. Of the
members that were found less than half leave (`catastrophicReason`). If one that stays is to be
recreated, those that leave and one more are less than half of those found and entering
(`Gap`). A listed node that stays is without its file at its own turn only, as its steps
lie next to each other (`StaysAtHand`), for which no step may be stuck in between: an unforced
convergence always has a control plane to join (`SomebodyToJoin`). So those down have
left, but for one at most, and when there is that one then all additions are over, because
recreations come last (`WhoIsDown`); `MajorityUp` counts.

### What the attempts found

* `MirrorFollows` did not hold as it was first stated, with only a call's window
  excepted: a request on a VM beside a composite's step on it, neither of which knows
  of the other, can leave the file of one beside the row of the other. The scenarios of
  the run had never let both happen. There is a scenario now, and the exception is named
  (`Overlaps`).
* `RefsFresh` and `DependentsWait` were stated with the rows of the batch. A row of the
  batch whose operation has ended can be pruned by the next Submit on its resource,
  and then says nothing about the edges any more; the properties now refer to the plan
  of the batch.
* `RefsFresh` and `SavedUnlessCanceled` held of resources that only operations change.
  With a composite's children in the model both needed the plan to know them.
* The plans of `Cluster` were computed with `SelectSeq` and `FlattenSeq`. What those return
  follows by induction over the sequence only; the definitions by position have the same
  values (the run found the same states with either) and need none.
* `Converged` needs that `None` is no size, or a row that is missing could be one that agrees
  with its VM. `ClusterConstants` had not said so.
* That the etcd quorum is kept needs more of `catastrophicReason` than its count: together with
  `catastrophicRespecReason` it also rules out, unless forced, every convergence that would come
  to a node with no control plane left to join (`SomebodyToJoin`).
* `ReturnIsAccurate` was stated with the transitive closure. The largest set of tasks
  that wait for each other is the same set (checked), and can be reasoned about.

### Assumptions

Tasks, operations and calls are finite sets, operations and tasks of numbers;
`$ref`s are a function of resource and manifest; `None` and the other markers are no values;
pipes hold at least one message; a file has at least one timer; a request deletes exactly if
it carries no spec; the names of control planes and workers are all different and there
is at least one control plane; constants have their types. Each is an `ASSUME` of the module that
declares the constants, and is evaluated by TLC.

### Only model-checked

Liveness (`CallReturns`, `EventuallyTerminal`, `ShutdownCompletes`, `CallsReturn`,
`StopEnds`, `CatchesUp`, `DriftNoticed`, `AppliesGoOn`), which is out of the
prover's reach; the agreement of `Unschedulable` with the transitive closure, an
induction over paths; and `BackoffKept` of `Reconciler`, which compares with the recursive
function `Wait`, whose values follow by induction over the number of refusals.

## 6. Not modelled

Almost half of the repository's lines are generated (`pkg/tfplugin5`,
`pkg/tfplugin6`, `pkg/api/v1`), and much of the rest translates formats: manifests
to Proxmox parameters, Terraform schemas to CUE, resources to protobuf, tables to
text. They keep no state between calls, and their properties are those of single
functions, which the unit tests state.

* *k3s provider*: the imperative path without a dispatcher, dry run, placement,
  address allocation (static addresses are assumed, so a certificate never goes
  stale), the removal of departed Kubernetes nodes, the logs and restart actions,
  and a concurrency above one of `OPENCTL_APPLY_CONCURRENCY` (what `RunGraph` does
  then is the subject of its own module).
* *Proxmox provider*: disks, cloud-init snippets, template creation and the HTTP
  client. A call succeeds or fails.
* *k8s plugin*: rendering of charts, kustomizations and templates, kubeconfigs, and what
  Kubernetes makes of an object.
* *Cloudflare plugin*: HTTP calls behind the same adapter and the same kind of blob.
  Routes of a tunnel rewrite one ingress list, which only the plugin's serving one
  request at a time protects.
* *Drift*: `computeDrift` and the reconciler's `specsEqual` are pure recursive functions.
  They are not the same, although `compare.go:6` says that one mirrors the other: 2 and
  "2" are equal for the reconciler only.
* *Terraform host*: a gRPC client of Terraform providers, mostly conversion of values
  and schemas. The dispatcher relies on `ProviderOk` and `ProviderFails` only.
* *GitOps*: a repository without a first commit (`EnsureInit`), and the overflow of the
  event queue of fsnotify, after which events are lost without a trace.
* *Watch*: the watch of one name, which is a list of one, and WatchOperations; the
  observed-only kinds and the promotion of children by their owner's row
  (`resource.go:794-830`); events that are late rather than lost. Pages of
  the UI other than the list; the detail page has the same code around its stream.
* *Request validation, encoding, reads, access control, sessions, OIDC, users, secret
  stores, SQLite set-up, CLI, templates and schema*: no state that the modelled parts
  depend on, but for the session of a page: that it expires is modelled (`Unauthorized`),
  how it does so is not.

## Running

    tlc -workers 2 -config MCDispatcher.cfg MCDispatcher
    tlc -workers 2 -config MCCluster.cfg MCCluster
    tlapm DispatcherProofs.tla
    tlapm GitOpsProofs.tla
