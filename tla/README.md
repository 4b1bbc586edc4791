# The KCLRun controller in TLA+

Specifications, model-checking runs and machine-checked proofs for
flux-kcl-controller: the Kubernetes controller that fetches an artifact from a
Flux source, compiles the KCL program in it, applies the resulting objects,
collects what the new revision no longer has, and reports all of it in the
status of a `KCLRun`. All paths below are relative to the repository.

## The system

| Component | State | Operations | Where |
|---|---|---|---|
| KCLRun API | spec, status, conditions, finalizer, generation | defaults, validation by the CRD | `api/v1alpha1`, `config/crd/bases` |
| Reconcile | the in-memory object, the patcher's copy of it, the attempted revision | `Reconcile`, `getSource`, `checkDependencies`, `apply`, `prune`, `checkHealth`, `finalize`, `finalizeStatus`, `patch` | `internal/controller/kclrun_controller.go` |
| Queue and watches | work queue, delayed items, cache | `SetupWithManager`, `requestsForRevisionChangeOf`, `requestsForOCIRepositoryChange` | same file, 101-148, 531-616 |
| Inventory | entries (identifier, version) in the status | `AddChangeSet`, `List`, `Diff`, `ReferenceToObjMetadataSet` | `internal/inventory` |
| Job status reader | none | `jobConditions` | `internal/statusreaders` |
| Source predicate | none | `Update`, `Create`, `Delete` | `internal/predicates` |
| Revision helpers | none | `extractDigest`, `HasChanged` | `internal/controller/utils.go` |
| Argument references | what has been read so far | the loop in `Reconcile`, 301-331; `CompileKclPackage` | `kclrun_controller.go`, `internal/kcl` |
| Durations | none | `GetTimeout`, `GetRetryInterval`, `GetRequeueAfter` | `api/v1alpha1/kclrun_types.go` |
| Command | flags | wiring, leader election | `cmd/main.go` |

One worker reconciles one run at a time (`controller.Options{}` leaves
`MaxConcurrentReconciles` at 1). Everything it works with belongs to somebody
else: users edit, suspend, annotate and delete runs; the source-controller
publishes artifacts; third parties delete applied objects; two runs may produce
the same object; the API server answers, refuses or loses each request; the
cache lags behind; the process dies. `Reconcile` reads the run from the cache,
goes through its phases, and a deferred function patches the outcome; the patch
is a merge patch of what changed since the patcher last agreed with the API
server, in up to three requests (metadata, status, conditions).

What makes this hard: a status assembled from copies of different ages; partial
failures in every phase, with an early return that must leave both the status and
the schedule right; ownership of objects that is decided by labels in the
cluster, by the inventory in the status and by the manifests of a revision, none
of which change together; deletion racing with all of it. `PROJECT.json` lists
the hazards at their lines with the properties that cover them.

What each component must guarantee:

* Reconcile: nothing is applied for a run that can vanish unnoticed; Ready and
  lastAppliedRevision only speak of revisions that were rolled out in full; an
  attempt is visible while it is under way; failures are reported and retried.
* Queue and watches: a run that should be reconciled is reconciled in the end.
* Garbage collection: what a run no longer has is deleted, what it has or what
  belongs to somebody else is not, and a deleted run leaves nothing behind.
* Health checks: they end, also when a run waits on itself.
* Inventory: what an attempt applied is what the next one compares with, entry by
  entry; what is collected has left the manifests and is named by a version that
  the API server may still serve.
* Sources: a new revision is attempted, at the latest after an interval.
* Time: every run on the schedule is attempted within known bounds, although one
  worker fetches, compiles and waits for all runs.
* Job status reader: a Job that is started, suspended or about to fail is not done.
* Argument references: the program is compiled with what they hold in the end.

## Modules

| Module | Models | Checked by |
|---|---|---|
| `KCLRunObject` | a run as the API server stores it, conditions, the serial patcher (`Patched`, `PatchFails`), `finalizeStatus` (`FinalStatus`) | |
| `KCLRunController` | the queue, the cache, `Reconcile` and its environment: the core state machine | |
| `KCLRunProperties` | the properties of the core, and the statements of the repository that do not hold | `MCController` |
| `Delivery` | the abstract specification: what the controller promises to whoever writes a run and reads its status | |
| `KCLRunDelivery` | the refinement mapping from `KCLRunController` to `Delivery` | `MCController` |
| `KCLRunOwnership` | the core with a history of the runs for which a step lost track of an object (`Lapse`) | `MCOwnership` |
| `Inventory` | the functions of `internal/inventory`, on sequences of entries with versions | |
| `InventoryLifecycle` | how `Reconcile`, `prune` and `finalize` use them from attempt to attempt, while programs, specs and served versions change and the cached copy lags | `MCInventory` |
| `SourceWatch` | informer, predicates, field indexes and map functions of the sources, behind them the queue and the timers | `MCSourceWatch` |
| `Durations` | the durations of a spec and those derived from them | |
| `Schedule` | delays, back-off, the delayed queue and the one worker, in discrete time | `MCSchedule` |
| `HealthCheck` | `checkHealth` in detail: references, the guard against waiting on itself, the poller, the Job status reader, and the Job controller it reads from | `MCHealthCheck` |
| `Arguments` | argument references, read one by one while users change them, and what reaches the compiler | `MCArguments` |
| `KCLRunSafetyProofs` | type correctness and three safety theorems of the core | |
| `KCLRunStatusProofs` | what can be relied upon in the status, that no run is forgotten, and deletion | |
| `KCLRunDeliveryProofs` | that the core implements `Delivery`, that no object is orphaned, and that what has settled is deployed | |
| `DeliveryProofs` | what the abstract specification guarantees | |
| `InventoryProofs` | the functions of the inventory, and the safety of its lifecycle | |
| `SourceWatchProofs` | that predicates and map functions overlook no new revision | |
| `ScheduleProofs` | that no run drops out of the schedule, and that each comes up in time | |
| `HealthCheckProofs` | what it means that a health check passed | |

The core is one state machine because its hazards come from all parts acting on
the same status. The other components take one concern each and model it in more
detail than the core does; where they meet, the core has the coarser version of
the same code: sets of objects for the inventory (`Stale`), "current when it is
there" for health checks, "succeeds or fails" for argument references, delays of
unknown length for time, and the cached artifact for a source. Each detailed module
says in its heading what it leaves to the core.

### State

`store` is what the API server has, `cache` what the manager's cache has,
`cluster` who the owner labels of each object name, `source` the artifact of each
source. `queue` is the work queue; `timer` holds the runs whose re-queueing is
delayed, by `RequeueAfter` or by back-off, the two not being told apart. `pc`,
`cur`, `obj`, `before`, `rev` and `result` are the worker: where it is, for which
run, with which copy, what the patcher compares with, the revision, and what
`Reconcile` returns. `fresh` and `completed` are history variables that no action
reads: whether `Get` returned what the API server had, and which (generation,
revision) pairs were rolled out in full. `edits` and `faults` bound the runs of
TLC; the proofs hold for every bound.

### Actions

A reconcile is split at the calls that other processes can interleave with, and
nowhere else. `Start(k)` is `Get` with the early returns up to `getSource`:
`ReconcileNotFound`, `ReconcileDeleted`, `AddFinalizer`, `ReconcileSuspended`,
`ReconcileActive`. Then, by `pc`:

| `pc` | actions | code (kclrun_controller.go) |
|---|---|---|
| getSource | `GetSource`, `SourceNotReady`, `GetSourceFails` | 219-245 |
| checkDependencies | `DependenciesReady`, `DependenciesNotReady` | 247-257, 446-489 |
| reportProgress | `ReportProgress` | 259-268 |
| build | `Build`, `BuildFails`, `FetchFails`, `ArgumentsFail` | 270-375 |
| applyDefinitions, applyClasses, applyResources | `ApplyStage`, `ApplyStageFails` | 893-998 |
| prune | `Prune`, `PruneFails` | 389-413, 691-724 |
| checkHealth, waitForSet, reportHealth | `SkipHealthCheck`, `CheckHealth`, `WaitForSet`, `WaitForSetFails`, `ReportHealth` | 415-444, 618-689 |
| finalize | `Finalize`, `FinalizeFails`, `FinalizeUnimpersonated` | 726-787 |
| finalizeStatus | `FinalizeStatus` | 174-197, 1001-1059 |

Around them `CacheSync`, `TimerFires`, `Crash`, `EditSpec`, `Delete`, `Request`,
`Publish` (with the two map functions) and `Drift`.

### Abstractions

* A KCL program is the constant `Manifest`; an object is a name with a stage and,
  perhaps, a label that disables pruning. What an object contains, and so whether
  applying it changes anything, plays no part.
* Owner labels name one run, the last that applied the object.
* A condition is its status; Reconciling is its reason. The one other reason the
  model knows is "a reason that breaks the CRD's pattern" (`Invalid`).
* A reconcile request is a number instead of a time stamp.
* Sources are read from the cache too; `source` is the cached value.
* An object is current as soon as it is there. A run is current as kstatus sees
  it.
* An object that `apply` skips (`reconcile: disabled`, `ssa: Ignore`, `ssa: IfNotPresent`,
  829-835) is not modelled: a program's objects are those that `apply` does apply, and each
  of them is taken over. What such a skipped object would do to ownership is left out.
* The waits between the stages are merged into the steps of their stages (`ApplyStage` is
  `ApplyAll` and `WaitForSet`; `ApplyStageFails` is either of them failing).
* A failed stage has applied any subset of its objects. A crash in the middle of
  a stage is a failed stage followed by a crash.
* A name that was deleted is not created again.
* Only reads by the worker that return something older than the API server has
  are counted as faults. The cache itself may lag as long as it likes.

### The abstract specification

`Delivery` has no queue, cache, patch or condition. A run is new, kept (by the
finalizer), leaving or gone. A delivery of a revision begins once the runs upstream
have delivered it, places objects rank by rank, then collects what the run owns and
no longer has, then finishes; it may be given up anywhere. The status makes two
claims, the revision last applied and that the current generation is rolled out, and
may only change them to something that a finished delivery backs, or withdraw them.

The mapping in `KCLRunDelivery` (`Ranks`, `Upstreams`, `Lives`, `Generations`,
`AppliedLast`, `Currents`, `Targets`, `Placements`): a delivery is an attempt from
`ReportProgress` to `FinalizeStatus`; what is placed follows from the stage the worker is
in; owners are the owner labels; the claims are `lastApplied` and a ready, current
`observedGeneration` in the *stored* status. `Delivers` is `D!Spec`: every step of the
controller is a step of `Delivery` or leaves its variables alone. TLC checks it on two
instances, and `ControllerDelivers` proves it for all.

### The detailed components

**Inventory.** A program is a change set: entries in the order in which they were
applied, an object perhaps twice, at two API versions. `store` is the run in the API
server, `cached` the copy that `Reconcile` works on, which may be behind. `Apply` snapshots
the cached inventory and lists the change set; then `Collect` is `Diff` and the deletion,
`KeepStale` the return of `prune` when the spec does not prune, `DiffFails` an identifier
that cannot be read back (a name with the separator in it); `Report` is the final patch,
which sends the inventory only if it differs from the one that was read. A deleted run goes
by `Finalize`, or unpruned by `FinalizeUnpruned` (its spec does not prune, it is suspended,
there is no inventory) or `FinalizeUnimpersonated` (the account is gone). `DeleteAll` goes on
after an error and spares what has pruning disabled. The API server may retire a version,
after which an entry at that version cannot be deleted any more. Two histories: `left` has
the objects that a step let go of, at the very step that does so; `mishap` records that a
call failed, a process died or a copy was behind.

**Sources.** `source` is what the source-controller published, `seen` the informer's
copy. `Watch` hands the event handler a pair of states between which others may have
been skipped. The predicate of GitRepositories is source-watcher's and external; that
of OCIRepositories is the repository's own. The map functions read `cached`, the
cached status of the runs. A source may vanish and be created again. `Missing` is a
source that does not exist. `Attempt` takes a run up and attempts what the informer has,
unless there is no artifact or a dependency is not ready (`blocked`, which changes at any
time); `AttemptFails` is an error of `getSource`, or a patch that stores only some of what it
should. Both kinds of return leave the run on a timer. Three histories serve the properties:
`passed`, `had`, and `taken` with `cut` (what the informer had when a run was last taken up,
and whether that reconcile returned before the attempt). Runs are neither suspended nor
deleted here.

**Time.** The unit is half a minute, the constant of `GetTimeout`. An attempt holds the
worker for its work (the fetch with its HTTP retries, the compilation, the calls), then for
up to three waits of `apply` and `checkHealth`. Nothing in the code bounds the work, so that
`MaxWork` is an assumption; it is spent in one piece, ahead of the waits. A reconcile that
returns before the fetch takes no time. The back-off of the queue doubles up to a limit, as
controller-runtime's rate limiter does. `idle` measures how long each run on the schedule
has not been taken up.

**Health checks.** The poller reads objects one at a time; between two reads the Job
controller adds conditions in the order the batch/v1 API documents (Suspended,
SuccessCriteriaMet or FailureTarget, Complete or Failed), a finished Job may expire and
is created anew by the next apply, a Deployment rolls out and degrades.

**Argument references.** A sequence of ConfigMaps and Secrets, optional or not, read
in order; a later one overrides names of an earlier one. Whatever was read reaches the
compiler only if `spec.config` is set.

## Runs

Nine runs pass:

| Run | Instance | Question |
|---|---|---|
| `core` | one run, three specs (one without pruning, one suspended), two revisions that share an object, three stages, 2 edits, 2 faults | the safety properties of one run, and `NoOrphans` under every failure |
| `dependencies` | two runs that apply the same object from one OCIRepository, b depends on a, 1 edit, 1 fault, fairness | `DependencyOrder`, the refinement `Delivers`, and `Converges` with a dependency |
| `takeover` | two runs between which an object moves back and forth, 2 edits (publications, requests, deletions: there is only one spec, which waits for what it applied), no fault | `NoOrphans` and `SettledDeployed` while objects change hands |
| `convergence` | one run from an OCIRepository, with two stages, one revision of which drops an object, and whose health checks name its object and the run itself, 2 edits, 1 fault, fairness | `Converges`, `RequestHandled`, `DeletionCompletes`, and `Delivers` with two stages and failures |
| `inventory_entries` | six programs over three objects and two versions, one with an identifier that cannot be read back, an object with pruning disabled, 3 changes | `KeepsDesired`, `Accounted`, `NamedAsApplied`, `NothingLeft` |
| `source_watch` | one run of a source of either kind, its namespace spelled out or not, held back by a dependency or not, two revisions, 3 edits, 2 faults, fairness | `RevisionsNoticed`, `PredicatesDetect`, `CatchesUp` |
| `schedule` | two runs with each of four choices of durations, one of them zero, work of up to a minute, 2 events | `NeverDropped`, `AttemptedInTime` |
| `health_check` | a Job, a Deployment and the run; four sets of references, 2 faults, fairness | `HealthyMeansCompleted`, `PassesOnceCurrent` |
| `arguments` | a required Secret between two optional ConfigMaps, two names, 2 edits, 1 fault, fairness | `Adopted` |

Bounds. In `core`, two faults let a stale read meet a lost request, a failed stage a crash,
a crash a stale read: the combinations in which an attempt continues from what an earlier
one left. Two edits let a spec change or a publication be followed by a deletion or a
resumption. Two revisions that share one object have something to delete, something to keep
and something to add. One fault is enough for each of the lapses of `NoOrphans`, and the
second one befalls what they leave. `dependencies` needs an artifact at the start and one
publication so that the two runs can be at different revisions, and a fault so that the
dependency may fail at one of them. `takeover` needs one object that is a's at one revision
and b's at the other. It has no fault, which excludes failing calls, crashes and the reading
of a copy that is behind: `SettledDeployed` is about behaviours without them, and what
becomes of orphans with them is what `core` and the theorem `NothingIsOrphaned` are for.
Nobody edits its specs. (With suspension the same instance was checked for `SettledDeployed`
and its inductive invariant, and both are proved.) In `inventory_entries` three changes let
an object move to another version, that version be retired, and the program drop the object.
In `source_watch` three edits are what it takes for a source to leave a revision, to be
without an artifact, and to come back to the revision: with two, the exception of
`RevisionsNoticed` never happens; dependencies that come and go share these edits. One run
is enough there, as the map functions and the predicates look at each run by itself. In
`schedule` the durations are a few units long and include each relation that matters: a
timeout as long as the interval, one much shorter, a retry interval longer than the
interval, none at all. Every property has a mutant of the code that violates it under the
same bounds (`PROJECT.json`, "mutants").

CHECK_DEADLOCK is off in the runs of the core and in `inventory_entries`: when the
edits are used up, nothing is queued and every timer belongs to a run that is suspended
or gone, the system really stops. It is on in the others.

What the runs show, beyond "holds":

* `ProgressReported` needs a fresh read. The patch is computed against the copy
  `Get` returned; if that is older than the API server's, a condition that looks
  unchanged is not sent, and Ready may say True, or Healthy Unknown, during an
  attempt. The next attempt repairs it.
* `ReadyIsCurrent` does not need one: what the stale copy can restore was true of
  the generation it is stamped with.
* `DeletionPrunes` needs a fresh read as well; without it the property is the
  one the run `stale_deletion` refutes. That a fresh read suffices, whatever fails
  or crashes, is what `core` shows.
* `NoOrphans` says which steps lose track of an object, and that nothing else does. There
  are five (`Lapse`): a stage that is applied in part, or times out, after which its change
  set is thrown away (975-980); stale objects that are not collected, because a deletion
  fails or the spec does not prune, after the inventory has been replaced (400, 410); an
  inventory that a crash or a lost patch keeps from the API server; an attempt that starts
  from a cached copy without the inventory stored last; and a run that is deleted without
  pruning. A run that none of them befell has every object that carries its labels in its
  stored inventory, whatever befell other runs. The cached copy that `stale_deletion` needs
  is the fourth of them.
* `Accounted` and `NothingLeft` say the same entry by entry, of objects instead of runs:
  `left` has exactly what a step let go of, and an object that is applied and listed again
  is accounted for again. A collection that failed half-way, for instance, leaves the rest
  of its objects accounted for.
* `NamedAsApplied` is why the order of entries matters: `Diff` deletes an object by the
  version of the *first* entry with its identifier, which need not be the one applied
  last, but is one that the last apply used.
* `RevisionsNoticed` has one exception: a run whose sourceRef spells out the namespace,
  at a revision which its source had before, lost (it had no artifact in between) and
  has again. The map function then trusts a cached status that says Ready at that
  revision and that an attempt has overtaken. It does not promise that the revision was
  attempted: the reconcile that was asked for may have returned before (no read of the
  source, a dependency that is not ready, a failed patch), but then it is repeated.
* `PredicatesDetect` has one as well: an OCIRepository that is created with an artifact
  passes no predicate, as Create events are dropped.
* `CatchesUp` holds although the map function of OCIRepositories requests nothing: it
  is the interval that makes up for it. It speaks of runs whose dependencies come to be
  ready for good; the others return at 249-257 for ever.
* `SettledDeployed` needs that nothing has failed: no lost call, no stale read, no
  restart. If an attempt loses the requests of its first and of its last patch, the Ready
  of an earlier one is still there, though the other run has had the object since; it is
  the back-off that repairs it. The property also needs sourceRefs that
  leave the namespace out. With the namespace spelled out, `requestsForRevisionChangeOf`
  skips a run whose cached status is ready at the published revision. In the instance of
  `takeover`, started at r2, with both namespaces spelled out, and with the publications
  r1, none, r2, none, r1, TLC finds this: a is rolled out at r1 while its cached status
  still says r2, so that the second r2 does not request it; the cache catches up; b rolls
  out r2 and takes the object over; then r1 comes back, which does not request a either,
  and a's status says that it is settled, with the object in b's hands. Nothing but the
  next interval brings a back.
* `AttemptedInTime` has a bound that grows with the number of runs: each may hold the
  worker for its work and three of its own timeouts (two stages and the health check).
  The bound is stated with what the spec allows (`Allowance`: the timeout, or the interval),
  not with what `GetTimeout` makes of it. It stands and falls with `MaxWork`: with nine
  retries, the default of `--http-retry`, a fetch alone may hold the worker for minutes, and
  the compilation has no limit at all.
* `Converges` with a dependency relies on there being one worker: b's check of a never
  falls into the middle of an attempt of a. Only its cached copy may be one (a stale read
  counts as a fault).

### Statements the code does not meet

Three are checked by runs that end in a counterexample and are entries under
"findings" in `PROJECT.json`:

* `failure_report`: the reason "failed fetch artifacts" breaks the CRD's pattern, so
  that the conditions of a failed fetch are refused and never reported. An argument
  reference that cannot be read sets no condition at all.
* `stale_deletion`: a run that is deleted during its first attempt. The deletion has
  requeued the run, so it is reconciled again as soon as the attempt ends; if the cache
  has the deletion but not yet the attempt's last patch, `finalize` finds no
  inventory, removes the finalizer, and all that was applied stays in the cluster.
* `oci_watch`: the map function for OCIRepositories lists by an index that is not
  registered.

The others are exceptions that a property above makes explicit, or were seen while
reading:

* `observedGeneration`, "the last reconciled generation", also advances for a suspended
  run (`finalizeStatus`, 1013); `ReadyIsCurrent` speaks of runs that are not suspended.
* The inventory, "objects that have been successfully applied", leaves out what a
  failed attempt applied.
* `finalize` ignores the error of `inventory.List` (733): one identifier that cannot be
  read back, and a deleted run goes away unpruned. `NothingLeft` excepts its objects.
* `requestsForRevisionChangeOf` compares the namespace of the source with the one
  spelled out in the sourceRef (560); if that is left out, a run that is ready at the
  revision is requested all the same, against the comment at 556.
* `retryInterval`, "the interval at which to retry a previously failed reconciliation", is
  used only for a source that is missing or denied; other failures are retried by the
  back-off of the queue. `LongestDelay` has both.
* An interval of "0s", which the CRD's pattern admits, asks for no requeueing.
  `NeverDropped` excepts it.
* `GetTimeout` without a timeout returns the interval less 30 s, at least 30 s; its
  comment says 300 s. With an interval below a minute a wait is as long as the interval,
  which the comment at 667 says it is not.
* A health check without a namespace is looked up without one, and one without an
  apiVersion is taken for apps/v1, against the CRD's descriptions of both fields.
  `PassesOnceCurrent` excepts such references.
* Argument references reach the program only if `spec.config` is set
  (`internal/kcl/kcl.go:28`). `Adopted` has that as a condition.
* `LastAttemptedRevisionDigest` is never set (`api/v1alpha1/kclrun_types.go:234-237`).
* Sources of kind Bucket are accepted by the API and rejected by `getSource`.

### Fairness

In the core: weak fairness for the worker's steps, as the process runs and every
call returns (each has a time-out); weak fairness for timers and for the delivery of
watch events; strong fairness for `Start(k)`, as the queue is first in, first out, so
that a run which is in the queue whenever the worker is idle is taken in the end,
although the action is disabled while another run is reconciled. Nothing is assumed
of users, of sources or of failures: faults are bounded by `MaxFaults`, which stands
for "calls fail finitely often".

`SourceWatch` has the same for its coarser steps; nothing is assumed of `AttemptFails`,
`Fail`, `Restart` and of the runs that others depend on. `HealthCheck`: the check is
repeated, and the poller reads each object whose status it does not have yet, as it polls
all of them periodically; a wait that times out although everything is current costs a
fault, since the timeout is longer than a few polls. Nothing is assumed of Jobs.
`Arguments`: an attempt goes on, and another follows it.

`Schedule` needs no fairness: time passes only when nothing else has to happen first,
so that "in time" is a safety property.

## Proofs

All theorems are for arbitrary sets of runs, objects, revisions, sources, programs and
versions, any manifests, dependencies, health checks and durations, and any bounds, under
named assumptions about the shape of the constants, which TLC evaluates in every run:
`NoRevisionAssumption` and `ControllerAssumption` for the core, `UnparsableAssumption` and
`LifecycleAssumption` for the inventory, `WatchAssumption` for the sources,
`ScheduleAssumption` and `UnsetAssumption` for time, `HealthAssumption` for health checks.
(The last one says, among other things, that an object in the cluster has no malformed
group, which the API server would not serve.) The theorems that have a hypothesis of their own
name it.

| Theorem | Statement | Inductive invariant |
|---|---|---|
| `TypeCorrect` | `Spec => []TypeOK` | `TypeInv`: the types, and that the revision is known once the source was read |
| `FinalizerFirst` | `Spec => []FinalizerBeforeApply` | `FinalizerInv` |
| `LastAppliedIsSound` | `Spec => []LastAppliedSound` | `LastAppliedInv` |
| `DependenciesFirst` | `Spec => []DependencyOrder` | `DependencyInv`, with `LastAppliedInv` |
| `StatusInvariant` | `Spec => []StatusInv` | itself |
| `ProgressIsReported`, `NoRunForgotten`, `ReadyTellsTheTruth` | `Spec => []ProgressReported`, `[]NeverForgotten`, `[]ReadyIsCurrent` | `StatusInv` |
| `DeletionIsPruning` | `Spec => DeletionPrunes` | `DeletionInv`, with `StatusInv` |
| `ControllerDelivers` | `Spec => Delivers`, the refinement | `DeliveryInv`: `StatusInv`, `LastAppliedInv`, `DependencyInv`, `CopiedClaims` |
| `NothingIsOrphaned` | `OwnershipSpec => []NoOrphans` | `OwnersInv`, with `StatusInv` |
| `SettledIsDeployed` | `Exclusive` and `AllRequested` imply `Spec => []SettledDeployed` | `DeployedInv`, with `StatusInv` |
| `DependenciesDeliverFirst`, `ClaimsAreBacked` | `Spec => []D!UpstreamFirst`, `[]D!ClaimsBacked` | by `ControllerDelivers` |
| `DeliveriesBackClaims`, `DeliveriesFollowUpstream` | `UpstreamRuns` implies `Spec => []ClaimsBacked`, `[]UpstreamFirst` of `Delivery` | `DeliveryInv` of `DeliveryProofs` |
| `TypesAreKept`, `DesiredIsKept`, `OwnedIsAccounted`, `NothingIsLeft` | `Spec => []TypeOK`, `[]KeepsDesired`, `[]Accounted`, `[]NothingLeft` | `LifecycleInv` |
| `CollectedAsApplied` | `Spec => []NamedAsApplied` | `Named`, with `LifecycleInv` |
| `WatchTypes`, `NewRevisionsPass`, `NoRevisionOverlooked` | `Spec => []TypeOK`, `[]PredicatesDetect`, `[]RevisionsNoticed` | `WatchInv` |
| `ScheduleTypes`, `NoRunDropped` | `Spec => []TypeOK`, `[]NeverDropped` | `ScheduleInv` |
| `TakenUpInTime` | `Spec => []AttemptedInTime` | `TimeInv`, with `ScheduleInv` |
| `HealthTypes`, `HealthyIsCompleted` | `Spec => []TypeOK`, `Spec => HealthyMeansCompleted` | `HealthInv` |

None of the properties of the core is inductive as it stands, because the worker writes what it
derived from a copy. `FinalizerInv` therefore relates the cache to the API server
(`CacheBehind`: a live run with the finalizer in the cache has the finalizer in the
API server, since only the controller takes it off and only after the cache has seen
the deletion) and the copy in memory to the cache (`WorkerCopy`). `LastAppliedInv`
and `DependencyInv` say of the cache and of the copy what the property says of the
store; the second needs the first at `checkDependencies`, where a cached
lastAppliedRevision is all the controller knows of a dependency.

The actions of the worker are dealt with once: `EveryStepEffect` says what any
of them does to the cache, the store, the history and the copy (`StepEffect`), and
the invariants are shown to be preserved by `StepEffect`. `KCLRunStatusProofs` does the
same for what it needs to know (`EveryWorkerEffect`, `EveryStartEffect`,
`EveryEnvironmentEffect`).

The status. `StatusInv` is the conjunction of `TypeInv`, `FinalizerInv` and

* `ProgressInv`: from `ReportProgress` to the last patch, the copy in memory and the
  patcher's copy are not ready and name the revision (`Shown`); if the read was fresh, the
  patcher's copy is what the API server has (`CopyInStep`), without which the merge patch
  might leave out a condition that looks unchanged. `ProgressReported` follows.
* `GenerationInv`: of two copies the one with the lower generation is the older, and with
  the same generation both ask for the same (`Precedes`). This is what makes up for the
  age of the copies: whatever `Reconcile` decided from a stale spec is either stamped with
  an older generation, or was right.
* `KeptInv`: every copy that is being deleted has the finalizer.
* `ScheduleInv`: a run that there is something to do for is queued, has a timer, is the
  worker's, or the cache has yet to notice it. It needs `GenerationInv` where an attempt
  that found a suspended copy ends without asking to be called again: if the stored run is
  not suspended, its generation is higher, and the watch will report it.
* `ClaimInv`: no copy claims a generation ahead of the specification, or the current one
  without a roll-out; what a copy about to be stamped shows as ready was earned by this
  attempt or belongs to a suspended run. `ReadyIsCurrent` is a part of it; alone it is not
  inductive, as `finalizeStatus` stamps whatever Ready condition is in memory.

`DeletionInv` adds that a copy that was fresh when read still has the stored spec and status when
it is finalized, and that nothing of the inventory is left once the finalizer is off it.

The refinement. The abstract claims are changed by a merge patch, of which any requests may
be lost, so that a claim in the store comes from an old copy, the new one, or the store
itself. `CopiedClaims` says that during an attempt the patcher's copy and the one in memory
agree on the claims until `Succeeded`; `StatusInv`, `LastAppliedInv` and `DependencyInv` say
that each of these claims is backed and the dependencies are delivered. Then each action is
shown to be a step of `Delivery` or a stutter under the mapping.

No orphans. `OwnersInv` speaks of the runs that no lapse befell: between reconciles what
such a run owns is in its stored inventory (`Stored`); during one it is in the copy in memory,
or among what is being applied (`Carried`); the run is there and has the finalizer
(`OwnersStay`). The theorem has no hypothesis and no bound on failures: each step either is
one of the five lapses, and then the run it was taken for drops out of the statement, or
keeps all three parts. `StatusInv` is needed where a patch merges the inventory in memory
with one that is stored, and where the finalizer goes.

What has settled is deployed. That a run shows Ready at the revision of its source says
nothing by itself about the cluster, where the other runs go on. `DeployedInv` says, while
nothing has failed, that

* the patcher's copy is what the API server has (`InStep`, at every step and not only from
  the first patch on), and no patch is refused (`Sendable`);
* what a roll-out has placed stays its own until it is over, and a Ready about to be
  written for an active run was earned with all objects in place (`PlacedStays`,
  `Earned`); there is one worker, so that nobody else applies in between;
* an attempt whose source has moved on is one from before every run was queued again, and
  since the worker is busy with it, all of them still are (`LatestRevision`): whoever is
  not in the queue can only lose an object to an attempt at the *current* revision;
* each promise of a status that waits for nothing is kept (`PromisesKept`).

Two hypotheses are needed. `Exclusive`: no two runs want the same object at the same time,
at one revision of a source they share or at any revisions of two sources; otherwise they
take it from each other for ever, and both show Ready. `AllRequested`: every source is a
GitRepository and no sourceRef spells out its namespace, so that a new revision requests
every run. Both hold in the instance of the run `takeover`; objects still move between the
runs from one revision to the next. The step that carries the argument is
`OthersWantOther`: what an attempt applies, no run with a promise that waits has at the
revision its own source has. Pruning takes nothing from it since `DeleteAll` only deletes
what carries the owner labels of the run at work.

The inventory. `LifecycleInv` adds to the properties where an attempt is (`Phases`), that a
run that is gone is not worked on any more (`Gone`), and that what the run owns and no step let
go of is in the snapshot or the new inventory before the collection, and in the new one
alone afterwards (`Sighted`). No assumption is made that anything goes well. It rests
on lemmas about `AddChangeSet`, `List`, `Diff` and `DeleteAll`. `Named` says that each inventory,
stored, old and new, names what it holds by versions it was last applied at; that `Diff` finds
the *first* entry with an identifier (`LeastIndex`) is by the well-foundedness of the
natural numbers.

Sources. `WatchInv` is about what a source was before. The informer has what the source has
or had (`SeenIsPast`); a revision that a run attempted is the informer's or one that the
source had, and so is the cached one (`AttemptedIsPast`); `NoticedSoFar` is
`RevisionsNoticed` for what the informer has, up to date or not, and what returned before its
attempt has a timer or is queued (`CutIsRepeated`). The map function leaves a run
alone if its cached status is at the revision: with `AttemptedIsPast`, that revision is the
current one or one that the source left, which is the exception of the property.

Time. `ScheduleInv` says that the run at work is not queued. `TimeInv` divides the time that
a run has been waited for by where it is: at work, at most `MaxWork` and three timeouts less
what is left of them (`HeldInTime`); between attempts, its delay less what is left of it and
one attempt (`DelayedInTime`); in the queue, its delay and the attempts of all runs less
those still ahead (`QueuedInTime`). The last is a sum over a set of runs that shrinks and
grows with the queue; the section "Sums over sets of runs" shows that sums do not depend on
the order, grow with their set, and are what `FoldSet` computes. `AttemptedInTime` is about
the first of the queue as well as the last, so that it is not inductive without the runs
ahead (`Before`).

Health checks. That a check passed says something of the statuses the poller read,
some time ago. `HealthInv` ties them to the Jobs: one with the condition Complete has
completed since it was created (`CompleteMeansCompleted`), and one that was last read
as current has that condition (`CurrentMeansCompleted`), which is where `jobConditions`
comes in (`CurrentIsComplete`).

The abstract specification. That `Delivery` is worth implementing is what its two
theorems say: its two claims are always backed by a finished delivery, and a
revision is delivered upstream first. They assume `UpstreamRuns`: the runs upstream
are runs, which they are in the mapping of `KCLRunDelivery` (`UpstreamsAreRuns`). By the
refinement the controller has both guarantees: `KCLRunDeliveryProofs` instantiates
`DeliveryProofs` with the mapping and cites the theorems. `DependenciesDeliverFirst` is
the stronger statement behind `DependencyOrder`: it speaks of all roll-outs that were ever
completed, not of the attempt the status shows.

Induction. The induction theorems of the library take an operator as a parameter, which the
provers cannot instantiate. Where a proof needs induction (sums, first entries) it is done
over a *set*: the set of numbers for which something holds contains 0 and is closed under
successors, so that the least number outside it (`WFMin`) cannot exist (`InductionOnNat`,
`InductionOnSets`). All bounds and all invariants above were checked by TLC on the instances
of the runs before they were proved.

Only model-checked:

* the type invariant of `Arguments`, whose one real property, `Adopted`, is about liveness;
* all liveness (`Converges`, `RequestHandled`, `DeletionCompletes`, `CatchesUp`,
  `PassesOnceCurrent`, `Adopted`), which is out of the prover's reach, as is ENABLED.

## Not modelled

* The contents of artifacts, the KCL compiler and the manifests it yields: inputs to the
  model. Of the compile options (settings, vendor, overrides, selectors) nothing in the
  repository depends on.
* Events, metrics, logs: nothing reads them back. `HasChanged` only decides whether a
  line is logged.
* `cmd/main.go`: flags and wiring. The flags for the rate limiter and for the watches
  are bound and not used; the limits of the back-off are constants of `Schedule`. With
  leader election disabled, its default, two processes may run; the model assumes one,
  as `config/manager/deployment.yaml` (one replica, leader election enabled) provides.
* Server-side apply itself: how fields are merged, conflicts with other managers, and the
  objects that annotations tell it to skip.
* How long a fetch, a compilation and the calls to API servers take: `MaxWork` in `Schedule`.
* Accessors that nothing calls (`GetReleaseNamespace`, `UsePersistentClient`), printing,
  and generated code.

## Plan

Done: the object, the controller and its properties; the abstract delivery; the inventory,
the sources, time, health checks and argument references as components of their own. Proved:
all safety properties of the core, the refinement and what follows from it, and the safety
properties of the inventory, the sources, the schedule and health checks.

What would come next:

1. `TypeOK` of `Arguments`, and that what has been read is a prefix of the references, from
   which `Adopted` follows once edits stop.
2. A weaker form of `SettledDeployed` that survives failures: how long after the last failure
   a settled status is true again.
