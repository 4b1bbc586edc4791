-------------------------- MODULE KCLRunController --------------------------
(***************************************************************************)
(* The KCLRun controller: the work queue and its watches, Reconcile with   *)
(* the deferred finalizeStatus, the staged apply, the inventory and its    *)
(* garbage collection, the health checks, finalize, and around them the    *)
(* API server, users, the source-controller, and crashes.                  *)
(*                                                                         *)
(* One worker: SetupWithManager passes empty controller.Options, so        *)
(* MaxConcurrentReconciles is 1, and leader election keeps one process     *)
(* active.  A reconcile is split at its calls to other processes; between  *)
(* two of them anything else may happen.                                   *)
(*                                                                         *)
(* Reads of KCLRuns go through the manager's cache, which may lag behind   *)
(* the API server.  An adverse event (a failing call, a stale read, a      *)
(* crash) costs one of MaxFaults; a change made by users or by the         *)
(* source-controller costs one of MaxEdits.                                *)
(***************************************************************************)
EXTENDS KCLRunObject

CONSTANTS Runs,           \* the names of the KCLRuns
          Sources,        \* GitRepositories and OCIRepositories
          GitRepositories,\* those of kind GitRepository
          SourceOf,       \* SourceOf[k]: the source spec.sourceRef names
          NamespacedRefs, \* runs whose sourceRef spells out its namespace
          DependsOn,      \* DependsOn[k]: the runs in spec.dependsOn
          HealthRefs,     \* HealthRefs[k]: the objects, or runs, in spec.healthChecks
          Manifest,       \* Manifest[k][r]: what k's program yields at revision r
          StageOf,        \* the apply stage of an object
          PruneDisabled,  \* objects labelled or annotated prune: disabled
          SpecChoices,    \* the specs users may write
          NoArtifact,     \* a source that is missing or has no artifact
          NoOwner, Drifted,      \* an object nobody applied; one a third party deleted
          MaxEdits, MaxFaults

Stages == {"definition", "class", "resource"}

ASSUME ControllerAssumption ==
    /\ GitRepositories \subseteq Sources
    /\ SourceOf \in [Runs -> Sources]
    /\ NamespacedRefs \subseteq Runs
    /\ DependsOn \in [Runs -> SUBSET Runs]
    /\ HealthRefs \in [Runs -> SUBSET (Objects \cup Runs)]
    /\ Manifest \in [Runs -> [Revisions -> SUBSET Objects]]
    /\ StageOf \in [Objects -> Stages]
    /\ SpecChoices \subseteq Specs
    /\ NoArtifact \notin Revisions
    /\ NoOwner \notin Runs /\ Drifted \notin Runs /\ NoOwner # Drifted
    /\ Runs # {} /\ Runs \cap Objects = {}
    /\ MaxEdits \in Nat /\ MaxFaults \in Nat

VARIABLES
    store,      \* the KCLRuns in the API server
    cache,      \* the same as the manager's cache has them
    cluster,    \* who owns each object: the run its owner labels name
    source,     \* the artifact revision of each source, as the cache has it
    queue,      \* runs waiting in the work queue
    timer,      \* runs whose re-queueing is delayed (RequeueAfter, back-off)
    pc,         \* where the worker is
    cur,        \* the run it reconciles
    obj,        \* its in-memory copy
    before,     \* the copy the patcher last agreed on with the API server
    rev,        \* the artifact revision it reconciles
    result,     \* what Reconcile returns to the work queue
    fresh,      \* history: Get returned what the API server had
    completed,  \* history: the <<generation, revision>> pairs rolled out in full
    edits, faults   \* counters that bound the exploration

workerVars == <<pc, cur, obj, before, rev, result, fresh>>
vars == <<store, cache, cluster, source, queue, timer, workerVars, completed,
          edits, faults>>

-----------------------------------------------------------------------------
(* Types and initial state. *)

ApplyPcs    == {"applyDefinitions", "applyClasses", "applyResources"}
HealthPcs   == {"checkHealth", "waitForSet", "reportHealth"}
RolloutPcs  == ApplyPcs \cup {"prune"} \cup HealthPcs
Pcs         == {"idle", "getSource", "checkDependencies", "reportProgress",
                "build", "finalize", "finalizeStatus"} \cup RolloutPcs

\* "stop" is an empty ctrl.Result: nothing is scheduled.  "after" stands for
\* RequeueAfter and Requeue; the others are errors, retried with back-off.
Results == {"stop", "after", "error", "fetchError", "argumentError", "noAccount"}

Artifacts == Revisions \cup {NoArtifact}

TypeOK ==
    /\ store \in [Runs -> StoredRuns]
    /\ cache \in [Runs -> StoredRuns]
    /\ cluster \in [Objects -> Runs \cup {NoOwner, Drifted}]
    /\ source \in [Sources -> Artifacts]
    /\ queue \subseteq Runs
    /\ timer \subseteq Runs
    /\ pc \in Pcs
    /\ cur \in Runs
    /\ obj \in MemoryRuns
    /\ before \in StoredRuns
    /\ rev \in Revisions \cup {NoRevision}
    /\ result \in Results
    /\ fresh \in BOOLEAN
    /\ completed \in [Runs -> SUBSET (Nat \X Revisions)]
    /\ edits \in Nat
    /\ faults \in Nat

AnyRun == CHOOSE k \in Runs : TRUE

IdleWorker ==
    /\ pc = "idle"
    /\ cur = AnyRun
    /\ obj = Absent
    /\ before = Absent
    /\ rev = NoRevision
    /\ result = "stop"
    /\ fresh = TRUE

\* The controller starts: it lists the runs, whose Create events are queued.
Init ==
    /\ store \in [Runs -> {Created(s) : s \in SpecChoices}]
    /\ cache = store
    /\ cluster = [o \in Objects |-> NoOwner]
    /\ source \in [Sources -> Artifacts]
    /\ queue = Runs
    /\ timer = {}
    /\ IdleWorker
    /\ completed = [k \in Runs |-> {}]
    /\ edits = 0
    /\ faults = 0

-----------------------------------------------------------------------------
(* Helpers of the worker's steps. *)

environment == <<cache, source, queue, timer, edits, cur, fresh>>

\* The worker forgets the reconcile it was in.
Rest ==
    /\ pc' = "idle"
    /\ cur' = AnyRun
    /\ obj' = Absent
    /\ before' = Absent
    /\ rev' = NoRevision
    /\ result' = "stop"
    /\ fresh' = TRUE

Fault == faults < MaxFaults /\ faults' = faults + 1

\* Go on with the in-memory object o at the next step.
Continue(o, next) == obj' = o /\ pc' = next /\ result' = "stop"

\* Return from Reconcile; the deferred function comes next.
Return(o, res) == obj' = o /\ pc' = "finalizeStatus" /\ result' = res

\* Write o to the API server, losing some of the requests.
Write(o, lost) ==
    /\ lost = {} \/ faults < MaxFaults
    /\ faults' = IF lost = {} THEN faults ELSE faults + 1
    /\ store' = [store EXCEPT ![cur] = Patched(store[cur], before, o, lost)]

\* (Mutant: the error of a patch is ignored.)
WriteFailsUnseen(o, lost) == FALSE

WriteFails(o, lost) == PatchFails(store[cur], before, o, lost)

\* r.patch in the middle of Reconcile.
Patch(o, lost) ==
    /\ Write(o, lost)
    /\ before' = IF WriteFails(o, lost) THEN before ELSE o

\* The manifests of the attempt: what the KCL program yields at its revision.
Desired == Manifest[cur][rev]

-----------------------------------------------------------------------------
(* Reconcile: Get and the early returns. *)

\* A worker takes a run off the queue and reads it through the cache.
Get(k) ==
    /\ pc = "idle"
    /\ k \in queue
    /\ queue' = queue \ {k}
    /\ \/ cache[k] = store[k] /\ UNCHANGED faults
       \/ cache[k] # store[k] /\ Fault
    /\ UNCHANGED <<store, cache, cluster, source, timer, completed, edits>>

Load(k) ==
    /\ Get(k)
    /\ cache[k].exists
    /\ cur' = k
    /\ before' = cache[k]
    /\ rev' = NoRevision
    /\ fresh' = (cache[k] = store[k])

\* client.IgnoreNotFound: the run is gone, there is nothing to do.
ReconcileNotFound(k) ==
    /\ Get(k)
    /\ ~cache[k].exists
    /\ UNCHANGED workerVars

\* finalize prunes unless the spec says not to, or there is nothing to prune.
PrunesOnDeletion(o) ==
    o.spec.prune /\ ~o.spec.suspend /\ o.status.inventory # {}

RemoveFinalizer(o) == [o EXCEPT !.finalizer = FALSE]

ReconcileDeleted(k) ==
    /\ Load(k)
    /\ cache[k].deleting
    /\ IF PrunesOnDeletion(cache[k])
       THEN Continue(cache[k], "finalize")
       ELSE Return(RemoveFinalizer(cache[k]), "stop")

\* (Mutant: the test for the finalizer is missing.)
HasFinalizerUntested(o) == TRUE

\* controllerutil.ContainsFinalizer.
HasFinalizer(o) == o.finalizer

\* A run without the finalizer gets it, and nothing else, in its first attempt.
AddFinalizer(k) ==
    /\ Load(k)
    /\ ~cache[k].deleting
    /\ ~HasFinalizer(cache[k])
    /\ Return([cache[k] EXCEPT !.finalizer = TRUE], "after")

ReconcileSuspended(k) ==
    /\ Load(k)
    /\ ~cache[k].deleting
    /\ HasFinalizer(cache[k])
    /\ cache[k].spec.suspend
    /\ Return(cache[k], "stop")

ReconcileActive(k) ==
    /\ Load(k)
    /\ ~cache[k].deleting
    /\ HasFinalizer(cache[k])
    /\ ~cache[k].spec.suspend
    /\ Continue(cache[k], "getSource")

-----------------------------------------------------------------------------
(* Reconcile: the source and the dependencies. *)

GetSource ==
    /\ pc = "getSource"
    /\ source[SourceOf[cur]] \in Revisions
    /\ rev' = source[SourceOf[cur]]
    /\ Continue(obj, IF DependsOn[cur] = {}
                     THEN "reportProgress"
                     ELSE "checkDependencies")
    /\ UNCHANGED <<environment, store, cluster, before, completed, faults>>

\* The source does not exist or has no artifact yet: look again later.
SourceNotReady ==
    /\ pc = "getSource"
    /\ source[SourceOf[cur]] \notin Revisions
    /\ Return(MarkReady(obj, "False"), "after")
    /\ UNCHANGED <<environment, store, cluster, before, rev, completed, faults>>

GetSourceFails ==
    /\ pc = "getSource"
    /\ Fault
    /\ Return(MarkReady(obj, "False"), "error")
    /\ UNCHANGED <<environment, store, cluster, before, rev, completed>>

\* (Mutant: the dependency's revision is not compared.)
DependencyReadyAtAnyRevision(k, d, r) ==
    /\ cache[d].exists
    /\ cache[d].generation = cache[d].status.observedGeneration
    /\ cache[d].conds.ready = "True"

\* (Mutant: a negation is missing.)
DependencyReadyAtOtherRevision(k, d, r) ==
    /\ cache[d].exists
    /\ cache[d].generation = cache[d].status.observedGeneration
    /\ cache[d].conds.ready = "True"
    /\ SourceOf[d] = SourceOf[k] => cache[d].status.lastApplied # r

\* checkDependencies, for one dependency d of the run k at revision r.
DependencyReady(k, d, r) ==
    /\ cache[d].exists
    /\ cache[d].generation = cache[d].status.observedGeneration
    /\ cache[d].conds.ready = "True"
    /\ SourceOf[d] = SourceOf[k] => cache[d].status.lastApplied = r

DependenciesReady ==
    /\ pc = "checkDependencies"
    /\ \A d \in DependsOn[cur] : DependencyReady(cur, d, rev)
    /\ Continue(obj, "reportProgress")
    /\ UNCHANGED <<environment, store, cluster, before, rev, completed, faults>>

\* One is not ready, or not in the copy that the cache has of it.
DependenciesNotReady ==
    /\ pc = "checkDependencies"
    /\ \E d \in DependsOn[cur] : ~DependencyReady(cur, d, rev)
    /\ \/ UNCHANGED faults /\ \A d \in DependsOn[cur] : cache[d] = store[d]
       \/ Fault /\ \E d \in DependsOn[cur] : cache[d] # store[d]
    /\ Return(MarkReady(obj, "False"), "after")
    /\ UNCHANGED <<environment, store, cluster, before, rev, completed>>

\* (Mutant: Ready keeps the value it had.)
InProgressStillReady(o) ==
    [MarkReconciling(o, "Progressing") EXCEPT !.status.lastAttempted = rev]

\* Record the attempt in the status before anything else happens.
InProgress(o) ==
    [MarkReconciling(MarkReady(o, "Unknown"), "Progressing")
        EXCEPT !.status.lastAttempted = rev]

ReportProgress ==
    /\ pc = "reportProgress"
    /\ \E lost \in SUBSET Changed(before, InProgress(obj)) :
        /\ Patch(InProgress(obj), lost)
        /\ IF WriteFails(InProgress(obj), lost)
           THEN Return(InProgress(obj), "error")
           ELSE Continue(InProgress(obj), "build")
    /\ UNCHANGED <<environment, cluster, rev, completed>>

-----------------------------------------------------------------------------
(* Reconcile: fetch, arguments, compile, impersonate. *)

Build ==
    /\ pc = "build"
    /\ Continue(obj, "applyDefinitions")
    /\ UNCHANGED <<environment, store, cluster, before, rev, completed, faults>>

\* Temporary directory, package path, compiler, YAML or client.
BuildFails ==
    /\ pc = "build"
    /\ Fault
    /\ Return(MarkReady(obj, "False"), "error")
    /\ UNCHANGED <<environment, store, cluster, before, rev, completed>>

\* The reason is "failed fetch artifacts": words separated by blanks.
FetchFails ==
    /\ pc = "build"
    /\ Fault
    /\ Return(MarkReady(obj, "Invalid"), "fetchError")
    /\ UNCHANGED <<environment, store, cluster, before, rev, completed>>

\* A ConfigMap or Secret in argumentsReferences: no condition is set.
ArgumentsFail ==
    /\ pc = "build"
    /\ Fault
    /\ Return(obj, "argumentError")
    /\ UNCHANGED <<environment, store, cluster, before, rev, completed>>

-----------------------------------------------------------------------------
(* apply: definitions, then classes, then everything else. *)

StageAt(step) == CASE step = "applyDefinitions" -> "definition"
                   [] step = "applyClasses"     -> "class"
                   [] step = "applyResources"   -> "resource"

\* (Mutant: classes last.)
AfterStageClassesLast(step) == CASE step = "applyDefinitions" -> "applyResources"
                                 [] step = "applyResources"   -> "applyClasses"
                                 [] step = "applyClasses"     -> "prune"

AfterStage(step) == CASE step = "applyDefinitions" -> "applyClasses"
                      [] step = "applyClasses"     -> "applyResources"
                      [] step = "applyResources"   -> "prune"

InStage(step) == {o \in Desired : StageOf[o] = StageAt(step)}

\* Server-side apply takes the objects over, owner labels included.  (Objects whose
\* annotations tell apply to skip them are not among those of a program here.)
Applied(objects) ==
    [o \in Objects |-> IF o \in objects THEN cur ELSE cluster[o]]

ApplyStage ==
    /\ pc \in ApplyPcs
    /\ cluster' = Applied(InStage(pc))
    /\ Continue(obj, AfterStage(pc))
    /\ UNCHANGED <<environment, store, before, rev, completed, faults>>

\* Some objects of the stage are applied and others not, or all are and
\* WaitForSet times out; only the last stage does not wait.
ApplyStageFails ==
    /\ pc \in ApplyPcs
    /\ Fault
    /\ \E done \in SUBSET InStage(pc) :
        /\ InStage(pc) # {}
        /\ pc = "applyResources" => done # InStage(pc)
        /\ cluster' = Applied(done)
    /\ Return(MarkReady(obj, "False"), "error")
    /\ UNCHANGED <<environment, store, before, rev, completed>>

-----------------------------------------------------------------------------
(* The inventory and its garbage collection. *)

\* (Mutant: the arguments of Diff swapped.)
StaleSwapped(oldInventory, newInventory) == newInventory \ oldInventory

\* inventory.Diff(oldInventory, newInventory).
Stale(oldInventory, newInventory) == oldInventory \ newInventory

\* (Mutant: DeleteAll without its inclusions.)
DeletableOfAnyOwner(objects) ==
    {o \in objects : cluster[o] \in Runs /\ o \notin PruneDisabled}

\* What DeleteAll may delete: the owner labels select, the exclusions spare.
Deletable(objects) ==
    {o \in objects : cluster[o] = cur /\ o \notin PruneDisabled}

Deleted(objects) ==
    [o \in Objects |-> IF o \in objects THEN NoOwner ELSE cluster[o]]

\* (Mutant: the revision counts as applied before it is healthy.)
SetInventoryAndRevision(o) ==
    [o EXCEPT !.status.inventory = Desired, !.status.lastApplied = rev]

SetInventory(o) == [o EXCEPT !.status.inventory = Desired]

StaleObjects == IF obj.spec.prune
                THEN Deletable(Stale(obj.status.inventory, Desired))
                ELSE {}

Prune ==
    /\ pc = "prune"
    /\ cluster' = Deleted(StaleObjects)
    /\ Continue(SetInventory(obj), "checkHealth")
    /\ UNCHANGED <<environment, store, before, rev, completed, faults>>

\* DeleteAll goes on after an error: some stale objects stay.
PruneFails ==
    /\ pc = "prune"
    /\ Fault
    /\ \E kept \in SUBSET StaleObjects \ {{}} :
        cluster' = Deleted(StaleObjects \ kept)
    /\ Return(MarkReady(SetInventory(obj), "False"), "error")
    /\ UNCHANGED <<environment, store, before, rev, completed>>

-----------------------------------------------------------------------------
(* checkHealth. *)

\* Everything that was applied, or what spec.healthChecks lists.
ToWait == IF obj.spec.wait THEN Desired ELSE HealthRefs[cur]

\* (Mutant: no guard.)
WithSelf(set) == set

\* Guard against deadlock: a run does not wait on itself.
WithoutSelf(set) == set \ {cur}

\* What kstatus takes for current.  An object is current once it is there.
IsCurrent(x) ==
    IF x \in Runs
    THEN /\ store[x].exists
         /\ ~store[x].deleting
         /\ store[x].status.observedGeneration = store[x].generation
         /\ IsReady(store[x])
    ELSE cluster[x] \notin {NoOwner, Drifted}

AllCurrent == \A x \in WithoutSelf(ToWait) : IsCurrent(x)

\* checkHealth returned without an error: Reconcile is about to end.
Succeeded(o) == [MarkReady(o, "True") EXCEPT !.status.lastApplied = rev]

Succeed(o) ==
    /\ Return(Succeeded(o), "after")
    /\ completed' = [completed EXCEPT ![cur] = @ \cup {<<o.generation, rev>>}]

SkipHealthCheck ==
    /\ pc = "checkHealth"
    /\ ToWait = {}
    /\ Succeed(MarkHealthy(obj, "Absent"))
    /\ UNCHANGED <<environment, store, cluster, before, rev, faults>>

Waiting(o) == MarkHealthy(MarkReconciling(o, "Progressing"), "Unknown")

CheckHealth ==
    /\ pc = "checkHealth"
    /\ ToWait # {}
    /\ \E lost \in SUBSET Changed(before, Waiting(obj)) :
        /\ Patch(Waiting(obj), lost)
        /\ IF WriteFails(Waiting(obj), lost)
           THEN Return(MarkReady(Waiting(obj), "False"), "error")
           ELSE Continue(Waiting(obj), "waitForSet")
    /\ UNCHANGED <<environment, cluster, rev, completed>>

WaitForSet ==
    /\ pc = "waitForSet"
    /\ AllCurrent
    /\ Continue(MarkHealthy(obj, "True"), "reportHealth")
    /\ UNCHANGED <<environment, store, cluster, before, rev, completed, faults>>

WaitForSetFails ==
    /\ pc = "waitForSet"
    /\ \/ ~AllCurrent /\ UNCHANGED faults
       \/ AllCurrent /\ Fault
    /\ Return(MarkReady(MarkHealthy(obj, "False"), "False"), "error")
    /\ UNCHANGED <<environment, store, cluster, before, rev, completed>>

ReportHealth ==
    /\ pc = "reportHealth"
    /\ \E lost \in SUBSET Changed(before, obj) :
        /\ Patch(obj, lost)
        /\ IF WriteFails(obj, lost)
           THEN Return(MarkReady(obj, "False"), "error") /\ UNCHANGED completed
           ELSE Succeed(obj)
    /\ UNCHANGED <<environment, cluster, rev>>

-----------------------------------------------------------------------------
(* finalize and finalizeStatus. *)

\* The pruning of a deleted run; then the finalizer goes.
Finalize ==
    /\ pc = "finalize"
    /\ cluster' = Deleted(Deletable(obj.status.inventory))
    /\ Return(RemoveFinalizer(obj), "stop")
    /\ UNCHANGED <<environment, store, before, rev, completed, faults>>

\* (Mutant: the finalizer goes although DeleteAll fails.)
FinalizeFailsAnyway ==
    /\ pc = "finalize"
    /\ Fault
    /\ \E kept \in SUBSET Deletable(obj.status.inventory) :
        cluster' = Deleted(Deletable(obj.status.inventory) \ kept)
    /\ Return(RemoveFinalizer(obj), "error")
    /\ UNCHANGED <<environment, store, before, rev, completed>>

\* No client, or DeleteAll fails for some objects: the finalizer stays.
FinalizeFails ==
    /\ pc = "finalize"
    /\ Fault
    /\ \E kept \in SUBSET Deletable(obj.status.inventory) :
        cluster' = Deleted(Deletable(obj.status.inventory) \ kept)
    /\ Return(obj, "error")
    /\ UNCHANGED <<environment, store, before, rev, completed>>

\* The account to impersonate is gone: nothing is pruned, the finalizer goes.
FinalizeUnimpersonated ==
    /\ pc = "finalize"
    /\ Fault
    /\ Return(RemoveFinalizer(obj), "noAccount")
    /\ UNCHANGED <<environment, store, cluster, before, rev, completed>>

\* (Mutant: errors are not retried.)
DroppedWithErrors == {"stop", "noAccount", "error"}

\* The results with which nothing is scheduled.
Dropped == {"stop", "noAccount"}

\* The deferred function, and what the work queue does with the result.
FinalizeStatus ==
    /\ pc = "finalizeStatus"
    /\ \E lost \in SUBSET Changed(before, FinalStatus(obj)) :
        /\ Write(FinalStatus(obj), lost)
        /\ timer' = IF result \in Dropped /\ ~WriteFails(FinalStatus(obj), lost)
                    THEN timer
                    ELSE timer \cup {cur}
    /\ Rest
    /\ UNCHANGED <<cache, cluster, source, queue, completed, edits>>

-----------------------------------------------------------------------------
(* Around the worker: the queue, the cache, the process. *)

TimerFires(k) ==
    /\ k \in timer
    /\ timer' = timer \ {k}
    /\ queue' = queue \cup {k}
    /\ UNCHANGED <<store, cache, cluster, source, workerVars, completed, edits, faults>>

\* The predicates of For: GenerationChanged or ReconcileRequested on updates;
\* deletions always pass.
Noticed(old, new) ==
    \/ new.exists # old.exists
    \/ new.generation # old.generation
    \/ new.requestedAt # old.requestedAt

\* A watch event brings the cache up to date.
CacheSync(k) ==
    /\ cache[k] # store[k]
    /\ cache' = [cache EXCEPT ![k] = store[k]]
    /\ queue' = IF Noticed(cache[k], store[k]) THEN queue \cup {k} ELSE queue
    /\ UNCHANGED <<store, cluster, source, timer, workerVars, completed, edits, faults>>

\* The process dies and another takes over: memory, queue and timers are lost,
\* the new process lists the runs and queues them all.
Crash ==
    /\ Fault
    /\ Rest
    /\ cache' = store
    /\ queue' = {k \in Runs : store[k].exists}
    /\ timer' = {}
    /\ UNCHANGED <<store, cluster, source, completed, edits>>

-----------------------------------------------------------------------------
(* Users, the source-controller and third parties. *)

Edit == edits < MaxEdits /\ edits' = edits + 1

EditSpec(k, spec) ==
    /\ Edit
    /\ store[k].exists
    /\ ~store[k].deleting
    /\ spec # store[k].spec
    /\ store' = [store EXCEPT ![k].spec = spec, ![k].generation = @ + 1]
    /\ UNCHANGED <<cache, cluster, source, queue, timer, workerVars, completed, faults>>

Terminating(o) == [o EXCEPT !.deleting = TRUE, !.generation = o.generation + 1]

\* A run that has the finalizer stays until the controller removes it.
Delete(k) ==
    /\ Edit
    /\ store[k].exists
    /\ ~store[k].deleting
    /\ store' = [store EXCEPT ![k] = IF store[k].finalizer
                                     THEN Terminating(store[k])
                                     ELSE Absent]
    /\ UNCHANGED <<cache, cluster, source, queue, timer, workerVars, completed, faults>>

Request(k) ==
    /\ Edit
    /\ store[k].exists
    /\ store' = [store EXCEPT ![k].requestedAt = @ + 1]
    /\ UNCHANGED <<cache, cluster, source, queue, timer, workerVars, completed, faults>>

\* The runs to reconcile when GitRepository s has a new revision r: all of them,
\* but for those of s that are ready and attempted r last.
RequestsForRevisionChange(s, r) ==
    {k \in Runs :
        /\ cache[k].exists
        /\ ~ /\ IsReady(cache[k])
             /\ SourceOf[k] = s
             /\ k \in NamespacedRefs
             /\ cache[k].status.lastAttempted = r}

\* The list by ".metadata.source" fails: there is no such index.
RequestsForOCIRepositoryChange == {}

\* The map functions; a source without an artifact requests nothing.
Requests(s, artifact) ==
    CASE artifact \notin Revisions -> {}
      [] artifact \in Revisions /\ s \in GitRepositories ->
            RequestsForRevisionChange(s, artifact)
      [] OTHER -> RequestsForOCIRepositoryChange

\* Both the old and the new object of an update are mapped; one that takes the
\* artifact away does not pass the predicates.
Publish(s, artifact) ==
    /\ Edit
    /\ source[s] # artifact
    /\ source' = [source EXCEPT ![s] = artifact]
    /\ queue' = queue \cup IF artifact \in Revisions
                           THEN Requests(s, source[s]) \cup Requests(s, artifact)
                           ELSE {}
    /\ UNCHANGED <<store, cache, cluster, timer, workerVars, completed, faults>>

\* Somebody else deletes an applied object.
Drift(o) ==
    /\ Edit
    /\ cluster[o] \in Runs
    /\ cluster' = [cluster EXCEPT ![o] = Drifted]
    /\ UNCHANGED <<store, cache, source, queue, timer, workerVars, completed, faults>>

-----------------------------------------------------------------------------
(* The specification. *)

Start(k) ==
    \/ ReconcileNotFound(k)
    \/ ReconcileDeleted(k)
    \/ AddFinalizer(k)
    \/ ReconcileSuspended(k)
    \/ ReconcileActive(k)

Step ==
    \/ GetSource \/ SourceNotReady \/ GetSourceFails
    \/ DependenciesReady \/ DependenciesNotReady
    \/ ReportProgress
    \/ Build \/ BuildFails \/ FetchFails \/ ArgumentsFail
    \/ ApplyStage \/ ApplyStageFails
    \/ Prune \/ PruneFails
    \/ SkipHealthCheck \/ CheckHealth \/ WaitForSet \/ WaitForSetFails
    \/ ReportHealth
    \/ Finalize \/ FinalizeFails \/ FinalizeUnimpersonated
    \/ FinalizeStatus

Environment ==
    \/ \E k \in Runs : CacheSync(k) \/ TimerFires(k) \/ Delete(k) \/ Request(k)
    \/ \E k \in Runs, s \in SpecChoices : EditSpec(k, s)
    \/ \E s \in Sources, a \in Artifacts : Publish(s, a)
    \/ \E o \in Objects : Drift(o)
    \/ Crash

Next ==
    \/ \E k \in Runs : Start(k)
    \/ Step
    \/ Environment

Spec == Init /\ [][Next]_vars

\* The worker goes on; timers fire; watches deliver; and the queue is first in,
\* first out, so a run that is in it again and again is taken at last.
Fairness ==
    /\ WF_vars(Step)
    /\ \A k \in Runs : /\ SF_vars(Start(k))
                        /\ WF_vars(TimerFires(k))
                        /\ WF_vars(CacheSync(k))

FairSpec == Spec /\ Fairness
=============================================================================
