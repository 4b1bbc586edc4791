------------------------- MODULE KCLRunSafetyProofs -------------------------
(***************************************************************************)
(* Safety of the KCLRun controller, for every set of runs, objects,        *)
(* revisions and sources and for every bound on edits and faults: types,   *)
(* the finalizer comes before everything else, lastAppliedRevision is      *)
(* sound, and dependencies go first.                                       *)
(*                                                                         *)
(* Each inductive invariant says of the stored run what the property says, *)
(* and says it of the two copies the controller acts on as well: the one   *)
(* in its cache, however stale, and the one in memory.                     *)
(***************************************************************************)
EXTENDS KCLRunProperties, TLAPS

-----------------------------------------------------------------------------
(* The operators on KCLRuns keep to their types. *)

LEMMA StoredIsMemory == StoredRuns \subseteq MemoryRuns
BY DEF StoredRuns, MemoryRuns, KCLRuns, Conditions, ConditionStatus

LEMMA CreatedType ==
    ASSUME NEW spec \in Specs
    PROVE  Created(spec) \in StoredRuns
BY DEF Created, StoredRuns, KCLRuns, Conditions, ConditionStatus, Statuses

LEMMA AbsentType == Absent \in StoredRuns
<1>1. Created([suspend |-> FALSE, prune |-> FALSE, wait |-> FALSE]) \in StoredRuns
  BY CreatedType DEF Specs
<1> QED BY <1>1 DEF Absent, StoredRuns, KCLRuns

LEMMA MarkType ==
    ASSUME NEW o \in MemoryRuns
    PROVE  /\ \A s \in ConditionStatus \cup {"Invalid"} : MarkReady(o, s) \in MemoryRuns
           /\ \A r \in {"Absent", "Progressing", "ProgressingWithRetry"} :
                 MarkReconciling(o, r) \in MemoryRuns
           /\ \A s \in ConditionStatus : MarkHealthy(o, s) \in MemoryRuns
BY DEF MemoryRuns, KCLRuns, Conditions, MarkReady, MarkReconciling, MarkHealthy

LEMMA UnrefusedIsStored ==
    ASSUME NEW o \in MemoryRuns, ~Refused(o)
    PROVE  o \in StoredRuns
BY DEF Refused, StoredRuns, MemoryRuns, KCLRuns, Conditions

LEMMA MergeStatusType ==
    ASSUME NEW s \in Statuses, NEW b \in Statuses, NEW a \in Statuses
    PROVE  MergeStatus(s, b, a) \in Statuses
BY DEF Statuses, MergeStatus, Merge

LEMMA MergeConditionsType ==
    ASSUME NEW s \in Conditions(ConditionStatus), NEW b \in Conditions(ConditionStatus),
           NEW a \in Conditions(ConditionStatus)
    PROVE  MergeConditions(s, b, a) \in Conditions(ConditionStatus)
BY DEF Conditions, MergeConditions, Merge

LEMMA PatchedType ==
    ASSUME NEW stored \in StoredRuns, NEW b \in StoredRuns, NEW after \in MemoryRuns,
           NEW lost
    PROVE  Patched(stored, b, after, lost) \in StoredRuns
<1> DEFINE finalizer == IF "meta" \in lost
                        THEN stored.finalizer
                        ELSE Merge(stored.finalizer, b.finalizer, after.finalizer)
           status    == IF "status" \in lost
                        THEN stored.status
                        ELSE MergeStatus(stored.status, b.status, after.status)
           conds     == IF "conds" \in lost \/ Refused(after)
                        THEN stored.conds
                        ELSE MergeConditions(stored.conds, b.conds, after.conds)
<1>1. finalizer \in BOOLEAN
  BY DEF StoredRuns, MemoryRuns, KCLRuns, Merge
<1>2. status \in Statuses
  <2>1. /\ stored.status \in Statuses
        /\ b.status \in Statuses
        /\ after.status \in Statuses
    BY DEF StoredRuns, MemoryRuns, KCLRuns
  <2> QED BY <2>1, MergeStatusType
<1>3. conds \in Conditions(ConditionStatus)
  <2>1. /\ stored.conds \in Conditions(ConditionStatus)
        /\ b.conds \in Conditions(ConditionStatus)
    BY DEF StoredRuns, KCLRuns
  <2>2. CASE Refused(after)
    BY <2>1, <2>2
  <2>3. CASE ~Refused(after)
    <3>1. after.conds \in Conditions(ConditionStatus)
      BY <2>3, UnrefusedIsStored DEF StoredRuns, KCLRuns
    <3> QED BY <2>1, <3>1, MergeConditionsType
  <2> QED BY <2>2, <2>3
<1>4. [stored EXCEPT !.finalizer = finalizer, !.status = status, !.conds = conds]
        \in StoredRuns
  <2> HIDE DEF finalizer, status, conds
  <2> QED BY <1>1, <1>2, <1>3 DEF StoredRuns, KCLRuns
<1> QED
  BY <1>4, AbsentType DEF Patched

LEMMA FinalStatusType ==
    ASSUME NEW o \in MemoryRuns
    PROVE  FinalStatus(o) \in MemoryRuns
<1>1. HandleRequest(o) \in MemoryRuns
  BY DEF HandleRequest, MemoryRuns, KCLRuns, Statuses
<1>2. \A h \in MemoryRuns :
        [MarkReconciling(h, "Absent") EXCEPT !.status.observedGeneration = h.generation]
            \in MemoryRuns
  <2> TAKE h \in MemoryRuns
  <2>1. \A m \in MemoryRuns, n \in Int :
          [m EXCEPT !.status.observedGeneration = n] \in MemoryRuns
    BY DEF MemoryRuns, KCLRuns, Statuses
  <2>2. MarkReconciling(h, "Absent") \in MemoryRuns
    BY MarkType
  <2>3. h.generation \in Int
    BY DEF MemoryRuns, KCLRuns
  <2> QED BY <2>1, <2>2, <2>3
<1> QED
  BY <1>1, <1>2, MarkType DEF FinalStatus

-----------------------------------------------------------------------------
(* Type correctness.  The revision of an attempt is known once the source was *)
(* read: without this the history and lastApplied could not be typed.         *)

RevisionKnown == pc \in AttemptPcs \ {"getSource"} => rev \in Revisions

TypeInv == TypeOK /\ RevisionKnown

LEMMA FieldType ==
    ASSUME NEW o \in MemoryRuns
    PROVE  /\ RemoveFinalizer(o) \in MemoryRuns
           /\ [o EXCEPT !.finalizer = TRUE] \in MemoryRuns
           /\ o.generation \in Nat
BY DEF RemoveFinalizer, MemoryRuns, KCLRuns

LEMMA StatusType ==
    ASSUME NEW o \in MemoryRuns, TypeInv
    PROVE  /\ rev \in Revisions =>
                /\ InProgress(o) \in MemoryRuns
                /\ SetInventory(o) \in MemoryRuns
                /\ Succeeded(o) \in MemoryRuns
           /\ Waiting(o) \in MemoryRuns
<1>1. ASSUME rev \in Revisions PROVE SetInventory(o) \in MemoryRuns
  <2>1. Desired \subseteq Objects
    BY <1>1, ControllerAssumption DEF Desired, TypeInv, TypeOK
  <2> QED BY <2>1 DEF SetInventory, MemoryRuns, KCLRuns, Statuses
<1>2. ASSUME rev \in Revisions PROVE InProgress(o) \in MemoryRuns
  <2>1. \A m \in MemoryRuns : [m EXCEPT !.status.lastAttempted = rev] \in MemoryRuns
    BY <1>2 DEF MemoryRuns, KCLRuns, Statuses
  <2>2. MarkReconciling(MarkReady(o, "Unknown"), "Progressing") \in MemoryRuns
    BY MarkType DEF ConditionStatus
  <2> QED BY <2>1, <2>2 DEF InProgress
<1>3. ASSUME rev \in Revisions PROVE Succeeded(o) \in MemoryRuns
  <2>1. \A m \in MemoryRuns : [m EXCEPT !.status.lastApplied = rev] \in MemoryRuns
    BY <1>3 DEF MemoryRuns, KCLRuns, Statuses
  <2>2. MarkReady(o, "True") \in MemoryRuns
    BY MarkType DEF ConditionStatus
  <2> QED BY <2>1, <2>2 DEF Succeeded
<1>4. Waiting(o) \in MemoryRuns
  BY MarkType DEF Waiting, ConditionStatus
<1> QED BY <1>1, <1>2, <1>3, <1>4

LEMMA ClusterType ==
    ASSUME TypeInv, NEW set
    PROVE  /\ Applied(set) \in [Objects -> Runs \cup {NoOwner, Drifted}]
           /\ Deleted(set) \in [Objects -> Runs \cup {NoOwner, Drifted}]
BY DEF TypeInv, TypeOK, Applied, Deleted

LEMMA WriteType ==
    ASSUME TypeInv, NEW o \in MemoryRuns, NEW lost, Write(o, lost)
    PROVE  /\ store' \in [Runs -> StoredRuns]
           /\ faults' \in Nat
<1>1. /\ store \in [Runs -> StoredRuns]
      /\ before \in StoredRuns
      /\ cur \in Runs
      /\ faults \in Nat
  BY DEF TypeInv, TypeOK
<1>2. Patched(store[cur], before, o, lost) \in StoredRuns
  BY <1>1, PatchedType
<1> QED BY <1>1, <1>2 DEF Write

LEMMA PatchType ==
    ASSUME TypeInv, NEW o \in MemoryRuns, NEW lost, Patch(o, lost)
    PROVE  /\ store' \in [Runs -> StoredRuns]
           /\ faults' \in Nat
           /\ before' \in StoredRuns
<1>1. before \in StoredRuns
  BY DEF TypeInv, TypeOK
<1>2. ~WriteFails(o, lost) => o \in StoredRuns
  BY UnrefusedIsStored DEF WriteFails, PatchFails
<1> QED BY <1>1, <1>2, WriteType DEF Patch

\* The worker's memory after Continue, Return and Rest.
LEMMA MemoryType ==
    ASSUME TypeInv, NEW o \in MemoryRuns
    PROVE  /\ \A next \in Pcs : Continue(o, next) =>
                obj' \in MemoryRuns /\ pc' \in Pcs /\ result' \in Results
           /\ \A res \in Results : Return(o, res) =>
                obj' \in MemoryRuns /\ pc' \in Pcs /\ result' \in Results
BY DEF Continue, Return, Pcs, Results

LEMMA RestType ==
    ASSUME Rest
    PROVE  /\ pc' \in Pcs
           /\ cur' \in Runs
           /\ obj' \in MemoryRuns
           /\ before' \in StoredRuns
           /\ rev' \in Revisions \cup {NoRevision}
           /\ result' \in Results
           /\ fresh' \in BOOLEAN
           /\ RevisionKnown'
<1>1. AnyRun \in Runs
  BY ControllerAssumption DEF AnyRun
<1> QED BY <1>1, AbsentType, StoredIsMemory
        DEF Rest, Pcs, Results, RevisionKnown, AttemptPcs

LEMMA TypeInit == Init => TypeInv
<1> SUFFICES ASSUME Init PROVE TypeInv
  OBVIOUS
<1>1. store \in [Runs -> StoredRuns]
  BY CreatedType, ControllerAssumption DEF Init
<1>2. AnyRun \in Runs
  BY ControllerAssumption DEF AnyRun
<1> QED BY <1>1, <1>2, AbsentType, StoredIsMemory
        DEF Init, IdleWorker, TypeInv, TypeOK, RevisionKnown, AttemptPcs, Pcs, Results

\* The steps that take a run off the queue.
LEMMA TypeStart ==
    ASSUME TypeInv, NEW k \in Runs, Start(k)
    PROVE  TypeInv'
<1> USE DEF TypeInv, TypeOK, Get, Load, Fault
<1>1. /\ cache[k] \in StoredRuns
      /\ cache[k] \in MemoryRuns
  BY StoredIsMemory
<1>2. ASSUME Load(k), NEW o \in MemoryRuns, NEW res \in Results, Return(o, res)
      PROVE  TypeInv'
  BY <1>1, <1>2 DEF Return, RevisionKnown, AttemptPcs, Pcs
<1>3. CASE ReconcileNotFound(k)
  BY <1>3 DEF ReconcileNotFound, RevisionKnown, workerVars
<1>4. CASE ReconcileDeleted(k)
  <2>1. CASE PrunesOnDeletion(cache[k])
    BY <1>1, <1>4, <2>1
       DEF ReconcileDeleted, Continue, RevisionKnown, AttemptPcs, Pcs, Results
  <2>2. CASE ~PrunesOnDeletion(cache[k])
    <3>1. RemoveFinalizer(cache[k]) \in MemoryRuns
      BY <1>1, FieldType
    <3>2. Load(k) /\ Return(RemoveFinalizer(cache[k]), "stop")
      BY <1>4, <2>2 DEF ReconcileDeleted
    <3> QED BY <1>2, <3>1, <3>2 DEF Results
  <2> QED BY <2>1, <2>2
<1>5. CASE AddFinalizer(k)
  <2>1. [cache[k] EXCEPT !.finalizer = TRUE] \in MemoryRuns
    BY <1>1, FieldType
  <2> QED BY <1>2, <1>5, <2>1 DEF AddFinalizer, Results
<1>6. CASE ReconcileSuspended(k)
  BY <1>1, <1>2, <1>6 DEF ReconcileSuspended, Results
<1>7. CASE ReconcileActive(k)
  BY <1>1, <1>7
     DEF ReconcileActive, Continue, RevisionKnown, AttemptPcs, Pcs, RolloutPcs,
         ApplyPcs, HealthPcs, Results
<1> QED BY <1>3, <1>4, <1>5, <1>6, <1>7 DEF Start

\* The steps inside a reconcile, up to the roll-out.
LEMMA TypePrepare ==
    ASSUME TypeInv,
           \/ GetSource \/ SourceNotReady \/ GetSourceFails
           \/ DependenciesReady \/ DependenciesNotReady
           \/ ReportProgress
           \/ Build \/ BuildFails \/ FetchFails \/ ArgumentsFail
    PROVE  TypeInv'
<1> USE DEF TypeInv, TypeOK, Fault, environment
<1>0. obj \in MemoryRuns /\ MarkReady(obj, "False") \in MemoryRuns
         /\ MarkReady(obj, "Invalid") \in MemoryRuns
  BY MarkType DEF ConditionStatus
<1> USE <1>0
<1>1. CASE GetSource
  BY <1>1 DEF GetSource, Continue, RevisionKnown, Pcs, RolloutPcs, Results
<1>2. CASE SourceNotReady
  BY <1>2, MemoryType DEF SourceNotReady, Return, RevisionKnown, AttemptPcs, Results
<1>3. CASE GetSourceFails
  BY <1>3, MemoryType DEF GetSourceFails, Return, RevisionKnown, AttemptPcs, Results
<1>4. CASE DependenciesReady
  BY <1>4 DEF DependenciesReady, Continue, RevisionKnown, AttemptPcs, Pcs, Results
<1>5. CASE DependenciesNotReady
  BY <1>5, MemoryType DEF DependenciesNotReady, Return, RevisionKnown, AttemptPcs, Results
<1>6. CASE ReportProgress
  <2>1. rev \in Revisions
    BY <1>6 DEF ReportProgress, RevisionKnown, AttemptPcs, Pcs
  <2>2. InProgress(obj) \in MemoryRuns
    BY <2>1, StatusType
  <2>3. PICK lost :
          /\ Patch(InProgress(obj), lost)
          /\ IF WriteFails(InProgress(obj), lost)
             THEN Return(InProgress(obj), "error")
             ELSE Continue(InProgress(obj), "build")
    BY <1>6 DEF ReportProgress
  <2>4. /\ store' \in [Runs -> StoredRuns]
        /\ faults' \in Nat
        /\ before' \in StoredRuns
    BY <2>2, <2>3, PatchType
  <2>5. obj' \in MemoryRuns /\ pc' \in Pcs /\ result' \in Results
    BY <2>2, <2>3, MemoryType DEF Pcs, Results
  <2>6. UNCHANGED <<environment, cluster, rev, completed>>
    BY <1>6 DEF ReportProgress
  <2> QED BY <2>1, <2>4, <2>5, <2>6 DEF RevisionKnown
<1>7. CASE Build
  BY <1>7 DEF Build, Continue, RevisionKnown, AttemptPcs, Pcs, RolloutPcs, ApplyPcs, Results
<1>8. CASE BuildFails
  BY <1>8, MemoryType DEF BuildFails, Return, RevisionKnown, AttemptPcs, Results
<1>9. CASE FetchFails
  BY <1>9, MemoryType DEF FetchFails, Return, RevisionKnown, AttemptPcs, Results
<1>10. CASE ArgumentsFail
  BY <1>10, MemoryType DEF ArgumentsFail, Return, RevisionKnown, AttemptPcs, Results
<1> QED BY <1>1, <1>2, <1>3, <1>4, <1>5, <1>6, <1>7, <1>8, <1>9, <1>10

\* The steps of the roll-out.
LEMMA TypeRollout ==
    ASSUME TypeInv,
           \/ ApplyStage \/ ApplyStageFails \/ Prune \/ PruneFails
           \/ SkipHealthCheck \/ CheckHealth \/ WaitForSet \/ WaitForSetFails
           \/ ReportHealth
    PROVE  TypeInv'
<1> USE DEF TypeInv, TypeOK, Fault, environment
<1>0. pc \in RolloutPcs
  BY DEF ApplyStage, ApplyStageFails, Prune, PruneFails, SkipHealthCheck, CheckHealth,
         WaitForSet, WaitForSetFails, ReportHealth, RolloutPcs, ApplyPcs, HealthPcs
<1>1. rev \in Revisions
  BY <1>0 DEF RevisionKnown, AttemptPcs, Pcs, RolloutPcs, ApplyPcs, HealthPcs
<1>2. /\ obj \in MemoryRuns
      /\ SetInventory(obj) \in MemoryRuns
      /\ Waiting(obj) \in MemoryRuns
  BY <1>1, StatusType
<1>3. \A o \in MemoryRuns : /\ MarkReady(o, "False") \in MemoryRuns
                            /\ MarkHealthy(o, "Absent") \in MemoryRuns
                            /\ MarkHealthy(o, "False") \in MemoryRuns
                            /\ MarkHealthy(o, "True") \in MemoryRuns
                            /\ Succeeded(o) \in MemoryRuns
  BY <1>1, MarkType, StatusType DEF ConditionStatus
<1>4. \A o \in MemoryRuns : Succeed(o) =>
          /\ obj' \in MemoryRuns /\ pc' \in Pcs /\ result' \in Results
          /\ completed' \in [Runs -> SUBSET (Nat \X Revisions)]
  <2> SUFFICES ASSUME NEW o \in MemoryRuns, Succeed(o)
               PROVE  /\ obj' \in MemoryRuns /\ pc' \in Pcs /\ result' \in Results
                      /\ completed' \in [Runs -> SUBSET (Nat \X Revisions)]
    OBVIOUS
  <2>1. o.generation \in Nat
    BY FieldType
  <2>2. obj' \in MemoryRuns /\ pc' \in Pcs /\ result' \in Results
    BY <1>3, MemoryType DEF Succeed, Results
  <2> QED BY <1>1, <2>1, <2>2 DEF Succeed
<1>5. CASE ApplyStage
  <2>1. pc' \in Pcs
    BY <1>5 DEF ApplyStage, AfterStage, Continue, ApplyPcs, Pcs, RolloutPcs
  <2> QED BY <1>1, <1>2, <1>5, <2>1, ClusterType
          DEF ApplyStage, Continue, RevisionKnown, Results
<1>6. CASE ApplyStageFails
  BY <1>1, <1>2, <1>3, <1>6, ClusterType, MemoryType
     DEF ApplyStageFails, RevisionKnown, Results
<1>7. CASE Prune
  BY <1>1, <1>2, <1>7, ClusterType
     DEF Prune, Continue, RevisionKnown, Pcs, RolloutPcs, HealthPcs, Results
<1>8. CASE PruneFails
  BY <1>1, <1>2, <1>3, <1>8, ClusterType, MemoryType
     DEF PruneFails, RevisionKnown, Results
<1>9. CASE SkipHealthCheck
  BY <1>1, <1>2, <1>3, <1>4, <1>9 DEF SkipHealthCheck, RevisionKnown
<1>10. CASE CheckHealth
  <2>1. PICK lost :
          /\ Patch(Waiting(obj), lost)
          /\ IF WriteFails(Waiting(obj), lost)
             THEN Return(MarkReady(Waiting(obj), "False"), "error")
             ELSE Continue(Waiting(obj), "waitForSet")
    BY <1>10 DEF CheckHealth
  <2>2. /\ store' \in [Runs -> StoredRuns]
        /\ faults' \in Nat
        /\ before' \in StoredRuns
    BY <1>2, <2>1, PatchType
  <2>3. obj' \in MemoryRuns /\ pc' \in Pcs /\ result' \in Results
    BY <1>2, <1>3, <2>1, MemoryType DEF Pcs, RolloutPcs, HealthPcs, Results
  <2>4. UNCHANGED <<environment, cluster, rev, completed>>
    BY <1>10 DEF CheckHealth
  <2> QED BY <1>1, <2>2, <2>3, <2>4 DEF RevisionKnown
<1>11. CASE WaitForSet
  BY <1>1, <1>2, <1>3, <1>11
     DEF WaitForSet, Continue, RevisionKnown, Pcs, RolloutPcs, HealthPcs, Results
<1>12. CASE WaitForSetFails
  BY <1>1, <1>2, <1>3, <1>12, MemoryType DEF WaitForSetFails, RevisionKnown, Results
<1>13. CASE ReportHealth
  <2>1. PICK lost :
          /\ Patch(obj, lost)
          /\ IF WriteFails(obj, lost)
             THEN Return(MarkReady(obj, "False"), "error") /\ UNCHANGED completed
             ELSE Succeed(obj)
    BY <1>13 DEF ReportHealth
  <2>2. /\ store' \in [Runs -> StoredRuns]
        /\ faults' \in Nat
        /\ before' \in StoredRuns
    BY <1>2, <2>1, PatchType
  <2>3. /\ obj' \in MemoryRuns /\ pc' \in Pcs /\ result' \in Results
        /\ completed' \in [Runs -> SUBSET (Nat \X Revisions)]
    BY <1>2, <1>3, <1>4, <2>1, MemoryType DEF Results
  <2>4. UNCHANGED <<environment, cluster, rev>>
    BY <1>13 DEF ReportHealth
  <2> QED BY <1>1, <2>2, <2>3, <2>4 DEF RevisionKnown
<1> QED BY <1>5, <1>6, <1>7, <1>8, <1>9, <1>10, <1>11, <1>12, <1>13

\* The end of a reconcile.
LEMMA TypeEnd ==
    ASSUME TypeInv,
           Finalize \/ FinalizeFails \/ FinalizeUnimpersonated \/ FinalizeStatus
    PROVE  TypeInv'
<1> USE DEF TypeInv, TypeOK, Fault, environment
<1>1. RemoveFinalizer(obj) \in MemoryRuns
  BY FieldType
<1>2. CASE Finalize
  BY <1>1, <1>2, ClusterType, MemoryType
     DEF Finalize, Return, RevisionKnown, AttemptPcs, Results
<1>3. CASE FinalizeFails
  BY <1>3, ClusterType, MemoryType
     DEF FinalizeFails, Return, RevisionKnown, AttemptPcs, Results
<1>4. CASE FinalizeUnimpersonated
  BY <1>1, <1>4, MemoryType
     DEF FinalizeUnimpersonated, Return, RevisionKnown, AttemptPcs, Results
<1>5. CASE FinalizeStatus
  <2>1. FinalStatus(obj) \in MemoryRuns
    BY FinalStatusType
  <2>2. PICK lost : Write(FinalStatus(obj), lost)
    BY <1>5 DEF FinalizeStatus
  <2>3. store' \in [Runs -> StoredRuns] /\ faults' \in Nat
    BY <2>1, <2>2, WriteType
  <2>4. timer' \subseteq Runs
    BY <1>5 DEF FinalizeStatus
  <2> QED BY <1>5, <2>3, <2>4, RestType DEF FinalizeStatus
<1> QED BY <1>2, <1>3, <1>4, <1>5

LEMMA UserType ==
    ASSUME NEW o \in StoredRuns
    PROVE  /\ \A s \in Specs :
                [o EXCEPT !.spec = s, !.generation = o.generation + 1] \in StoredRuns
           /\ Terminating(o) \in StoredRuns
           /\ [o EXCEPT !.requestedAt = o.requestedAt + 1] \in StoredRuns
<1>1. o.generation + 1 \in Nat /\ o.requestedAt + 1 \in Nat
  BY DEF StoredRuns, KCLRuns
<1>2. \A s \in Specs, n \in Nat : [o EXCEPT !.spec = s, !.generation = n] \in StoredRuns
  BY DEF StoredRuns, KCLRuns
<1>3. \A n \in Nat : [o EXCEPT !.deleting = TRUE, !.generation = n] \in StoredRuns
  BY DEF StoredRuns, KCLRuns
<1>4. \A n \in Nat : [o EXCEPT !.requestedAt = n] \in StoredRuns
  BY DEF StoredRuns, KCLRuns
<1> QED BY <1>1, <1>2, <1>3, <1>4 DEF Terminating

\* What happens around the worker.
LEMMA TypeEnvironment ==
    ASSUME TypeInv, Environment
    PROVE  TypeInv'
<1> USE DEF TypeInv, TypeOK, Edit, workerVars, RevisionKnown
<1>1. ASSUME NEW k \in Runs, CacheSync(k) PROVE TypeInv'
  BY <1>1 DEF CacheSync
<1>2. ASSUME NEW k \in Runs, TimerFires(k) PROVE TypeInv'
  BY <1>2 DEF TimerFires
<1>3. ASSUME NEW k \in Runs, Delete(k) PROVE TypeInv'
  <2>1. store' \in [Runs -> StoredRuns]
    BY <1>3, AbsentType, UserType DEF Delete
  <2> QED BY <1>3, <2>1 DEF Delete
<1>4. ASSUME NEW k \in Runs, Request(k) PROVE TypeInv'
  <2>1. store' \in [Runs -> StoredRuns]
    BY <1>4, UserType DEF Request
  <2> QED BY <1>4, <2>1 DEF Request
<1>5. ASSUME NEW k \in Runs, NEW s \in SpecChoices, EditSpec(k, s) PROVE TypeInv'
  <2>1. store' \in [Runs -> StoredRuns]
    BY <1>5, UserType, ControllerAssumption DEF EditSpec
  <2> QED BY <1>5, <2>1 DEF EditSpec
<1>6. ASSUME NEW s \in Sources, NEW a \in Artifacts, Publish(s, a) PROVE TypeInv'
  <2>1. Requests(s, source[s]) \subseteq Runs /\ Requests(s, a) \subseteq Runs
    BY DEF Requests, RequestsForRevisionChange, RequestsForOCIRepositoryChange
  <2>2. queue' \subseteq Runs
    BY <1>6, <2>1 DEF Publish, TypeInv
  <2> QED BY <1>6, <2>2 DEF Publish
<1>7. ASSUME NEW o \in Objects, Drift(o) PROVE TypeInv'
  BY <1>7 DEF Drift
<1>8. CASE Crash
  BY <1>8, RestType DEF Crash, Fault
<1> QED BY <1>1, <1>2, <1>3, <1>4, <1>5, <1>6, <1>7, <1>8 DEF Environment

LEMMA TypeStep == TypeInv /\ [Next]_vars => TypeInv'
<1> SUFFICES ASSUME TypeInv, [Next]_vars PROVE TypeInv'
  OBVIOUS
<1>1. ASSUME NEW k \in Runs, Start(k) PROVE TypeInv'
  BY <1>1, TypeStart
<1>2. CASE Step
  BY <1>2, TypePrepare, TypeRollout, TypeEnd DEF Step
<1>3. CASE Environment
  BY <1>3, TypeEnvironment
<1>4. CASE UNCHANGED vars
  BY <1>4 DEF vars, workerVars, TypeInv, TypeOK, RevisionKnown
<1> QED BY <1>1, <1>2, <1>3, <1>4 DEF Next

\* Every variable keeps its type, whatever fails or is reordered; in particular
\* no condition with a reason the CRD refuses is ever stored.
THEOREM TypeCorrect == Spec => []TypeOK
<1>1. Spec => []TypeInv
  BY TypeInit, TypeStep, PTL DEF Spec
<1>2. TypeInv => TypeOK
  BY DEF TypeInv
<1> QED BY <1>1, <1>2, PTL

-----------------------------------------------------------------------------
(* What the properties of safety are not about. *)

\* p is o, but for what none of the properties is about.
SameRun(o, p) ==
    /\ p \in MemoryRuns
    /\ p.finalizer = o.finalizer
    /\ p.deleting = o.deleting
    /\ p.status.lastApplied = o.status.lastApplied
    /\ p.status.lastAttempted = o.status.lastAttempted

LEMMA SameRunTransitive ==
    ASSUME NEW o, NEW p, NEW q, SameRun(o, p), SameRun(p, q)
    PROVE  SameRun(o, q)
BY DEF SameRun

LEMMA MarkSame ==
    ASSUME NEW o \in MemoryRuns
    PROVE  /\ SameRun(o, o)
           /\ \A s \in ConditionStatus \cup {"Invalid"} : SameRun(o, MarkReady(o, s))
           /\ \A s \in ConditionStatus : SameRun(o, MarkHealthy(o, s))
           /\ \A r \in {"Absent", "Progressing", "ProgressingWithRetry"} :
                SameRun(o, MarkReconciling(o, r))
<1>1. \A s : /\ MarkReady(o, s) \in MemoryRuns => SameRun(o, MarkReady(o, s))
             /\ MarkHealthy(o, s) \in MemoryRuns => SameRun(o, MarkHealthy(o, s))
             /\ MarkReconciling(o, s) \in MemoryRuns => SameRun(o, MarkReconciling(o, s))
  BY DEF SameRun, MarkReady, MarkHealthy, MarkReconciling, MemoryRuns, KCLRuns
<1>2. SameRun(o, o)
  BY DEF SameRun
<1> QED BY <1>1, <1>2, MarkType

LEMMA FinalStatusSame ==
    ASSUME NEW o \in MemoryRuns
    PROVE  SameRun(o, FinalStatus(o))
<1>1. SameRun(o, HandleRequest(o))
  BY DEF HandleRequest, SameRun, MemoryRuns, KCLRuns, Statuses
<1>2. HandleRequest(o) \in MemoryRuns
  BY <1>1 DEF SameRun
<1>3. \A m \in MemoryRuns, n \in Int :
        SameRun(m, [m EXCEPT !.status.observedGeneration = n])
  BY DEF SameRun, MemoryRuns, KCLRuns, Statuses
<1>4. ASSUME NEW h \in MemoryRuns
      PROVE  SameRun(h, [MarkReconciling(h, "Absent")
                            EXCEPT !.status.observedGeneration = h.generation])
  <2>1. h.generation \in Int
    BY DEF MemoryRuns, KCLRuns
  <2>2. SameRun(h, MarkReconciling(h, "Absent"))
    BY MarkSame
  <2>3. MarkReconciling(h, "Absent") \in MemoryRuns
    BY <2>2 DEF SameRun
  <2> QED BY <1>3, <2>1, <2>2, <2>3, SameRunTransitive
<1>5. SameRun(HandleRequest(o), FinalStatus(o))
  BY <1>2, <1>4, MarkSame DEF FinalStatus
<1> QED BY <1>1, <1>5, SameRunTransitive

\* The worker records the attempted revision, and the applied one, on top.
LEMMA UpdateSame ==
    ASSUME TypeInv, rev \in Revisions, NEW o \in MemoryRuns
    PROVE  /\ SameRun(o, SetInventory(o))
           /\ /\ InProgress(o) \in MemoryRuns
              /\ InProgress(o).finalizer = o.finalizer
              /\ InProgress(o).deleting = o.deleting
              /\ InProgress(o).status.lastApplied = o.status.lastApplied
              /\ InProgress(o).status.lastAttempted = rev
           /\ /\ Succeeded(o) \in MemoryRuns
              /\ Succeeded(o).finalizer = o.finalizer
              /\ Succeeded(o).deleting = o.deleting
              /\ Succeeded(o).status.lastApplied = rev
              /\ Succeeded(o).status.lastAttempted = o.status.lastAttempted
<1>1. SameRun(o, SetInventory(o))
  BY StatusType DEF SetInventory, SameRun, MemoryRuns, KCLRuns, Statuses
<1>2. SameRun(o, MarkReconciling(MarkReady(o, "Unknown"), "Progressing"))
  BY MarkSame, MarkType, SameRunTransitive DEF ConditionStatus
<1>3. SameRun(o, MarkReady(o, "True"))
  BY MarkSame DEF ConditionStatus
<1>4. \A m \in MemoryRuns :
        /\ [m EXCEPT !.status.lastAttempted = rev].finalizer = m.finalizer
        /\ [m EXCEPT !.status.lastAttempted = rev].deleting = m.deleting
        /\ [m EXCEPT !.status.lastAttempted = rev].status.lastApplied = m.status.lastApplied
        /\ [m EXCEPT !.status.lastAttempted = rev].status.lastAttempted = rev
  BY DEF MemoryRuns, KCLRuns, Statuses
<1>5. \A m \in MemoryRuns :
        /\ [m EXCEPT !.status.lastApplied = rev].finalizer = m.finalizer
        /\ [m EXCEPT !.status.lastApplied = rev].deleting = m.deleting
        /\ [m EXCEPT !.status.lastApplied = rev].status.lastApplied = rev
        /\ [m EXCEPT !.status.lastApplied = rev].status.lastAttempted = m.status.lastAttempted
  BY DEF MemoryRuns, KCLRuns, Statuses
<1> QED BY <1>1, <1>2, <1>3, <1>4, <1>5, StatusType DEF InProgress, Succeeded, SameRun

-----------------------------------------------------------------------------
(* What a step of the worker does to the run, in the terms of the invariants. *)

\* The dependencies were checked.
CheckedPcs == RolloutPcs \cup {"reportProgress", "build"}

\* p is what this step makes of the in-memory run: it may record the revision
\* attempted once the dependencies were checked.
Derived(p) ==
    /\ p \in MemoryRuns
    /\ p.finalizer = obj.finalizer
    /\ p.deleting = obj.deleting
    /\ p.status.lastApplied = obj.status.lastApplied
    /\ \/ p.status.lastAttempted = obj.status.lastAttempted
       \/ pc \in CheckedPcs /\ p.status.lastAttempted = rev

\* Or it records the revision applied, along with the history.
Completing(p) ==
    /\ p \in MemoryRuns
    /\ p.finalizer = obj.finalizer
    /\ p.deleting = obj.deleting
    /\ p.status.lastApplied = rev
    /\ <<obj.generation, rev>> \in completed'[cur]
    /\ p.status.lastAttempted = obj.status.lastAttempted

\* A patch neither revives a run nor undoes its deletion, and takes the
\* finalizer away only if the controller removed it from its copy.
LEMMA PatchedKeeps ==
    ASSUME NEW stored \in StoredRuns, NEW b \in StoredRuns, NEW o \in MemoryRuns, NEW lost
    PROVE  LET p == Patched(stored, b, o, lost)
           IN  /\ stored.deleting \/ ~stored.exists => p.deleting \/ ~p.exists
               /\ ~stored.exists => ~p.exists
               /\ o.finalizer /\ stored.exists /\ stored.finalizer => p.exists /\ p.finalizer
<1>1. Absent.exists = FALSE
  BY DEF Absent, Created
<1> QED BY <1>1 DEF Patched, Merge, StoredRuns, MemoryRuns, KCLRuns

\* No step of the worker touches the cache or forgets a completed roll-out; it
\* writes at most what it derived from its copy; the copy changes as above,
\* unless the reconcile ends or finalize takes the finalizer off; and only a
\* check of the dependencies leads on to the roll-out.
StepEffect ==
    /\ cache' = cache
    /\ \A k \in Runs : completed[k] \subseteq completed'[k]
    /\ \/ store' = store
       \/ \E o, lost : Derived(o) /\ Write(o, lost)
    /\ \/ pc' = "idle"
       \/ /\ pc # "idle"
          /\ cur' = cur
          /\ \/ Derived(obj')
             \/ Completing(obj')
             \/ pc = "finalize" /\ obj' = RemoveFinalizer(obj)
          /\ pc' \in AttemptPcs => pc \in AttemptPcs
          /\ pc \in CheckedPcs => rev' = rev
          /\ pc' \in CheckedPcs \ {pc} =>
                \/ pc \in CheckedPcs
                \/ \A d \in DependsOn[cur] : DependencyReady(cur, d, rev')
          /\ pc' # "finalize"

LEMMA SameDerived ==
    ASSUME NEW p, SameRun(obj, p)
    PROVE  Derived(p)
BY DEF SameRun, Derived

\* A step that leaves the run in the API server and the history alone.
LEMMA QuietStep ==
    ASSUME TypeInv, pc # "idle", SameRun(obj, obj'),
           UNCHANGED <<store, cache, cur, completed>>,
           rev' = rev \/ pc = "getSource",
           pc' \in AttemptPcs => pc \in AttemptPcs,
           pc' # "finalize",
           pc' \in CheckedPcs \ {pc} =>
                \/ pc \in CheckedPcs
                \/ \A d \in DependsOn[cur] : DependencyReady(cur, d, rev')
    PROVE  StepEffect
<1>1. pc \in CheckedPcs => rev' = rev
  BY DEF CheckedPcs, RolloutPcs, ApplyPcs, HealthPcs
<1> QED BY <1>1, SameDerived DEF StepEffect

LEMMA PrepareEffect ==
    ASSUME TypeInv,
           \/ GetSource \/ SourceNotReady \/ GetSourceFails
           \/ DependenciesReady \/ DependenciesNotReady
           \/ ReportProgress
           \/ Build \/ BuildFails \/ FetchFails \/ ArgumentsFail
    PROVE  StepEffect
<1> USE DEF environment, Continue, Return
<1>0. /\ obj \in MemoryRuns
      /\ SameRun(obj, obj)
      /\ SameRun(obj, MarkReady(obj, "False"))
      /\ SameRun(obj, MarkReady(obj, "Invalid"))
  BY MarkSame DEF TypeInv, TypeOK, ConditionStatus
<1>a. /\ {"getSource", "checkDependencies", "reportProgress", "build",
           "applyDefinitions"} \subseteq AttemptPcs
      /\ {"reportProgress", "build", "applyDefinitions"} \subseteq CheckedPcs
      /\ "finalizeStatus" \notin AttemptPcs \cup CheckedPcs
      /\ "checkDependencies" \notin CheckedPcs
  BY DEF AttemptPcs, CheckedPcs, Pcs, RolloutPcs, ApplyPcs, HealthPcs
<1>1. CASE GetSource
  BY <1>0, <1>a, <1>1, QuietStep DEF GetSource
<1>2. CASE SourceNotReady
  BY <1>0, <1>a, <1>2, QuietStep DEF SourceNotReady
<1>3. CASE GetSourceFails
  BY <1>0, <1>a, <1>3, QuietStep DEF GetSourceFails
<1>4. CASE DependenciesReady
  BY <1>0, <1>a, <1>4, QuietStep DEF DependenciesReady
<1>5. CASE DependenciesNotReady
  BY <1>0, <1>a, <1>5, QuietStep DEF DependenciesNotReady
<1>6. CASE ReportProgress
  <2>1. pc = "reportProgress" /\ rev \in Revisions
    BY <1>6, <1>a DEF ReportProgress, TypeInv, RevisionKnown
  <2>2. Derived(InProgress(obj))
    BY <1>0, <1>a, <2>1, UpdateSame DEF Derived
  <2>3. PICK lost :
          /\ Patch(InProgress(obj), lost)
          /\ IF WriteFails(InProgress(obj), lost)
             THEN Return(InProgress(obj), "error")
             ELSE Continue(InProgress(obj), "build")
    BY <1>6 DEF ReportProgress
  <2>4. Write(InProgress(obj), lost)
    BY <2>3 DEF Patch
  <2>5. UNCHANGED <<environment, cluster, rev, completed>>
    BY <1>6 DEF ReportProgress
  <2> QED BY <1>a, <2>1, <2>2, <2>3, <2>4, <2>5 DEF StepEffect
<1>7. CASE Build
  BY <1>0, <1>a, <1>7, QuietStep DEF Build
<1>8. CASE BuildFails
  BY <1>0, <1>a, <1>8, QuietStep DEF BuildFails
<1>9. CASE FetchFails
  BY <1>0, <1>a, <1>9, QuietStep DEF FetchFails
<1>10. CASE ArgumentsFail
  BY <1>0, <1>a, <1>10, QuietStep DEF ArgumentsFail
<1> QED BY <1>1, <1>2, <1>3, <1>4, <1>5, <1>6, <1>7, <1>8, <1>9, <1>10

LEMMA RolloutEffect ==
    ASSUME TypeInv,
           \/ ApplyStage \/ ApplyStageFails \/ Prune \/ PruneFails
           \/ SkipHealthCheck \/ CheckHealth \/ WaitForSet \/ WaitForSetFails
           \/ ReportHealth
    PROVE  StepEffect
<1> USE DEF environment, Continue, Return
<1>1. pc \in RolloutPcs
  BY DEF ApplyStage, ApplyStageFails, Prune, PruneFails, SkipHealthCheck, CheckHealth,
         WaitForSet, WaitForSetFails, ReportHealth, RolloutPcs, ApplyPcs, HealthPcs
<1>2. /\ RolloutPcs \subseteq AttemptPcs
      /\ RolloutPcs \subseteq CheckedPcs
      /\ {"idle", "getSource", "finalize", "finalizeStatus"} \cap RolloutPcs = {}
      /\ "finalizeStatus" \notin AttemptPcs \cup CheckedPcs
  BY DEF AttemptPcs, CheckedPcs, Pcs, RolloutPcs, ApplyPcs, HealthPcs
<1>3. rev \in Revisions
  BY <1>1, <1>2 DEF TypeInv, RevisionKnown
<1>4. /\ obj \in MemoryRuns
      /\ cur \in Runs
      /\ completed \in [Runs -> SUBSET (Nat \X Revisions)]
  BY DEF TypeInv, TypeOK
<1>5. /\ SameRun(obj, obj)
      /\ SameRun(obj, SetInventory(obj))
      /\ SameRun(obj, Waiting(obj))
      /\ SameRun(obj, MarkHealthy(obj, "Absent"))
      /\ SameRun(obj, MarkHealthy(obj, "False"))
      /\ SameRun(obj, MarkHealthy(obj, "True"))
  <2>1. SameRun(obj, MarkReconciling(obj, "Progressing"))
    BY <1>4, MarkSame
  <2>2. SameRun(obj, Waiting(obj))
    BY <2>1, MarkSame, SameRunTransitive DEF Waiting, SameRun, ConditionStatus
  <2> QED BY <1>3, <1>4, <2>2, MarkSame, UpdateSame DEF ConditionStatus
<1>6. ASSUME NEW o, SameRun(obj, o)
      PROVE  SameRun(obj, MarkReady(o, "False"))
  <2>1. o \in MemoryRuns
    BY <1>6 DEF SameRun
  <2>2. SameRun(o, MarkReady(o, "False"))
    BY <2>1, MarkSame DEF ConditionStatus
  <2> QED BY <1>6, <2>2, SameRunTransitive
<1>7. \A o : SameRun(obj, o) /\ o.generation = obj.generation /\ Succeed(o) =>
          /\ Completing(obj')
          /\ \A k \in Runs : completed[k] \subseteq completed'[k]
  <2> SUFFICES ASSUME NEW o, SameRun(obj, o), o.generation = obj.generation, Succeed(o)
               PROVE  /\ Completing(obj')
                      /\ \A k \in Runs : completed[k] \subseteq completed'[k]
    OBVIOUS
  <2>1. obj' = Succeeded(o)
    BY DEF Succeed
  <2>2. completed' = [completed EXCEPT ![cur] = @ \cup {<<o.generation, rev>>}]
    BY DEF Succeed
  <2> QED BY <1>3, <1>4, <2>1, <2>2, UpdateSame DEF Completing, SameRun
<1>8. CASE ApplyStage
  BY <1>1, <1>2, <1>5, <1>8, QuietStep DEF ApplyStage, AfterStage, ApplyPcs
<1>9. CASE ApplyStageFails
  BY <1>1, <1>2, <1>5, <1>6, <1>9, QuietStep DEF ApplyStageFails
<1>10. CASE Prune
  BY <1>1, <1>2, <1>5, <1>10, QuietStep DEF Prune
<1>11. CASE PruneFails
  BY <1>1, <1>2, <1>5, <1>6, <1>11, QuietStep DEF PruneFails
<1>12. CASE SkipHealthCheck
  <2>1. MarkHealthy(obj, "Absent").generation = obj.generation
    BY <1>4 DEF MarkHealthy, MemoryRuns, KCLRuns
  <2>2. /\ Succeed(MarkHealthy(obj, "Absent"))
        /\ UNCHANGED <<environment, store, cluster, before, rev, faults>>
    BY <1>12 DEF SkipHealthCheck
  <2>3. pc' = "finalizeStatus"
    BY <2>2 DEF Succeed
  <2> QED BY <1>1, <1>2, <1>5, <1>7, <2>1, <2>2, <2>3 DEF StepEffect
<1>13. CASE CheckHealth
  <2>1. PICK lost :
          /\ Patch(Waiting(obj), lost)
          /\ IF WriteFails(Waiting(obj), lost)
             THEN Return(MarkReady(Waiting(obj), "False"), "error")
             ELSE Continue(Waiting(obj), "waitForSet")
    BY <1>13 DEF CheckHealth
  <2>2. Derived(Waiting(obj)) /\ Write(Waiting(obj), lost)
    BY <1>5, <2>1, SameDerived DEF Patch
  <2>3. Derived(obj')
    BY <1>5, <1>6, <2>1, SameDerived
  <2>4. UNCHANGED <<environment, cluster, rev, completed>>
    BY <1>13 DEF CheckHealth
  <2>5. pc' \in {"finalizeStatus", "waitForSet"}
    BY <2>1
  <2> QED BY <1>1, <1>2, <2>2, <2>3, <2>4, <2>5 DEF StepEffect
<1>14. CASE WaitForSet
  BY <1>1, <1>2, <1>5, <1>14, QuietStep DEF WaitForSet
<1>15. CASE WaitForSetFails
  BY <1>1, <1>2, <1>5, <1>6, <1>15, QuietStep DEF WaitForSetFails
<1>16. CASE ReportHealth
  <2>1. PICK lost :
          /\ Patch(obj, lost)
          /\ IF WriteFails(obj, lost)
             THEN Return(MarkReady(obj, "False"), "error") /\ UNCHANGED completed
             ELSE Succeed(obj)
    BY <1>16 DEF ReportHealth
  <2>2. Derived(obj) /\ Write(obj, lost)
    BY <1>5, <2>1, SameDerived DEF Patch
  <2>3. /\ Derived(obj') \/ Completing(obj')
        /\ \A k \in Runs : completed[k] \subseteq completed'[k]
    BY <1>5, <1>6, <1>7, <2>1, SameDerived
  <2>4. UNCHANGED <<environment, cluster, rev>>
    BY <1>16 DEF ReportHealth
  <2>5. pc' = "finalizeStatus"
    BY <2>1 DEF Succeed
  <2> QED BY <1>1, <1>2, <2>2, <2>3, <2>4, <2>5 DEF StepEffect
<1> QED BY <1>8, <1>9, <1>10, <1>11, <1>12, <1>13, <1>14, <1>15, <1>16

LEMMA EndEffect ==
    ASSUME TypeInv,
           Finalize \/ FinalizeFails \/ FinalizeUnimpersonated \/ FinalizeStatus
    PROVE  StepEffect
<1> USE DEF environment, Return
<1>1. /\ obj \in MemoryRuns
      /\ "finalizeStatus" \notin AttemptPcs \cup CheckedPcs
      /\ "finalize" \notin CheckedPcs
  BY DEF TypeInv, TypeOK, AttemptPcs, CheckedPcs, RolloutPcs, ApplyPcs, HealthPcs
<1>2. CASE Finalize
  BY <1>1, <1>2 DEF Finalize, StepEffect
<1>3. CASE FinalizeFails
  BY <1>1, <1>3, MarkSame, SameDerived DEF FinalizeFails, StepEffect
<1>4. CASE FinalizeUnimpersonated
  BY <1>1, <1>4 DEF FinalizeUnimpersonated, StepEffect
<1>5. CASE FinalizeStatus
  <2>1. PICK lost : Write(FinalStatus(obj), lost)
    BY <1>5 DEF FinalizeStatus
  <2>2. Derived(FinalStatus(obj))
    BY <1>1, FinalStatusSame, SameDerived
  <2> QED BY <1>5, <2>1, <2>2 DEF FinalizeStatus, Rest, StepEffect
<1> QED BY <1>2, <1>3, <1>4, <1>5

LEMMA EveryStepEffect == ASSUME TypeInv, Step PROVE StepEffect
BY PrepareEffect, RolloutEffect, EndEffect DEF Step

-----------------------------------------------------------------------------
(* The finalizer comes before everything else. *)

\* The cache lags, but a deletion it has seen was never undone, and a live run
\* it shows with the finalizer still has the finalizer: only the controller
\* takes it off, and only after the cache has seen the deletion.
CacheBehind(k) ==
    /\ cache[k].deleting => store[k].deleting \/ ~store[k].exists
    /\ ~cache[k].exists => ~store[k].exists
    /\ cache[k].exists /\ ~cache[k].deleting /\ cache[k].finalizer =>
            store[k].exists /\ store[k].finalizer

\* The run in memory: under deletion only if the cache has seen that, and with
\* the finalizer otherwise.
WorkerCopy ==
    pc # "idle" =>
        IF obj.deleting
        THEN cache[cur].deleting \/ ~cache[cur].exists
        ELSE obj.finalizer

FinalizerInv ==
    /\ \A k \in Runs : CacheBehind(k)
    /\ WorkerCopy
    /\ pc \in AttemptPcs => ~obj.deleting
    /\ pc = "finalize" => obj.deleting
    /\ FinalizerBeforeApply

LEMMA FinalizerInit == Init => FinalizerInv
<1> SUFFICES ASSUME Init PROVE FinalizerInv
  OBVIOUS
<1>1. pc = "idle" /\ cache = store
  BY DEF Init, IdleWorker
<1>2. \A k \in Runs : store[k].exists /\ ~store[k].deleting
  BY DEF Init, Created
<1> QED BY <1>1, <1>2 DEF FinalizerInv, CacheBehind, WorkerCopy, FinalizerBeforeApply, AttemptPcs

LEMMA FinalizerStart ==
    ASSUME TypeInv, FinalizerInv, NEW k \in Runs, Start(k)
    PROVE  FinalizerInv'
<1> USE DEF Get, FinalizerInv
<1>1. store' = store /\ cache' = cache
  BY DEF Start, ReconcileNotFound, ReconcileDeleted, AddFinalizer, ReconcileSuspended,
         ReconcileActive, Load
<1>2. \A j \in Runs : CacheBehind(j)'
  BY <1>1 DEF CacheBehind
<1>3. pc = "idle" /\ {"idle", "finalize", "finalizeStatus"} \cap AttemptPcs = {}
  BY DEF Start, ReconcileNotFound, ReconcileDeleted, AddFinalizer, ReconcileSuspended,
         ReconcileActive, Load, AttemptPcs
<1>4. cache[k] \in StoredRuns
  BY DEF TypeInv, TypeOK
<1> USE DEF WorkerCopy, FinalizerBeforeApply
<1>5. CASE ReconcileNotFound(k)
  BY <1>1, <1>2, <1>3, <1>5 DEF ReconcileNotFound, workerVars
<1>6. CASE ReconcileDeleted(k)
  <2>1. RemoveFinalizer(cache[k]).deleting
    BY <1>4, <1>6 DEF ReconcileDeleted, RemoveFinalizer, StoredRuns, KCLRuns
  <2> QED BY <1>1, <1>2, <1>3, <1>6, <2>1 DEF ReconcileDeleted, Load, Continue, Return
<1>7. CASE AddFinalizer(k)
  <2>1. [cache[k] EXCEPT !.finalizer = TRUE].finalizer
    BY <1>4 DEF StoredRuns, KCLRuns
  <2>2. ~[cache[k] EXCEPT !.finalizer = TRUE].deleting
    BY <1>4, <1>7 DEF AddFinalizer, StoredRuns, KCLRuns
  <2> QED BY <1>1, <1>2, <1>3, <1>7, <2>1, <2>2 DEF AddFinalizer, Load, Return
<1>8. CASE ReconcileSuspended(k)
  BY <1>1, <1>2, <1>3, <1>8 DEF ReconcileSuspended, Load, Return, HasFinalizer
<1>9. CASE ReconcileActive(k)
  <2>1. store[k].exists /\ store[k].finalizer
    BY <1>9 DEF ReconcileActive, Load, HasFinalizer, CacheBehind
  <2> QED BY <1>1, <1>2, <1>3, <1>9, <2>1 DEF ReconcileActive, Load, Continue, HasFinalizer
<1> QED BY <1>5, <1>6, <1>7, <1>8, <1>9 DEF Start

LEMMA FinalizerWorker ==
    ASSUME TypeInv, FinalizerInv, Step
    PROVE  FinalizerInv'
<1>1. StepEffect
  BY EveryStepEffect
<1>2. /\ obj \in MemoryRuns
      /\ before \in StoredRuns
      /\ cur \in Runs
      /\ store \in [Runs -> StoredRuns]
  BY DEF TypeInv, TypeOK
<1>3. pc # "idle"
  BY DEF Step, GetSource, SourceNotReady, GetSourceFails, DependenciesReady,
         DependenciesNotReady, ReportProgress, Build, BuildFails, FetchFails,
         ArgumentsFail, ApplyStage, ApplyStageFails, Prune, PruneFails,
         SkipHealthCheck, CheckHealth, WaitForSet, WaitForSetFails, ReportHealth,
         Finalize, FinalizeFails, FinalizeUnimpersonated, FinalizeStatus, ApplyPcs
\* What a write of the worker does to the run it reconciles.
<1>4. /\ \A k \in Runs \ {cur} : store'[k] = store[k]
      /\ store[cur].deleting \/ ~store[cur].exists =>
            store'[cur].deleting \/ ~store'[cur].exists
      /\ ~store[cur].exists => ~store'[cur].exists
      /\ ~obj.deleting /\ store[cur].exists /\ store[cur].finalizer =>
            store'[cur].exists /\ store'[cur].finalizer
  <2>1. CASE store' = store
    BY <2>1
  <2>2. CASE \E o, lost : Derived(o) /\ Write(o, lost)
    <3>1. PICK o, lost : Derived(o) /\ Write(o, lost)
      BY <2>2
    <3>2. store' = [store EXCEPT ![cur] = Patched(store[cur], before, o, lost)]
      BY <3>1 DEF Write
    <3>3. o \in MemoryRuns /\ o.finalizer = obj.finalizer
      BY <3>1 DEF Derived
    <3>4. ~obj.deleting => obj.finalizer
      BY <1>3 DEF FinalizerInv, WorkerCopy
    <3>5. store'[cur] = Patched(store[cur], before, o, lost)
      BY <1>2, <3>2
    <3>6. \A k \in Runs \ {cur} : store'[k] = store[k]
      BY <1>2, <3>2
    <3> QED BY <1>2, <3>3, <3>4, <3>5, <3>6, PatchedKeeps
  <2> QED BY <1>1, <2>1, <2>2 DEF StepEffect
<1>5. \A k \in Runs : CacheBehind(k)'
  BY <1>1, <1>3, <1>4 DEF FinalizerInv, WorkerCopy, CacheBehind, StepEffect
<1>6. pc' = "idle" \/ (cur' = cur /\ obj'.deleting = obj.deleting
                        /\ (~obj.deleting => obj'.finalizer = obj.finalizer))
  <2>1. pc = "finalize" => obj.deleting
    BY DEF FinalizerInv
  <2>2. RemoveFinalizer(obj).deleting = obj.deleting
    BY <1>2 DEF RemoveFinalizer, MemoryRuns, KCLRuns
  <2> QED BY <1>1, <2>1, <2>2 DEF StepEffect, Derived, Completing
<1>7. WorkerCopy'
  BY <1>1, <1>3, <1>6 DEF WorkerCopy, StepEffect, FinalizerInv
<1>8. "idle" \notin AttemptPcs
  BY DEF AttemptPcs
<1>9. pc' \in AttemptPcs => pc \in AttemptPcs /\ cur' = cur /\ ~obj.deleting
  BY <1>1, <1>8 DEF StepEffect, FinalizerInv
<1> QED BY <1>1, <1>4, <1>5, <1>6, <1>7, <1>8, <1>9
        DEF FinalizerInv, FinalizerBeforeApply, StepEffect

LEMMA FinalizerEnvironment ==
    ASSUME TypeInv, FinalizerInv, Environment
    PROVE  FinalizerInv'
<1> USE DEF workerVars, FinalizerInv, WorkerCopy, FinalizerBeforeApply
<1>0. /\ store \in [Runs -> StoredRuns]
      /\ cache \in [Runs -> StoredRuns]
      /\ cur \in Runs
      /\ "idle" \notin AttemptPcs
  BY DEF TypeInv, TypeOK, AttemptPcs
<1>1. ASSUME NEW k \in Runs, CacheSync(k) PROVE FinalizerInv'
  <2>1. \A j \in Runs : CacheBehind(j)'
    BY <1>0, <1>1 DEF CacheSync, CacheBehind
  <2>2. WorkerCopy'
    BY <1>0, <1>1 DEF CacheSync, CacheBehind
  <2> QED BY <1>1, <2>1, <2>2 DEF CacheSync
<1>2. ASSUME NEW k \in Runs, TimerFires(k) PROVE FinalizerInv'
  BY <1>2 DEF TimerFires, CacheBehind
<1>3. ASSUME NEW k \in Runs, Delete(k) PROVE FinalizerInv'
  <2>1. /\ Terminating(store[k]).deleting
        /\ Terminating(store[k]).exists = store[k].exists
        /\ Terminating(store[k]).finalizer = store[k].finalizer
        /\ ~Absent.exists
    BY <1>0 DEF Terminating, StoredRuns, KCLRuns, Absent, Created
  <2>2. /\ store'[k] = IF store[k].finalizer THEN Terminating(store[k]) ELSE Absent
        /\ \A j \in Runs \ {k} : store'[j] = store[j]
        /\ store[k].exists
        /\ UNCHANGED <<cache, workerVars>>
    BY <1>0, <1>3 DEF Delete
  <2>3. \A j \in Runs : CacheBehind(j)'
    BY <2>1, <2>2 DEF CacheBehind
  <2> QED BY <1>0, <2>1, <2>2, <2>3
<1>4. ASSUME NEW k \in Runs, NEW r \in StoredRuns, store' = [store EXCEPT ![k] = r],
             r.exists = store[k].exists, r.deleting = store[k].deleting,
             r.finalizer = store[k].finalizer, UNCHANGED <<cache, workerVars>>
      PROVE  FinalizerInv'
  <2>1. \A j \in Runs : /\ store'[j].exists = store[j].exists
                        /\ store'[j].deleting = store[j].deleting
                        /\ store'[j].finalizer = store[j].finalizer
    BY <1>0, <1>4
  <2> QED BY <1>0, <1>4, <2>1 DEF CacheBehind
<1>5. ASSUME NEW k \in Runs, Request(k) PROVE FinalizerInv'
  <2> DEFINE r == [store[k] EXCEPT !.requestedAt = @ + 1]
  <2>1. r \in StoredRuns /\ r.exists = store[k].exists /\ r.deleting = store[k].deleting
          /\ r.finalizer = store[k].finalizer
    BY <1>0 DEF StoredRuns, KCLRuns
  <2>2. store' = [store EXCEPT ![k] = r] /\ UNCHANGED <<cache, workerVars>>
    BY <1>5 DEF Request
  <2> HIDE DEF r
  <2> QED BY <1>4, <2>1, <2>2
<1>6. ASSUME NEW k \in Runs, NEW s \in SpecChoices, EditSpec(k, s) PROVE FinalizerInv'
  <2> DEFINE r == [store[k] EXCEPT !.spec = s, !.generation = store[k].generation + 1]
  <2>1. r \in StoredRuns
    BY <1>0, ControllerAssumption, UserType
  <2>2. /\ r.exists = store[k].exists
        /\ r.deleting = store[k].deleting
        /\ r.finalizer = store[k].finalizer
    BY <1>0 DEF StoredRuns, KCLRuns
  <2>3. store' = [store EXCEPT ![k] = r] /\ UNCHANGED <<cache, workerVars>>
    BY <1>0, <1>6 DEF EditSpec
  <2> HIDE DEF r
  <2> QED BY <1>4, <2>1, <2>2, <2>3
<1>7. ASSUME NEW s \in Sources, NEW a \in Artifacts, Publish(s, a) PROVE FinalizerInv'
  BY <1>7 DEF Publish, CacheBehind
<1>8. ASSUME NEW o \in Objects, Drift(o) PROVE FinalizerInv'
  BY <1>8 DEF Drift, CacheBehind
<1>9. CASE Crash
  BY <1>0, <1>9 DEF Crash, Rest, CacheBehind
<1> QED BY <1>1, <1>2, <1>3, <1>5, <1>6, <1>7, <1>8, <1>9 DEF Environment

LEMMA FinalizerStep ==
    ASSUME TypeInv, FinalizerInv, [Next]_vars
    PROVE  FinalizerInv'
<1>1. CASE UNCHANGED vars
  BY <1>1 DEF vars, workerVars, FinalizerInv, CacheBehind, WorkerCopy, FinalizerBeforeApply
<1> QED BY <1>1, FinalizerStart, FinalizerWorker, FinalizerEnvironment DEF Next

\* However often the process crashes, however stale its cache and whatever users
\* do, the controller only works for runs that cannot go away unnoticed.
THEOREM FinalizerFirst == Spec => []FinalizerBeforeApply
<1>1. TypeInv /\ FinalizerInv /\ [Next]_vars => FinalizerInv'
  BY FinalizerStep
<1>2. FinalizerInv => FinalizerBeforeApply
  BY DEF FinalizerInv
<1>3. TypeInv /\ [Next]_vars => TypeInv'
  BY TypeStep
<1> QED BY <1>1, <1>2, <1>3, TypeInit, FinalizerInit, PTL DEF Spec

-----------------------------------------------------------------------------
(* The revisions in the status. *)

\* A patch leaves, of either revision, the stored one or the one in memory.
LEMMA PatchedRevisions ==
    ASSUME NEW stored \in StoredRuns, NEW b \in StoredRuns, NEW o \in MemoryRuns, NEW lost
    PROVE  LET p == Patched(stored, b, o, lost)
           IN  /\ p.status.lastApplied \in
                    {stored.status.lastApplied, o.status.lastApplied, NoRevision}
               /\ p.status.lastAttempted \in
                    {stored.status.lastAttempted, o.status.lastAttempted, NoRevision}
<1>1. /\ Absent.status.lastApplied = NoRevision
      /\ Absent.status.lastAttempted = NoRevision
  BY DEF Absent, Created
<1>2. LET m == MergeStatus(stored.status, b.status, o.status)
      IN  /\ m.lastApplied \in {stored.status.lastApplied, o.status.lastApplied}
          /\ m.lastAttempted \in {stored.status.lastAttempted, o.status.lastAttempted}
  BY DEF MergeStatus, Merge
<1> QED BY <1>1, <1>2 DEF Patched, StoredRuns, KCLRuns

\* What the steps that are not the worker's do to the revisions: nothing, but
\* for a run that goes away, a cache that catches up and a copy that is read.
QuietRevisions ==
    /\ completed' = completed
    /\ \A k \in Runs :
        /\ store'[k].status.lastApplied \in {store[k].status.lastApplied, NoRevision}
        /\ store'[k].status.lastAttempted \in {store[k].status.lastAttempted, NoRevision}
        /\ cache'[k].status \in {cache[k].status, store[k].status}
    /\ \/ pc' = "idle"
       \/ pc # "idle" /\ UNCHANGED <<pc, cur, obj, rev>>
       \/ /\ cur' \in Runs
          /\ pc' \notin CheckedPcs
          /\ obj'.status = cache[cur'].status

LEMMA StartRevisions ==
    ASSUME TypeInv, NEW k \in Runs, Start(k)
    PROVE  QuietRevisions
<1> USE DEF Get, QuietRevisions
<1>1. /\ UNCHANGED <<store, cache, completed>>
      /\ pc = "idle"
  BY DEF Start, ReconcileNotFound, ReconcileDeleted, AddFinalizer, ReconcileSuspended,
         ReconcileActive, Load
<1>2. {"finalize", "finalizeStatus", "getSource"} \cap CheckedPcs = {}
  BY DEF CheckedPcs, RolloutPcs, ApplyPcs, HealthPcs
<1>3. /\ cache[k] \in StoredRuns
      /\ RemoveFinalizer(cache[k]).status = cache[k].status
      /\ [cache[k] EXCEPT !.finalizer = TRUE].status = cache[k].status
  BY DEF TypeInv, TypeOK, RemoveFinalizer, StoredRuns, KCLRuns
<1>4. CASE ReconcileNotFound(k)
  BY <1>1, <1>4 DEF ReconcileNotFound, workerVars
<1>5. CASE ReconcileDeleted(k)
  BY <1>1, <1>2, <1>3, <1>5 DEF ReconcileDeleted, Load, Continue, Return
<1>6. CASE AddFinalizer(k)
  BY <1>1, <1>2, <1>3, <1>6 DEF AddFinalizer, Load, Return
<1>7. CASE ReconcileSuspended(k)
  BY <1>1, <1>2, <1>7 DEF ReconcileSuspended, Load, Return
<1>8. CASE ReconcileActive(k)
  BY <1>1, <1>2, <1>8 DEF ReconcileActive, Load, Continue
<1> QED BY <1>4, <1>5, <1>6, <1>7, <1>8 DEF Start

LEMMA EnvironmentRevisions ==
    ASSUME TypeInv, Environment
    PROVE  QuietRevisions
<1> USE DEF workerVars, QuietRevisions
<1>0. store \in [Runs -> StoredRuns] /\ cache \in [Runs -> StoredRuns]
  BY DEF TypeInv, TypeOK
<1>1. ASSUME NEW k \in Runs, CacheSync(k) PROVE QuietRevisions
  BY <1>0, <1>1 DEF CacheSync
<1>2. ASSUME NEW k \in Runs, TimerFires(k) PROVE QuietRevisions
  BY <1>2 DEF TimerFires
<1>3. ASSUME NEW k \in Runs, NEW r \in StoredRuns, store' = [store EXCEPT ![k] = r],
             r.status = store[k].status \/ r = Absent,
             UNCHANGED <<cache, completed, workerVars>>
      PROVE  QuietRevisions
  <2>1. Absent.status.lastApplied = NoRevision /\ Absent.status.lastAttempted = NoRevision
    BY DEF Absent, Created
  <2> QED BY <1>0, <1>3, <2>1
<1>4. ASSUME NEW k \in Runs, Delete(k) PROVE QuietRevisions
  <2> DEFINE r == IF store[k].finalizer THEN Terminating(store[k]) ELSE Absent
  <2>1. r \in StoredRuns
    BY <1>0, AbsentType, UserType
  <2>2. r.status = store[k].status \/ r = Absent
    BY <1>0 DEF Terminating, StoredRuns, KCLRuns
  <2>3. store' = [store EXCEPT ![k] = r] /\ UNCHANGED <<cache, completed, workerVars>>
    BY <1>4 DEF Delete
  <2> HIDE DEF r
  <2> QED BY <1>3, <2>1, <2>2, <2>3
<1>5. ASSUME NEW k \in Runs, Request(k) PROVE QuietRevisions
  <2> DEFINE r == [store[k] EXCEPT !.requestedAt = @ + 1]
  <2>1. r \in StoredRuns /\ r.status = store[k].status
    BY <1>0 DEF StoredRuns, KCLRuns
  <2>2. store' = [store EXCEPT ![k] = r] /\ UNCHANGED <<cache, completed, workerVars>>
    BY <1>5 DEF Request
  <2> HIDE DEF r
  <2> QED BY <1>3, <2>1, <2>2
<1>6. ASSUME NEW k \in Runs, NEW s \in SpecChoices, EditSpec(k, s) PROVE QuietRevisions
  <2> DEFINE r == [store[k] EXCEPT !.spec = s, !.generation = store[k].generation + 1]
  <2>1. r \in StoredRuns
    BY <1>0, ControllerAssumption, UserType
  <2>2. r.status = store[k].status
    BY <1>0 DEF StoredRuns, KCLRuns
  <2>3. store' = [store EXCEPT ![k] = r] /\ UNCHANGED <<cache, completed, workerVars>>
    BY <1>0, <1>6 DEF EditSpec
  <2> HIDE DEF r
  <2> QED BY <1>3, <2>1, <2>2, <2>3
<1>7. ASSUME NEW s \in Sources, NEW a \in Artifacts, Publish(s, a) PROVE QuietRevisions
  BY <1>7 DEF Publish
<1>8. ASSUME NEW o \in Objects, Drift(o) PROVE QuietRevisions
  BY <1>8 DEF Drift
<1>9. CASE Crash
  BY <1>0, <1>9 DEF Crash, Rest
<1> QED BY <1>1, <1>2, <1>4, <1>5, <1>6, <1>7, <1>8, <1>9 DEF Environment

\* The worker never forgets a roll-out, and stores only its copy's revisions.
LEMMA StepRevisions ==
    ASSUME TypeInv, Step
    PROVE  /\ StepEffect
           /\ pc # "idle"
           /\ \A k \in Runs \ {cur} : store'[k] = store[k]
           /\ store'[cur].status.lastApplied \in
                {store[cur].status.lastApplied, obj.status.lastApplied, NoRevision}
           /\ \/ store'[cur].status.lastAttempted \in
                    {store[cur].status.lastAttempted, obj.status.lastAttempted, NoRevision}
              \/ pc \in CheckedPcs /\ store'[cur].status.lastAttempted = rev
<1>1. StepEffect
  BY EveryStepEffect
<1>2. pc # "idle"
  BY DEF Step, GetSource, SourceNotReady, GetSourceFails, DependenciesReady,
         DependenciesNotReady, ReportProgress, Build, BuildFails, FetchFails,
         ArgumentsFail, ApplyStage, ApplyStageFails, Prune, PruneFails,
         SkipHealthCheck, CheckHealth, WaitForSet, WaitForSetFails, ReportHealth,
         Finalize, FinalizeFails, FinalizeUnimpersonated, FinalizeStatus, ApplyPcs
<1>3. /\ before \in StoredRuns
      /\ cur \in Runs
      /\ store \in [Runs -> StoredRuns]
  BY DEF TypeInv, TypeOK
<1>4. CASE store' = store
  BY <1>1, <1>2, <1>4
<1>5. CASE \E o, lost : Derived(o) /\ Write(o, lost)
  <2>1. PICK o, lost : Derived(o) /\ Write(o, lost)
    BY <1>5
  <2>2. store' = [store EXCEPT ![cur] = Patched(store[cur], before, o, lost)]
    BY <2>1 DEF Write
  <2>3. /\ store'[cur] = Patched(store[cur], before, o, lost)
        /\ \A k \in Runs \ {cur} : store'[k] = store[k]
    BY <1>3, <2>2
  <2>4. /\ o \in MemoryRuns
        /\ o.status.lastApplied = obj.status.lastApplied
        /\ \/ o.status.lastAttempted = obj.status.lastAttempted
           \/ pc \in CheckedPcs /\ o.status.lastAttempted = rev
    BY <2>1 DEF Derived
  <2>5. /\ store'[cur].status.lastApplied \in
            {store[cur].status.lastApplied, o.status.lastApplied, NoRevision}
        /\ store'[cur].status.lastAttempted \in
            {store[cur].status.lastAttempted, o.status.lastAttempted, NoRevision}
    BY <1>3, <2>3, <2>4, PatchedRevisions
  <2> QED BY <1>1, <1>2, <2>3, <2>4, <2>5
<1> QED BY <1>1, <1>4, <1>5 DEF StepEffect

-----------------------------------------------------------------------------
(* lastAppliedRevision is sound. *)

Sound(k, r) == r # NoRevision => RolledOut(k, r)

\* It is in the API server, in the cache and in memory.
LastAppliedInv ==
    /\ \A k \in Runs : /\ Sound(k, store[k].status.lastApplied)
                       /\ Sound(k, cache[k].status.lastApplied)
    /\ pc # "idle" => Sound(cur, obj.status.lastApplied)

LEMMA LastAppliedInit == Init => LastAppliedInv
<1> SUFFICES ASSUME Init PROVE LastAppliedInv
  OBVIOUS
<1>1. \A k \in Runs : store[k].status.lastApplied = NoRevision
  BY DEF Init, Created
<1> QED BY <1>1 DEF Init, IdleWorker, LastAppliedInv, Sound

LEMMA LastAppliedStep ==
    ASSUME TypeInv, LastAppliedInv, [Next]_vars
    PROVE  LastAppliedInv'
<1> USE DEF LastAppliedInv
<1>1. CASE QuietRevisions
  <2>1. \A k, r : Sound(k, r) => Sound(k, r)'
    BY <1>1 DEF Sound, RolledOut, QuietRevisions
  <2>2. \A k : Sound(k, NoRevision)
    BY DEF Sound
  <2> QED BY <1>1, <2>1, <2>2 DEF QuietRevisions
<1>2. CASE Step
  <2>1. /\ StepEffect
        /\ pc # "idle"
        /\ \A k \in Runs \ {cur} : store'[k] = store[k]
        /\ store'[cur].status.lastApplied \in
                {store[cur].status.lastApplied, obj.status.lastApplied, NoRevision}
    BY <1>2, StepRevisions
  <2>2. cur \in Runs /\ obj \in MemoryRuns
    BY DEF TypeInv, TypeOK
  <2>3. \A k \in Runs : \A r : Sound(k, r) => Sound(k, r)'
    BY <2>1 DEF StepEffect, Sound, RolledOut
  <2>4. \A k : Sound(k, NoRevision)
    BY DEF Sound
  <2>5. \A k \in Runs : Sound(k, store[k].status.lastApplied)'
    BY <2>1, <2>2, <2>3, <2>4
  <2>6. \A k \in Runs : Sound(k, cache[k].status.lastApplied)'
    BY <2>1, <2>3 DEF StepEffect
  <2>7. CASE pc' # "idle"
    <3>1. CASE Derived(obj')
      <4>1. obj'.status.lastApplied = obj.status.lastApplied /\ cur' = cur
        BY <2>1, <2>7, <3>1 DEF StepEffect, Derived
      <4> QED BY <2>1, <2>2, <2>3, <2>5, <2>6, <4>1
    <3>2. CASE Completing(obj')
      <4>1. /\ cur' = cur
            /\ obj'.status.lastApplied = rev
            /\ <<obj.generation, rev>> \in completed'[cur]
        BY <2>1, <2>7, <3>2 DEF Completing, StepEffect
      <4>2. \E attempt \in completed'[cur'] : attempt[2] = obj'.status.lastApplied
        <5>1. <<obj.generation, rev>>[2] = rev
          OBVIOUS
        <5> QED BY <4>1, <5>1
      <4> QED BY <2>5, <2>6, <4>2 DEF Sound, RolledOut
    <3>3. CASE obj' = RemoveFinalizer(obj)
      <4>1. obj'.status.lastApplied = obj.status.lastApplied /\ cur' = cur
        BY <2>1, <2>2, <2>7, <3>3
           DEF StepEffect, RemoveFinalizer, MemoryRuns, KCLRuns
      <4> QED BY <2>1, <2>2, <2>3, <2>5, <2>6, <4>1
    <3> QED BY <2>1, <2>7, <3>1, <3>2, <3>3 DEF StepEffect
  <2> QED BY <2>5, <2>6, <2>7
<1>3. CASE UNCHANGED vars
  BY <1>3 DEF vars, workerVars, Sound, RolledOut
<1> QED BY <1>1, <1>2, <1>3, StartRevisions, EnvironmentRevisions DEF Next

\* The applied revision in the status is never one whose roll-out failed, was
\* interrupted or is still going on, whichever copy of the run it came from.
THEOREM LastAppliedIsSound == Spec => []LastAppliedSound
<1>1. TypeInv /\ LastAppliedInv /\ [Next]_vars => LastAppliedInv'
  BY LastAppliedStep
<1>2. LastAppliedInv => LastAppliedSound
  BY DEF LastAppliedInv, LastAppliedSound, Sound
<1>3. TypeInv /\ [Next]_vars => TypeInv'
  BY TypeStep
<1> QED BY <1>1, <1>2, <1>3, TypeInit, LastAppliedInit, PTL DEF Spec

-----------------------------------------------------------------------------
(* Dependencies go first. *)

\* Run k may attempt r: the dependencies with its source were rolled out at r.
Ordered(k, r) ==
    r # NoRevision =>
        \A d \in DependsOn[k] : SourceOf[d] = SourceOf[k] => RolledOut(d, r)

\* Wherever the attempted revision is kept, and wherever it is about to be.
DependencyInv ==
    /\ \A k \in Runs : /\ Ordered(k, store[k].status.lastAttempted)
                       /\ Ordered(k, cache[k].status.lastAttempted)
    /\ pc # "idle" => Ordered(cur, obj.status.lastAttempted)
    /\ pc \in CheckedPcs => Ordered(cur, rev)

LEMMA DependencyInit == Init => DependencyInv
<1> SUFFICES ASSUME Init PROVE DependencyInv
  OBVIOUS
<1>1. \A k \in Runs : store[k].status.lastAttempted = NoRevision
  BY DEF Init, Created
<1>2. "idle" \notin CheckedPcs
  BY DEF CheckedPcs, RolloutPcs, ApplyPcs, HealthPcs
<1> QED BY <1>1, <1>2 DEF Init, IdleWorker, DependencyInv, Ordered

\* A dependency whose cached status satisfies checkDependencies was rolled out:
\* this is where the soundness of lastAppliedRevision is needed.
LEMMA ReadyDependencyRolledOut ==
    ASSUME LastAppliedInv, NEW k \in Runs, NEW r,
           \A d \in DependsOn[k] : DependencyReady(k, d, r)
    PROVE  Ordered(k, r)
<1>1. DependsOn[k] \subseteq Runs
  BY ControllerAssumption
<1> QED BY <1>1 DEF LastAppliedInv, Sound, DependencyReady, Ordered

LEMMA DependencyStep ==
    ASSUME TypeInv, LastAppliedInv, DependencyInv, [Next]_vars
    PROVE  DependencyInv'
<1> USE DEF DependencyInv
<1>0. \A k : Ordered(k, NoRevision)
  BY DEF Ordered
<1>1. CASE QuietRevisions
  <2>1. \A k, r : Ordered(k, r) => Ordered(k, r)'
    BY <1>1 DEF Ordered, RolledOut, QuietRevisions
  <2>2. "idle" \notin CheckedPcs
    BY DEF CheckedPcs, RolloutPcs, ApplyPcs, HealthPcs
  <2> QED BY <1>0, <1>1, <2>1, <2>2 DEF QuietRevisions
<1>2. CASE Step
  <2>1. /\ StepEffect
        /\ pc # "idle"
        /\ \A k \in Runs \ {cur} : store'[k] = store[k]
        /\ \/ store'[cur].status.lastAttempted \in
                {store[cur].status.lastAttempted, obj.status.lastAttempted, NoRevision}
           \/ pc \in CheckedPcs /\ store'[cur].status.lastAttempted = rev
    BY <1>2, StepRevisions
  <2>2. /\ cur \in Runs /\ obj \in MemoryRuns
        /\ "idle" \notin CheckedPcs
    BY DEF TypeInv, TypeOK, CheckedPcs, RolloutPcs, ApplyPcs, HealthPcs
  <2>3. \A k \in Runs : \A r : Ordered(k, r) => Ordered(k, r)'
    <3>1. \A d \in Runs : \A r : RolledOut(d, r) => RolledOut(d, r)'
      BY <2>1 DEF StepEffect, RolledOut
    <3>2. \A k \in Runs : DependsOn[k] \subseteq Runs
      BY ControllerAssumption
    <3> QED BY <3>1, <3>2 DEF Ordered
  <2>4. /\ Ordered(cur, obj.status.lastAttempted)
        /\ pc \in CheckedPcs => Ordered(cur, rev)
    BY <2>1
  <2>5. \A k \in Runs : Ordered(k, store[k].status.lastAttempted)'
    <3>1. \A k \in Runs \ {cur} : Ordered(k, store[k].status.lastAttempted)'
      BY <2>1, <2>3
    <3>2. Ordered(cur, store'[cur].status.lastAttempted)
      BY <1>0, <2>1, <2>2, <2>4
    <3> QED BY <2>2, <2>3, <3>1, <3>2
  <2>6. \A k \in Runs : Ordered(k, cache[k].status.lastAttempted)'
    BY <2>1, <2>3 DEF StepEffect
  <2>7. CASE pc' # "idle"
    <3>1. cur' = cur
      BY <2>1, <2>7 DEF StepEffect
    <3>2. \/ obj'.status.lastAttempted = obj.status.lastAttempted
          \/ pc \in CheckedPcs /\ obj'.status.lastAttempted = rev
      <4>1. RemoveFinalizer(obj).status = obj.status
        BY <2>2 DEF RemoveFinalizer, MemoryRuns, KCLRuns
      <4> QED BY <2>1, <2>7, <4>1 DEF StepEffect, Derived, Completing
    <3>3. Ordered(cur, obj'.status.lastAttempted)
      BY <2>4, <3>2
    <3>4. pc' \in CheckedPcs => Ordered(cur, rev')
      <4>1. CASE pc \in CheckedPcs
        <5>1. rev' = rev
          BY <2>1, <2>7, <4>1 DEF StepEffect
        <5> QED BY <2>4, <4>1, <5>1
      <4>2. CASE pc \notin CheckedPcs
        <5>1. pc' \in CheckedPcs => \A d \in DependsOn[cur] : DependencyReady(cur, d, rev')
          BY <2>1, <2>7, <4>2 DEF StepEffect
        <5> QED BY <2>2, <5>1, ReadyDependencyRolledOut
      <4> QED BY <4>1, <4>2
    <3> QED BY <2>2, <2>3, <2>5, <2>6, <3>1, <3>3, <3>4
  <2> QED BY <2>2, <2>5, <2>6, <2>7
<1>3. CASE UNCHANGED vars
  BY <1>3 DEF vars, workerVars, Ordered, RolledOut
<1> QED BY <1>1, <1>2, <1>3, StartRevisions, EnvironmentRevisions DEF Next

\* A run never attempts a revision before the dependencies that share its source
\* were rolled out at it, though all the controller sees of them is its cache.
THEOREM DependenciesFirst == Spec => []DependencyOrder
<1>1. TypeInv /\ LastAppliedInv /\ DependencyInv /\ [Next]_vars => DependencyInv'
  BY DependencyStep
<1>2. DependencyInv => DependencyOrder
  BY DEF DependencyInv, DependencyOrder, Ordered
<1>3. TypeInv /\ [Next]_vars => TypeInv'
  BY TypeStep
<1>4. TypeInv /\ LastAppliedInv /\ [Next]_vars => LastAppliedInv'
  BY LastAppliedStep
<1> QED BY <1>1, <1>2, <1>3, <1>4, TypeInit, LastAppliedInit, DependencyInit, PTL DEF Spec
=============================================================================
