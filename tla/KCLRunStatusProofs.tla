-------------------------- MODULE KCLRunStatusProofs --------------------------
(***************************************************************************)
(* What can be relied upon in the status of a run, and in its coming up    *)
(* again: no run that there is something to do for is forgotten, Ready     *)
(* speaks of the generation it is stamped with, an attempt under way is    *)
(* visible, and a run goes away only after it was pruned.                  *)
(*                                                                         *)
(* The controller acts on copies of different ages.  What orders them is   *)
(* the generation: of two copies the one with the lower generation is the  *)
(* older, and with the same generation both ask for the same.              *)
(***************************************************************************)
EXTENDS KCLRunSafetyProofs

\* What is the user's, and the API server's, to write.
SameIntent(o, p) ==
    /\ p.exists = o.exists
    /\ p.generation = o.generation
    /\ p.requestedAt = o.requestedAt
    /\ p.spec = o.spec
    /\ p.deleting = o.deleting

\* p is o, but for conditions, revisions, the inventory and the finalizer.
KeepsClaim(o, p) ==
    /\ p \in MemoryRuns
    /\ SameIntent(o, p)
    /\ p.status.observedGeneration = o.status.observedGeneration

LEMMA KeepsTransitive ==
    ASSUME NEW o, NEW p, NEW q, KeepsClaim(o, p), KeepsClaim(p, q)
    PROVE  KeepsClaim(o, q)
BY DEF KeepsClaim, SameIntent

LEMMA MarkKeeps ==
    ASSUME NEW o \in MemoryRuns
    PROVE  /\ KeepsClaim(o, o)
           /\ \A s \in ConditionStatus \cup {"Invalid"} :
                KeepsClaim(o, MarkReady(o, s)) /\ MarkReady(o, s).conds.ready = s
           /\ \A s \in ConditionStatus :
                /\ KeepsClaim(o, MarkHealthy(o, s))
                /\ MarkHealthy(o, s).conds.ready = o.conds.ready
           /\ \A r \in {"Absent", "Progressing", "ProgressingWithRetry"} :
                /\ KeepsClaim(o, MarkReconciling(o, r))
                /\ MarkReconciling(o, r).conds.ready = o.conds.ready
<1>1. \A s : /\ MarkReady(o, s) \in MemoryRuns => KeepsClaim(o, MarkReady(o, s))
             /\ MarkHealthy(o, s) \in MemoryRuns => KeepsClaim(o, MarkHealthy(o, s))
             /\ MarkReconciling(o, s) \in MemoryRuns => KeepsClaim(o, MarkReconciling(o, s))
  BY DEF KeepsClaim, SameIntent, MarkReady, MarkHealthy, MarkReconciling, MemoryRuns, KCLRuns
<1>2. \A s : /\ MarkReady(o, s).conds.ready = s
             /\ MarkHealthy(o, s).conds.ready = o.conds.ready
             /\ MarkReconciling(o, s).conds.ready = o.conds.ready
  BY DEF MarkReady, MarkHealthy, MarkReconciling, MemoryRuns, KCLRuns, Conditions
<1>3. KeepsClaim(o, o)
  BY DEF KeepsClaim, SameIntent
<1> QED BY <1>1, <1>2, <1>3, MarkType

\* The changes that the steps of an attempt make to the run in memory.
LEMMA UpdateKeeps ==
    ASSUME TypeInv, rev \in Revisions, NEW o \in MemoryRuns
    PROVE  /\ KeepsClaim(o, InProgress(o)) /\ InProgress(o).conds.ready = "Unknown"
           /\ KeepsClaim(o, SetInventory(o)) /\ SetInventory(o).conds = o.conds
           /\ KeepsClaim(o, Waiting(o)) /\ Waiting(o).conds.ready = o.conds.ready
           /\ KeepsClaim(o, Succeeded(o))
           /\ KeepsClaim(o, RemoveFinalizer(o))
<1>1. \A m \in MemoryRuns :
        /\ [m EXCEPT !.status.lastAttempted = rev].conds = m.conds
        /\ [m EXCEPT !.status.lastAttempted = rev] \in MemoryRuns =>
                KeepsClaim(m, [m EXCEPT !.status.lastAttempted = rev])
        /\ [m EXCEPT !.status.lastApplied = rev] \in MemoryRuns =>
                KeepsClaim(m, [m EXCEPT !.status.lastApplied = rev])
  BY DEF KeepsClaim, SameIntent, MemoryRuns, KCLRuns, Statuses
<1>2. /\ InProgress(o) \in MemoryRuns
      /\ SetInventory(o) \in MemoryRuns
      /\ Succeeded(o) \in MemoryRuns
  BY StatusType
<1>3. KeepsClaim(o, SetInventory(o)) /\ SetInventory(o).conds = o.conds
  BY <1>2 DEF SetInventory, KeepsClaim, SameIntent, MemoryRuns, KCLRuns, Statuses
<1>4. KeepsClaim(o, Waiting(o)) /\ Waiting(o).conds.ready = o.conds.ready
  <2>1. /\ KeepsClaim(o, MarkReconciling(o, "Progressing"))
        /\ MarkReconciling(o, "Progressing").conds.ready = o.conds.ready
    BY MarkKeeps
  <2> QED BY <2>1, MarkKeeps, KeepsTransitive DEF Waiting, KeepsClaim, ConditionStatus
<1>5. KeepsClaim(o, InProgress(o)) /\ InProgress(o).conds.ready = "Unknown"
  <2> DEFINE m == MarkReconciling(MarkReady(o, "Unknown"), "Progressing")
  <2>1. KeepsClaim(o, MarkReady(o, "Unknown")) /\ MarkReady(o, "Unknown").conds.ready = "Unknown"
    BY MarkKeeps DEF ConditionStatus
  <2>2. KeepsClaim(o, m) /\ m.conds.ready = "Unknown"
    BY <2>1, MarkKeeps, KeepsTransitive DEF KeepsClaim
  <2>3. InProgress(o) = [m EXCEPT !.status.lastAttempted = rev]
    BY DEF InProgress
  <2> HIDE DEF m
  <2>4. m \in MemoryRuns
    BY <2>2 DEF KeepsClaim
  <2>5. KeepsClaim(m, InProgress(o)) /\ InProgress(o).conds = m.conds
    BY <1>1, <1>2, <2>3, <2>4
  <2> QED BY <2>2, <2>5, KeepsTransitive
<1>6. KeepsClaim(o, Succeeded(o))
  <2>1. KeepsClaim(o, MarkReady(o, "True"))
    BY MarkKeeps DEF ConditionStatus
  <2>2. MarkReady(o, "True") \in MemoryRuns
    BY <2>1 DEF KeepsClaim
  <2>3. KeepsClaim(MarkReady(o, "True"), Succeeded(o))
    BY <1>1, <1>2, <2>2 DEF Succeeded
  <2> QED BY <2>1, <2>3, KeepsTransitive
<1>7. KeepsClaim(o, RemoveFinalizer(o))
  BY FieldType DEF RemoveFinalizer, KeepsClaim, SameIntent, MemoryRuns, KCLRuns
<1> QED BY <1>3, <1>4, <1>5, <1>6, <1>7

\* finalizeStatus stamps the status with the generation if Ready is True.
LEMMA FinalStatusKeeps ==
    ASSUME NEW o \in MemoryRuns
    PROVE  /\ FinalStatus(o) \in MemoryRuns
           /\ SameIntent(o, FinalStatus(o))
           /\ FinalStatus(o).finalizer = o.finalizer
           /\ FinalStatus(o).conds.ready = o.conds.ready
           /\ FinalStatus(o).status.inventory = o.status.inventory
           /\ \/ FinalStatus(o).status.observedGeneration = o.status.observedGeneration
              \/ /\ o.conds.ready = "True"
                 /\ FinalStatus(o).status.observedGeneration = o.generation
<1> DEFINE h == HandleRequest(o)
<1>1. /\ KeepsClaim(o, h) /\ h.conds = o.conds
      /\ h.finalizer = o.finalizer /\ h.status.inventory = o.status.inventory
  BY DEF HandleRequest, KeepsClaim, SameIntent, MemoryRuns, KCLRuns, Statuses
<1>2. FinalStatus(o) \in MemoryRuns
  BY FinalStatusType
<1>3. FinalStatus(o) = CASE h.conds.ready = "True" ->
                              [MarkReconciling(h, "Absent")
                                 EXCEPT !.status.observedGeneration = h.generation]
                         [] IsReadyFalse(h) /\ h.conds.reconciling # "Absent" ->
                              MarkReconciling(h, "ProgressingWithRetry")
                         [] OTHER -> h
  BY DEF FinalStatus
<1> HIDE DEF h
<1>4. h \in MemoryRuns
  BY <1>1 DEF KeepsClaim
<1>5. \A r : /\ SameIntent(h, MarkReconciling(h, r))
             /\ MarkReconciling(h, r).status = h.status
             /\ MarkReconciling(h, r).finalizer = h.finalizer
             /\ MarkReconciling(h, r).conds.ready = h.conds.ready
  BY <1>4 DEF SameIntent, MarkReconciling, MemoryRuns, KCLRuns, Conditions
<1>6. LET p == [MarkReconciling(h, "Absent")
                   EXCEPT !.status.observedGeneration = h.generation]
      IN  /\ SameIntent(h, p)
          /\ p.status.observedGeneration = h.generation
          /\ p.status.inventory = h.status.inventory
          /\ p.finalizer = h.finalizer
          /\ p.conds.ready = h.conds.ready
  <2>1. MarkReconciling(h, "Absent") \in MemoryRuns
    BY <1>4, MarkType
  <2>2. \A m \in MemoryRuns : \A n :
          LET p == [m EXCEPT !.status.observedGeneration = n]
          IN  /\ SameIntent(m, p)
              /\ p.status.observedGeneration = n
              /\ p.status.inventory = m.status.inventory
              /\ p.finalizer = m.finalizer
              /\ p.conds = m.conds
    BY DEF SameIntent, MemoryRuns, KCLRuns, Statuses
  <2> QED BY <1>5, <2>1, <2>2 DEF SameIntent
<1> QED BY <1>1, <1>2, <1>3, <1>5, <1>6 DEF KeepsClaim, SameIntent, IsReadyFalse

\* A patch leaves the intent alone, unless it is the end of the run; the status
\* it leaves is a mixture of the stored one and the one in memory.
LEMMA PatchedIntent ==
    ASSUME NEW stored \in StoredRuns, NEW b \in StoredRuns, NEW o \in MemoryRuns, NEW lost
    PROVE  LET p == Patched(stored, b, o, lost)
           IN  \/ p = Absent
               \/ /\ SameIntent(stored, p)
                  /\ p.status.observedGeneration \in
                        {stored.status.observedGeneration, o.status.observedGeneration}
                  /\ p.conds.ready \in {stored.conds.ready, o.conds.ready}
                  /\ p.finalizer \in {stored.finalizer, o.finalizer}
<1>1. /\ MergeStatus(stored.status, b.status, o.status).observedGeneration \in
            {stored.status.observedGeneration, o.status.observedGeneration}
      /\ MergeConditions(stored.conds, b.conds, o.conds).ready \in
            {stored.conds.ready, o.conds.ready}
      /\ Merge(stored.finalizer, b.finalizer, o.finalizer) \in {stored.finalizer, o.finalizer}
  BY DEF MergeStatus, MergeConditions, Merge
<1> QED BY <1>1 DEF Patched, SameIntent, StoredRuns, KCLRuns

-----------------------------------------------------------------------------
(* What happens around the worker, and what it starts with. *)

\* p is what a user makes of the run o, or a deletion.
Edited(o, p) ==
    \/ p = Absent /\ ~o.finalizer
    \/ /\ p.exists = o.exists
       /\ p.finalizer = o.finalizer
       /\ p.status = o.status
       /\ p.conds = o.conds
       /\ o.requestedAt <= p.requestedAt
       /\ p.deleting => o.deleting \/ o.finalizer
       /\ \/ /\ p.generation = o.generation
             /\ p.spec = o.spec
             /\ p.deleting = o.deleting
          \/ /\ p.generation = o.generation + 1
             /\ ~o.deleting

\* Nobody else touches the worker's memory or takes a run off the schedule; the
\* cache moves to what the API server has, and queues what it notices.
Undisturbed ==
    /\ UNCHANGED workerVars
    /\ queue \cup timer \subseteq queue' \cup timer'
    /\ \A k \in Runs :
          \/ /\ cache'[k] = cache[k]
             /\ \/ store'[k] = store[k]
                \/ store[k].exists /\ Edited(store[k], store'[k])
          \/ /\ cache'[k] = store[k] /\ store'[k] = store[k]
             /\ Noticed(cache[k], store[k]) => k \in queue'

Restarted ==
    /\ Rest
    /\ cache' = store /\ store' = store
    /\ queue' = {k \in Runs : store[k].exists}

EnvironmentEffect ==
    /\ completed' = completed
    /\ \A o \in Objects : cluster'[o] \in {cluster[o], Drifted}
    /\ Undisturbed \/ Restarted

LEMMA EveryEnvironmentEffect ==
    ASSUME TypeInv, Environment
    PROVE  EnvironmentEffect
<1> USE DEF workerVars, EnvironmentEffect, Undisturbed, Restarted
<1>0. /\ store \in [Runs -> StoredRuns] /\ cache \in [Runs -> StoredRuns]
      /\ queue \subseteq Runs /\ timer \subseteq Runs
      /\ cluster \in [Objects -> Runs \cup {NoOwner, Drifted}]
  BY DEF TypeInv, TypeOK
<1>1. ASSUME NEW k \in Runs, CacheSync(k) PROVE EnvironmentEffect
  BY <1>0, <1>1 DEF CacheSync
<1>2. ASSUME NEW k \in Runs, TimerFires(k) PROVE EnvironmentEffect
  BY <1>0, <1>2 DEF TimerFires
<1>3. ASSUME NEW k \in Runs, NEW r, store' = [store EXCEPT ![k] = r], store[k].exists,
             Edited(store[k], r),
             UNCHANGED <<cache, cluster, queue, timer, completed, workerVars>>
      PROVE  EnvironmentEffect
  BY <1>0, <1>3
<1>4. ASSUME NEW k \in Runs, Delete(k) PROVE EnvironmentEffect
  <2> DEFINE r == IF store[k].finalizer THEN Terminating(store[k]) ELSE Absent
  <2>1. store[k].exists /\ ~store[k].deleting
    BY <1>4 DEF Delete
  <2>2. Edited(store[k], r)
    <3>1. CASE store[k].finalizer
      <4> DEFINE p == Terminating(store[k])
      <4>1. /\ p.exists = store[k].exists /\ p.finalizer = store[k].finalizer
            /\ p.status = store[k].status /\ p.conds = store[k].conds
            /\ p.requestedAt = store[k].requestedAt
            /\ p.generation = store[k].generation + 1
        BY <1>0 DEF Terminating, StoredRuns, KCLRuns
      <4>2. store[k].requestedAt \in Nat
        BY <1>0 DEF StoredRuns, KCLRuns
      <4>3. store[k].requestedAt <= p.requestedAt
        BY <4>1, <4>2
      <4>4. r = p
        BY <3>1
      <4> HIDE DEF p, r
      <4>5. Edited(store[k], p)
        BY <2>1, <3>1, <4>1, <4>3 DEF Edited
      <4> QED BY <4>4, <4>5
    <3>2. CASE ~store[k].finalizer
      BY <3>2 DEF Edited
    <3> QED BY <3>1, <3>2
  <2>3. /\ store' = [store EXCEPT ![k] = r]
        /\ UNCHANGED <<cache, cluster, queue, timer, completed, workerVars>>
    BY <1>4 DEF Delete
  <2> HIDE DEF r
  <2> QED BY <1>3, <2>1, <2>2, <2>3
<1>5. ASSUME NEW k \in Runs, Request(k) PROVE EnvironmentEffect
  <2> DEFINE r == [store[k] EXCEPT !.requestedAt = store[k].requestedAt + 1]
  <2>1. store[k].exists
    BY <1>5 DEF Request
  <2>2. Edited(store[k], r)
    <3>1. store[k].requestedAt \in Nat
      BY <1>0 DEF StoredRuns, KCLRuns
    <3>2. r.requestedAt = store[k].requestedAt + 1
      BY <1>0 DEF StoredRuns, KCLRuns
    <3>3. store[k].requestedAt <= r.requestedAt
      BY <3>1, <3>2
    <3>4. /\ r.exists = store[k].exists /\ r.finalizer = store[k].finalizer
          /\ r.status = store[k].status /\ r.conds = store[k].conds
          /\ r.generation = store[k].generation /\ r.spec = store[k].spec
          /\ r.deleting = store[k].deleting
      BY <1>0 DEF StoredRuns, KCLRuns
    <3> QED BY <3>3, <3>4 DEF Edited
  <2>3. /\ store' = [store EXCEPT ![k] = r]
        /\ UNCHANGED <<cache, cluster, queue, timer, completed, workerVars>>
    BY <1>0, <1>5 DEF Request
  <2> HIDE DEF r
  <2> QED BY <1>3, <2>1, <2>2, <2>3
<1>6. ASSUME NEW k \in Runs, NEW s \in SpecChoices, EditSpec(k, s) PROVE EnvironmentEffect
  <2> DEFINE r == [store[k] EXCEPT !.spec = s, !.generation = store[k].generation + 1]
  <2>1. store[k].exists /\ ~store[k].deleting
    BY <1>6 DEF EditSpec
  <2>2. Edited(store[k], r)
    <3>1. store[k].requestedAt <= r.requestedAt
      BY <1>0 DEF StoredRuns, KCLRuns
    <3>2. /\ r.exists = store[k].exists /\ r.finalizer = store[k].finalizer
          /\ r.status = store[k].status /\ r.conds = store[k].conds
          /\ r.generation = store[k].generation + 1
          /\ r.deleting = store[k].deleting
      BY <1>0 DEF StoredRuns, KCLRuns
    <3> QED BY <2>1, <3>1, <3>2 DEF Edited
  <2>3. /\ store' = [store EXCEPT ![k] = r]
        /\ UNCHANGED <<cache, cluster, queue, timer, completed, workerVars>>
    BY <1>0, <1>6 DEF EditSpec
  <2> HIDE DEF r
  <2> QED BY <1>3, <2>1, <2>2, <2>3
<1>7. ASSUME NEW s \in Sources, NEW a \in Artifacts, Publish(s, a) PROVE EnvironmentEffect
  BY <1>0, <1>7 DEF Publish
<1>8. ASSUME NEW o \in Objects, Drift(o) PROVE EnvironmentEffect
  BY <1>0, <1>8 DEF Drift
<1>9. CASE Crash
  BY <1>9 DEF Crash
<1> QED BY <1>1, <1>2, <1>4, <1>5, <1>6, <1>7, <1>8, <1>9 DEF Environment

\* The five ways in which a reconcile starts.
StartEffect(k) ==
    /\ pc = "idle"
    /\ UNCHANGED <<store, cache, cluster, timer, completed>>
    /\ queue' = queue \ {k}
    /\ \/ ~cache[k].exists /\ UNCHANGED workerVars
       \/ /\ cache[k].exists
          /\ cur' = k
          /\ before' = cache[k]
          /\ fresh' = (cache[k] = store[k])
          /\ \/ /\ cache[k].deleting /\ PrunesOnDeletion(cache[k])
                /\ obj' = cache[k] /\ pc' = "finalize"
             \/ /\ cache[k].deleting /\ ~PrunesOnDeletion(cache[k])
                /\ obj' = RemoveFinalizer(cache[k])
                /\ pc' = "finalizeStatus" /\ result' = "stop"
             \/ /\ ~cache[k].deleting /\ ~cache[k].finalizer
                /\ obj' = [cache[k] EXCEPT !.finalizer = TRUE]
                /\ pc' = "finalizeStatus" /\ result' = "after"
             \/ /\ ~cache[k].deleting /\ cache[k].finalizer
                /\ obj' = cache[k]
                /\ \/ cache[k].spec.suspend /\ pc' = "finalizeStatus" /\ result' = "stop"
                   \/ ~cache[k].spec.suspend /\ pc' = "getSource"

LEMMA EveryStartEffect ==
    ASSUME NEW k \in Runs, Start(k)
    PROVE  StartEffect(k)
<1> USE DEF StartEffect, Get, Load, Continue, Return, HasFinalizer
<1>1. CASE ReconcileNotFound(k)
  BY <1>1 DEF ReconcileNotFound
<1>2. CASE ReconcileDeleted(k)
  BY <1>2 DEF ReconcileDeleted
<1>3. CASE AddFinalizer(k)
  BY <1>3 DEF AddFinalizer
<1>4. CASE ReconcileSuspended(k)
  BY <1>4 DEF ReconcileSuspended
<1>5. CASE ReconcileActive(k)
  BY <1>5 DEF ReconcileActive
<1> QED BY <1>1, <1>2, <1>3, <1>4, <1>5 DEF Start

-----------------------------------------------------------------------------
(* An attempt under way is visible. *)

\* The steps of an attempt that follow the report of its progress.
ShownPcs == RolloutPcs \cup {"build"}

\* What the status reported is still in memory, and in the copy of the patcher.
Shown == pc \in ShownPcs => \A o \in {obj, before} :
            /\ o.conds.ready = "Unknown"
            /\ o.status.lastAttempted = rev

\* Until the reconcile ends, a copy that was fresh is told apart from the stored
\* run by what users change only: nobody else writes the status, and a patch that
\* went through leaves what was sent.
CopyInStep ==
    fresh /\ pc \in AttemptPcs \cup {"finalize"} /\ store[cur].exists =>
        store[cur].status = before.status /\ store[cur].conds = before.conds

ProgressInv == Shown /\ CopyInStep

LEMMA ShownArePcs == /\ ShownPcs \subseteq AttemptPcs
                     /\ {"idle", "getSource", "checkDependencies", "reportProgress",
                         "finalize", "finalizeStatus"} \cap ShownPcs = {}
                     /\ {"idle", "finalize", "finalizeStatus"} \cap AttemptPcs = {}
                     /\ {"getSource", "checkDependencies", "reportProgress"} \subseteq AttemptPcs
                     /\ "build" \in ShownPcs /\ RolloutPcs \subseteq ShownPcs
BY DEF ShownPcs, AttemptPcs, Pcs, RolloutPcs, ApplyPcs, HealthPcs

\* The steps with which a reconcile goes on: most change the memory only, two of
\* them patch the status.
GoesOn ==
    /\ cur' = cur /\ fresh' = fresh
    /\ pc' \in ShownPcs => rev' = rev
    /\ \/ /\ UNCHANGED <<store, before>>
          /\ obj' \in {obj, SetInventory(obj), MarkHealthy(obj, "True")}
          /\ pc' \in ShownPcs => pc \in ShownPcs
       \/ /\ Patch(obj', {}) /\ ~WriteFails(obj', {})
          /\ \/ pc = "reportProgress" /\ obj' = InProgress(obj)
             \/ pc \in ShownPcs /\ obj' = Waiting(obj)

LEMMA EveryGoesOn ==
    ASSUME TypeInv, Step, pc' \in AttemptPcs \cup {"finalize"}
    PROVE  GoesOn
<1> USE DEF environment, Continue, Return, GoesOn
<1>1. pc' # "finalizeStatus" /\ pc' # "idle"
  BY ShownArePcs
<1>2. CASE GetSource \/ DependenciesReady
  BY <1>2, ShownArePcs DEF GetSource, DependenciesReady
<1>3. CASE ReportProgress
  <2>1. PICK lost :
          /\ Patch(InProgress(obj), lost)
          /\ IF WriteFails(InProgress(obj), lost)
             THEN Return(InProgress(obj), "error")
             ELSE Continue(InProgress(obj), "build")
    BY <1>3 DEF ReportProgress
  <2>2. ~WriteFails(InProgress(obj), lost) /\ obj' = InProgress(obj)
    BY <1>1, <2>1
  <2>3. lost = {}
    BY <2>2 DEF WriteFails, PatchFails
  <2> QED BY <1>3, <2>1, <2>2, <2>3 DEF ReportProgress
<1>4. CASE Build \/ ApplyStage
  BY <1>4, ShownArePcs DEF Build, ApplyStage, RolloutPcs
<1>5. CASE Prune \/ WaitForSet
  BY <1>5, ShownArePcs DEF Prune, WaitForSet, RolloutPcs, HealthPcs
<1>6. CASE CheckHealth
  <2>1. PICK lost :
          /\ Patch(Waiting(obj), lost)
          /\ IF WriteFails(Waiting(obj), lost)
             THEN Return(MarkReady(Waiting(obj), "False"), "error")
             ELSE Continue(Waiting(obj), "waitForSet")
    BY <1>6 DEF CheckHealth
  <2>2. ~WriteFails(Waiting(obj), lost) /\ obj' = Waiting(obj)
    BY <1>1, <2>1
  <2>3. lost = {}
    BY <2>2 DEF WriteFails, PatchFails
  <2>4. pc \in ShownPcs
    BY <1>6, ShownArePcs DEF CheckHealth, RolloutPcs, HealthPcs
  <2> QED BY <1>6, <2>1, <2>2, <2>3, <2>4 DEF CheckHealth
<1>7. CASE ReportHealth
  <2>1. pc' = "finalizeStatus"
    BY <1>7 DEF ReportHealth, Succeed
  <2> QED BY <1>1, <2>1
<1>8. CASE \/ SourceNotReady \/ GetSourceFails \/ DependenciesNotReady
           \/ BuildFails \/ FetchFails \/ ArgumentsFail \/ ApplyStageFails \/ PruneFails
           \/ SkipHealthCheck \/ WaitForSetFails
           \/ Finalize \/ FinalizeFails \/ FinalizeUnimpersonated \/ FinalizeStatus
  <2>1. pc' \in {"idle", "finalizeStatus"}
    BY <1>8 DEF SourceNotReady, GetSourceFails, DependenciesNotReady, BuildFails, FetchFails,
                ArgumentsFail, ApplyStageFails, PruneFails, SkipHealthCheck, Succeed,
                WaitForSetFails, Finalize, FinalizeFails, FinalizeUnimpersonated,
                FinalizeStatus, Rest
  <2> QED BY <1>1, <2>1
<1> QED BY <1>2, <1>3, <1>4, <1>5, <1>6, <1>7, <1>8 DEF Step

\* A patch of all that changed leaves what was sent, if nobody else wrote it.
LEMMA MergeOfSame ==
    ASSUME NEW b \in StoredRuns, NEW a \in StoredRuns
    PROVE  /\ MergeStatus(b.status, b.status, a.status) = a.status
           /\ MergeConditions(b.conds, b.conds, a.conds) = a.conds
<1>1. a.status \in Statuses /\ a.conds \in Conditions(ConditionStatus)
  BY DEF StoredRuns, KCLRuns
<1>2. /\ MergeStatus(b.status, b.status, a.status) =
            [observedGeneration |-> a.status.observedGeneration,
             lastAttempted |-> a.status.lastAttempted,
             lastApplied |-> a.status.lastApplied,
             inventory |-> a.status.inventory,
             handledAt |-> a.status.handledAt]
      /\ MergeConditions(b.conds, b.conds, a.conds) =
            [ready |-> a.conds.ready,
             reconciling |-> a.conds.reconciling,
             healthy |-> a.conds.healthy]
  BY DEF MergeStatus, MergeConditions, Merge
<1> QED BY <1>1, <1>2 DEF Statuses, Conditions

LEMMA PatchInStep ==
    ASSUME NEW stored \in StoredRuns, NEW b \in StoredRuns, NEW o \in StoredRuns,
           stored.exists => stored.status = b.status /\ stored.conds = b.conds,
           ~Refused(o),
           Patched(stored, b, o, {}).exists
    PROVE  /\ Patched(stored, b, o, {}).status = o.status
           /\ Patched(stored, b, o, {}).conds = o.conds
<1>1. /\ MergeStatus(b.status, b.status, o.status) = o.status
      /\ MergeConditions(b.conds, b.conds, o.conds) = o.conds
  BY MergeOfSame
<1>2. ~Absent.exists
  BY DEF Absent, Created
<1> QED BY <1>1, <1>2 DEF Patched, StoredRuns, KCLRuns

LEMMA ProgressInit == Init => ProgressInv
BY ShownArePcs DEF Init, IdleWorker, ProgressInv, Shown, CopyInStep

LEMMA ProgressStart ==
    ASSUME TypeInv, NEW k \in Runs, Start(k)
    PROVE  ProgressInv'
<1>1. StartEffect(k)
  BY EveryStartEffect
<1> QED BY <1>1, ShownArePcs DEF StartEffect, workerVars, ProgressInv, Shown, CopyInStep

LEMMA ProgressWorker ==
    ASSUME TypeInv, ProgressInv, Step
    PROVE  ProgressInv'
<1> USE DEF ProgressInv
<1>0. /\ obj \in MemoryRuns /\ before \in StoredRuns /\ cur \in Runs
      /\ store \in [Runs -> StoredRuns]
  BY DEF TypeInv, TypeOK
<1>1. CASE pc' \notin AttemptPcs \cup {"finalize"}
  BY <1>1, ShownArePcs DEF Shown, CopyInStep
<1>2. CASE pc' \in AttemptPcs \cup {"finalize"}
  <2>1. GoesOn
    BY <1>2, EveryGoesOn
  <2>2. CASE /\ UNCHANGED <<store, before>>
             /\ obj' \in {obj, SetInventory(obj), MarkHealthy(obj, "True")}
             /\ pc' \in ShownPcs => pc \in ShownPcs
    <3>1. CopyInStep'
      <4>1. pc \in AttemptPcs \cup {"finalize"}
        BY <1>2 DEF Step, GetSource, SourceNotReady, GetSourceFails, DependenciesReady,
             DependenciesNotReady, ReportProgress, Build, BuildFails, FetchFails,
             ArgumentsFail, ApplyStage, ApplyStageFails, Prune, PruneFails,
             SkipHealthCheck, CheckHealth, WaitForSet, WaitForSetFails, ReportHealth,
             Finalize, FinalizeFails, FinalizeUnimpersonated, FinalizeStatus, Rest,
             AttemptPcs, Pcs, RolloutPcs, ApplyPcs, HealthPcs
      <4> QED BY <2>1, <2>2, <4>1 DEF CopyInStep, GoesOn
    <3>2. ASSUME pc' \in ShownPcs PROVE Shown'
      <4>1. pc \in ShownPcs /\ rev' = rev /\ rev \in Revisions
        BY <2>1, <2>2, <3>2, ShownArePcs DEF GoesOn, TypeInv, RevisionKnown
      <4>2. /\ MarkHealthy(obj, "True").conds.ready = obj.conds.ready
            /\ MarkHealthy(obj, "True").status = obj.status
            /\ SetInventory(obj).conds = obj.conds
            /\ SetInventory(obj).status.lastAttempted = obj.status.lastAttempted
        BY <1>0 DEF MarkHealthy, SetInventory, MemoryRuns, KCLRuns, Conditions, Statuses
      <4> QED BY <2>2, <4>1, <4>2 DEF Shown
    <3> QED BY <3>1, <3>2 DEF Shown
  <2>3. CASE /\ Patch(obj', {}) /\ ~WriteFails(obj', {})
             /\ \/ pc = "reportProgress" /\ obj' = InProgress(obj)
                \/ pc \in ShownPcs /\ obj' = Waiting(obj)
    <3>1. rev \in Revisions /\ pc \in AttemptPcs
      BY <2>3, ShownArePcs DEF TypeInv, RevisionKnown
    <3>2. /\ before' = obj'
          /\ store' = [store EXCEPT ![cur] = Patched(store[cur], before, obj', {})]
          /\ ~Refused(obj')
      BY <2>3 DEF Patch, Write, WriteFails, PatchFails
    <3>3. obj' \in MemoryRuns
      BY <1>0, <2>3, <3>1, UpdateKeeps DEF KeepsClaim
    <3>4. obj' \in StoredRuns
      BY <3>2, <3>3, UnrefusedIsStored
    <3>5. CopyInStep'
      <4>1. store'[cur] = Patched(store[cur], before, obj', {})
        BY <1>0, <3>2
      <4>2. store[cur] \in StoredRuns
        BY <1>0
      <4>3. fresh /\ store[cur].exists =>
              store[cur].status = before.status /\ store[cur].conds = before.conds
        BY <3>1 DEF CopyInStep
      <4>4. ASSUME fresh, store'[cur].exists
            PROVE  store'[cur].status = obj'.status /\ store'[cur].conds = obj'.conds
        BY <1>0, <3>2, <3>4, <4>1, <4>2, <4>3, <4>4, PatchInStep
      <4> QED BY <2>1, <3>2, <4>4 DEF CopyInStep, GoesOn
    <3>6. obj'.conds.ready = "Unknown" /\ obj'.status.lastAttempted = rev
      <4>1. CASE pc = "reportProgress" /\ obj' = InProgress(obj)
        <5>1. InProgress(obj).status.lastAttempted = rev
          BY <1>0, <3>1, UpdateSame
        <5> QED BY <1>0, <3>1, <4>1, <5>1, UpdateKeeps
      <4>2. CASE pc \in ShownPcs /\ obj' = Waiting(obj)
        <5>1. Waiting(obj).status = obj.status
          BY <1>0 DEF Waiting, MarkHealthy, MarkReconciling, MemoryRuns, KCLRuns
        <5> QED BY <1>0, <3>1, <4>2, <5>1, UpdateKeeps DEF Shown
      <4> QED BY <2>3, <4>1, <4>2
    <3> QED BY <2>1, <3>2, <3>5, <3>6 DEF Shown, GoesOn
  <2> QED BY <2>1, <2>2, <2>3 DEF GoesOn
<1> QED BY <1>1, <1>2

LEMMA ProgressEnvironment ==
    ASSUME TypeInv, ProgressInv, EnvironmentEffect
    PROVE  ProgressInv'
<1> USE DEF ProgressInv
<1>1. CASE Rest
  <2>1. pc' = "idle"
    BY <1>1 DEF Rest
  <2> QED BY <2>1, ShownArePcs DEF Shown, CopyInStep
<1>2. ASSUME UNCHANGED workerVars,
             \A k \in Runs : store'[k] = store[k] \/ (store[k].exists /\ Edited(store[k], store'[k]))
      PROVE  ProgressInv'
  <2>1. cur \in Runs
    BY DEF TypeInv, TypeOK
  <2>2. ~Absent.exists
    BY DEF Absent, Created
  <2>3. store'[cur].exists => /\ store[cur].exists
                             /\ store'[cur].status = store[cur].status
                             /\ store'[cur].conds = store[cur].conds
    BY <1>2, <2>1, <2>2 DEF Edited
  <2> QED BY <1>2, <2>3 DEF workerVars, Shown, CopyInStep
<1>3. CASE ~Rest
  <2>1. /\ UNCHANGED workerVars
        /\ \A k \in Runs : store'[k] = store[k] \/ (store[k].exists /\ Edited(store[k], store'[k]))
    BY <1>3 DEF EnvironmentEffect, Undisturbed, Restarted
  <2> QED BY <1>2, <2>1
<1> QED BY <1>1, <1>3

LEMMA ProgressStep ==
    ASSUME TypeInv, ProgressInv, [Next]_vars
    PROVE  ProgressInv'
<1>1. CASE UNCHANGED vars
  BY <1>1 DEF vars, workerVars, ProgressInv, Shown, CopyInStep
<1> QED BY <1>1, ProgressStart, ProgressWorker, ProgressEnvironment,
           EveryEnvironmentEffect DEF Next

-----------------------------------------------------------------------------
(* What a step of the worker does, in the terms of the intent. *)

\* A copy that may be written: it asks for what the worker's copy asks for, and
\* claims what that claims, or its generation once finalizeStatus has stamped it.
Honest(o) ==
    /\ o \in MemoryRuns
    /\ SameIntent(obj, o)
    /\ o.finalizer = obj.finalizer
    /\ o.conds.ready = "True" => obj.conds.ready = "True"
    /\ \/ o.status.observedGeneration = obj.status.observedGeneration
       \/ /\ pc = "finalizeStatus"
          /\ obj.conds.ready = "True"
          /\ o.status.observedGeneration = obj.generation

\* How a reconcile gets to finalizeStatus: with Ready only if the deletion was
\* handled or a roll-out went well, and with nothing scheduled only if the
\* finalizer is to go.
EndsHonestly ==
    /\ obj'.conds.ready = "True" =>
            obj.deleting \/ <<obj.generation, rev>> \in completed'[cur]
    /\ result' \in Dropped => pc = "finalize" /\ ~obj'.finalizer

WorkerEffect ==
    /\ UNCHANGED <<cache, queue>>
    /\ \/ store' = store
       \/ \E o, lost : Honest(o) /\ Write(o, lost)
    /\ \/ pc = "finalizeStatus" /\ Rest /\ timer \subseteq timer'
       \/ /\ pc' # "idle"
          /\ UNCHANGED <<cur, timer>>
          /\ KeepsClaim(obj, obj')
          /\ obj'.finalizer = obj.finalizer \/ pc = "finalize"
          /\ obj'.conds.ready = "True" => obj.conds.ready = "True" \/ pc \in AttemptPcs
          /\ pc' = "finalizeStatus" => EndsHonestly

LEMMA KeepsHonest ==
    ASSUME NEW o, KeepsClaim(obj, o), o.finalizer = obj.finalizer,
           o.conds.ready = "True" => obj.conds.ready = "True"
    PROVE  Honest(o)
BY DEF KeepsClaim, Honest

\* A step that fails, or goes on, without a write.
LEMMA SilentEffect ==
    ASSUME UNCHANGED <<environment, store>>, pc' # "idle",
           KeepsClaim(obj, obj'),
           obj'.finalizer = obj.finalizer,
           obj'.conds.ready = "True" => obj.conds.ready = "True",
           pc' = "finalizeStatus" =>
                /\ obj'.conds.ready # "True" \/ obj.deleting
                /\ result' \notin Dropped
    PROVE  WorkerEffect
BY DEF WorkerEffect, EndsHonestly, environment

LEMMA PrepareIntent ==
    ASSUME TypeInv, ProgressInv,
           \/ GetSource \/ SourceNotReady \/ GetSourceFails
           \/ DependenciesReady \/ DependenciesNotReady
           \/ ReportProgress
           \/ Build \/ BuildFails \/ FetchFails \/ ArgumentsFail
    PROVE  WorkerEffect
<1> USE DEF Continue, Return
<1>0. obj \in MemoryRuns
  BY DEF TypeInv, TypeOK
<1>1. /\ KeepsClaim(obj, obj)
      /\ \A s \in {"False", "Invalid"} : /\ KeepsClaim(obj, MarkReady(obj, s))
                                         /\ MarkReady(obj, s).finalizer = obj.finalizer
                                         /\ MarkReady(obj, s).conds.ready # "True"
  <2>1. \A s \in {"False", "Invalid"} :
            /\ SameRun(obj, MarkReady(obj, s))
            /\ KeepsClaim(obj, MarkReady(obj, s))
            /\ MarkReady(obj, s).conds.ready = s
    BY <1>0, MarkKeeps, MarkSame DEF ConditionStatus
  <2>2. KeepsClaim(obj, obj)
    BY <1>0, MarkKeeps
  <2> QED BY <2>1, <2>2 DEF SameRun
<1>2. {"stop", "noAccount"} = Dropped
  BY DEF Dropped
<1>3. CASE GetSource \/ DependenciesReady \/ Build
  BY <1>1, <1>3, SilentEffect DEF GetSource, DependenciesReady, Build
<1>4. CASE SourceNotReady \/ GetSourceFails \/ DependenciesNotReady
  BY <1>1, <1>2, <1>4, SilentEffect DEF SourceNotReady, GetSourceFails, DependenciesNotReady
<1>5. CASE BuildFails \/ FetchFails
  BY <1>1, <1>2, <1>5, SilentEffect DEF BuildFails, FetchFails
<1>6. CASE ArgumentsFail
  <2>1. obj.conds.ready # "True"
    BY <1>6, ShownArePcs DEF ArgumentsFail, ProgressInv, Shown
  <2> QED BY <1>1, <1>2, <1>6, <2>1, SilentEffect DEF ArgumentsFail
<1>7. CASE ReportProgress
  <2>1. pc = "reportProgress" /\ rev \in Revisions
    BY <1>7, ShownArePcs DEF ReportProgress, TypeInv, RevisionKnown
  <2>2. /\ KeepsClaim(obj, InProgress(obj))
        /\ InProgress(obj).conds.ready # "True"
        /\ InProgress(obj).finalizer = obj.finalizer
    BY <1>0, <2>1, UpdateKeeps, UpdateSame
  <2>3. PICK lost : /\ Patch(InProgress(obj), lost)
                    /\ obj' = InProgress(obj)
                    /\ \/ pc' = "finalizeStatus" /\ result' = "error"
                       \/ pc' = "build"
    BY <1>7 DEF ReportProgress
  <2>4. Honest(InProgress(obj)) /\ Write(InProgress(obj), lost)
    BY <2>2, <2>3, KeepsHonest DEF Patch
  <2>5. UNCHANGED environment
    BY <1>7 DEF ReportProgress
  <2> QED BY <1>2, <2>2, <2>3, <2>4, <2>5 DEF WorkerEffect, EndsHonestly, environment
<1> QED BY <1>3, <1>4, <1>5, <1>6, <1>7

LEMMA RolloutIntent ==
    ASSUME TypeInv, ProgressInv,
           \/ ApplyStage \/ ApplyStageFails \/ Prune \/ PruneFails
           \/ SkipHealthCheck \/ CheckHealth \/ WaitForSet \/ WaitForSetFails
           \/ ReportHealth
    PROVE  WorkerEffect
<1> USE DEF Continue, Return
<1>0. obj \in MemoryRuns /\ cur \in Runs /\ completed \in [Runs -> SUBSET (Nat \X Revisions)]
  BY DEF TypeInv, TypeOK
<1>1. pc \in RolloutPcs /\ pc \in AttemptPcs
  BY DEF ApplyStage, ApplyStageFails, Prune, PruneFails, SkipHealthCheck, CheckHealth,
         WaitForSet, WaitForSetFails, ReportHealth, AttemptPcs, Pcs, RolloutPcs, ApplyPcs,
         HealthPcs
<1>2. rev \in Revisions /\ obj.conds.ready # "True"
  BY <1>1, ShownArePcs DEF TypeInv, RevisionKnown, ProgressInv, Shown
\* The in-memory run of this step: its claims and conditions stay.
<1> DEFINE Quiet(o) == /\ KeepsClaim(obj, o)
                       /\ o.finalizer = obj.finalizer
                       /\ o.conds.ready # "True"
<1>3. /\ Quiet(obj) /\ Quiet(SetInventory(obj)) /\ Quiet(Waiting(obj))
      /\ \A s \in ConditionStatus : Quiet(MarkHealthy(obj, s))
  <2>1. Waiting(obj).finalizer = obj.finalizer
    BY <1>0 DEF Waiting, MarkHealthy, MarkReconciling, MemoryRuns, KCLRuns
  <2>2. Quiet(obj)
    BY <1>0, <1>2, MarkKeeps
  <2>3. Quiet(SetInventory(obj)) /\ Quiet(Waiting(obj))
    <3>1. /\ KeepsClaim(obj, SetInventory(obj)) /\ SetInventory(obj).conds = obj.conds
          /\ KeepsClaim(obj, Waiting(obj)) /\ Waiting(obj).conds.ready = obj.conds.ready
      BY <1>0, <1>2, UpdateKeeps
    <3>2. SameRun(obj, SetInventory(obj))
      BY <1>0, <1>2, UpdateSame
    <3>3. SetInventory(obj).finalizer = obj.finalizer
      BY <3>2 DEF SameRun
    <3> HIDE DEF Continue, Return
    <3> QED BY <1>2, <2>1, <3>1, <3>3
  <2>4. ASSUME NEW s \in ConditionStatus PROVE Quiet(MarkHealthy(obj, s))
    <3>1. KeepsClaim(obj, MarkHealthy(obj, s)) /\ SameRun(obj, MarkHealthy(obj, s))
      BY <1>0, MarkKeeps, MarkSame
    <3>2. MarkHealthy(obj, s).conds.ready = obj.conds.ready
      BY <1>0, MarkKeeps
    <3> QED BY <1>2, <3>1, <3>2 DEF SameRun
  <2> QED BY <2>2, <2>3, <2>4
<1>4. ASSUME NEW o, Quiet(o) PROVE Quiet(MarkReady(o, "False"))
  <2>1. o \in MemoryRuns
    BY <1>4 DEF KeepsClaim
  <2>2. /\ SameRun(o, MarkReady(o, "False"))
        /\ KeepsClaim(o, MarkReady(o, "False"))
        /\ MarkReady(o, "False").conds.ready = "False"
    BY <2>1, MarkKeeps, MarkSame DEF ConditionStatus
  <2>3. KeepsClaim(obj, MarkReady(o, "False"))
    BY <1>4, <2>2, KeepsTransitive
  <2> QED BY <1>4, <2>2, <2>3 DEF SameRun
<1>5. {"stop", "noAccount"} = Dropped
  BY DEF Dropped
<1>6. ASSUME NEW o, Quiet(o), Succeed(o)
      PROVE  /\ KeepsClaim(obj, obj') /\ obj'.finalizer = obj.finalizer
             /\ pc' = "finalizeStatus" /\ EndsHonestly
  <2>1. o \in MemoryRuns /\ o.generation = obj.generation
    BY <1>6 DEF KeepsClaim, SameIntent
  <2>2. /\ obj' = Succeeded(o) /\ pc' = "finalizeStatus" /\ result' = "after"
        /\ completed' = [completed EXCEPT ![cur] = @ \cup {<<o.generation, rev>>}]
    BY <1>6 DEF Succeed
  <2>3. KeepsClaim(obj, obj') /\ obj'.finalizer = obj.finalizer
    <3>1. KeepsClaim(o, Succeeded(o))
      BY <1>2, <2>1, UpdateKeeps
    <3>2. Succeeded(o).finalizer = o.finalizer
      BY <1>2, <2>1, UpdateSame
    <3>3. KeepsClaim(obj, Succeeded(o))
      BY <1>6, <3>1, KeepsTransitive
    <3> QED BY <1>6, <2>2, <3>2, <3>3
  <2>4. <<obj.generation, rev>> \in completed'[cur]
    BY <1>0, <2>1, <2>2
  <2> QED BY <1>5, <2>2, <2>3, <2>4 DEF EndsHonestly
<1>7. ASSUME Quiet(obj'), UNCHANGED <<environment, store>>, pc' # "idle",
             pc' = "finalizeStatus" => result' = "error"
      PROVE  WorkerEffect
  BY <1>5, <1>7, SilentEffect
<1>8. CASE ApplyStage
  BY <1>3, <1>7, <1>8 DEF ApplyStage, ApplyPcs, AfterStage
<1>9. CASE ApplyStageFails
  BY <1>3, <1>4, <1>7, <1>9 DEF ApplyStageFails
<1>10. CASE Prune \/ WaitForSet
  BY <1>3, <1>7, <1>10 DEF Prune, WaitForSet, ConditionStatus
<1>11. CASE PruneFails \/ WaitForSetFails
  BY <1>3, <1>4, <1>7, <1>11 DEF PruneFails, WaitForSetFails, ConditionStatus
<1>12. CASE SkipHealthCheck
  <2>1. Quiet(MarkHealthy(obj, "Absent"))
    BY <1>3 DEF ConditionStatus
  <2>2. Succeed(MarkHealthy(obj, "Absent")) /\ UNCHANGED <<environment, store>>
    BY <1>12 DEF SkipHealthCheck
  <2> HIDE DEF Quiet
  <2> QED BY <1>1, <1>6, <2>1, <2>2 DEF WorkerEffect, environment
<1>13. CASE CheckHealth
  <2>1. PICK lost : /\ Patch(Waiting(obj), lost)
                    /\ \/ /\ obj' = MarkReady(Waiting(obj), "False")
                          /\ pc' = "finalizeStatus" /\ result' = "error"
                       \/ obj' = Waiting(obj) /\ pc' = "waitForSet"
    BY <1>13 DEF CheckHealth
  <2>2. Honest(Waiting(obj)) /\ Write(Waiting(obj), lost)
    BY <1>3, <2>1, KeepsHonest DEF Patch
  <2>3. Quiet(obj')
    BY <1>3, <1>4, <2>1
  <2>4. UNCHANGED environment
    BY <1>13 DEF CheckHealth
  <2> QED BY <1>5, <2>1, <2>2, <2>3, <2>4 DEF WorkerEffect, EndsHonestly, environment
<1>14. CASE ReportHealth
  <2>1. PICK lost : /\ Patch(obj, lost)
                    /\ \/ /\ obj' = MarkReady(obj, "False")
                          /\ pc' = "finalizeStatus" /\ result' = "error"
                       \/ Succeed(obj)
    BY <1>14 DEF ReportHealth
  <2>2. Honest(obj) /\ Write(obj, lost)
    BY <1>3, <2>1, KeepsHonest DEF Patch
  <2>3. UNCHANGED environment
    BY <1>14 DEF ReportHealth
  <2>4. CASE Succeed(obj)
    <3> HIDE DEF Quiet
    <3> QED BY <1>1, <1>3, <1>6, <2>2, <2>3, <2>4 DEF WorkerEffect, environment
  <2>5. CASE /\ obj' = MarkReady(obj, "False")
             /\ pc' = "finalizeStatus" /\ result' = "error"
    BY <1>3, <1>4, <1>5, <2>2, <2>3, <2>5 DEF WorkerEffect, EndsHonestly, environment
  <2> QED BY <2>1, <2>4, <2>5
<1> QED BY <1>8, <1>9, <1>10, <1>11, <1>12, <1>13, <1>14

LEMMA EndIntent ==
    ASSUME TypeInv, FinalizerInv,
           Finalize \/ FinalizeFails \/ FinalizeUnimpersonated \/ FinalizeStatus
    PROVE  WorkerEffect
<1> USE DEF Return
<1>1. obj \in MemoryRuns
  BY DEF TypeInv, TypeOK
<1>2. /\ KeepsClaim(obj, obj) /\ KeepsClaim(obj, RemoveFinalizer(obj))
      /\ ~RemoveFinalizer(obj).finalizer
      /\ RemoveFinalizer(obj).conds = obj.conds
  <2>1. KeepsClaim(obj, RemoveFinalizer(obj))
    BY <1>1, FieldType DEF RemoveFinalizer, KeepsClaim, SameIntent, MemoryRuns, KCLRuns
  <2> QED BY <1>1, <2>1, MarkKeeps DEF RemoveFinalizer, MemoryRuns, KCLRuns
<1>3. pc = "finalize" => obj.deleting
  BY DEF FinalizerInv
<1>4. {"stop", "noAccount"} = Dropped
  BY DEF Dropped
<1>5. CASE Finalize \/ FinalizeFails \/ FinalizeUnimpersonated
  <2>1. /\ pc = "finalize" /\ pc' = "finalizeStatus"
        /\ UNCHANGED <<environment, store>>
        /\ \/ obj' = RemoveFinalizer(obj)
           \/ obj' = obj /\ result' = "error"
    BY <1>5 DEF Finalize, FinalizeFails, FinalizeUnimpersonated
  <2> QED BY <1>2, <1>3, <1>4, <2>1 DEF WorkerEffect, EndsHonestly, environment
<1>6. CASE FinalizeStatus
  <2>1. PICK lost : Write(FinalStatus(obj), lost)
    BY <1>6 DEF FinalizeStatus
  <2>2. Honest(FinalStatus(obj))
    BY <1>1, <1>6, FinalStatusKeeps DEF Honest, FinalizeStatus
  <2>3. /\ pc = "finalizeStatus" /\ Rest /\ timer \subseteq timer'
        /\ UNCHANGED <<cache, queue>>
    BY <1>6 DEF FinalizeStatus
  <2> QED BY <2>1, <2>2, <2>3 DEF WorkerEffect
<1> QED BY <1>5, <1>6

LEMMA EveryWorkerEffect ==
    ASSUME TypeInv, FinalizerInv, ProgressInv, Step
    PROVE  WorkerEffect
BY PrepareIntent, RolloutIntent, EndIntent DEF Step

-----------------------------------------------------------------------------
(* The generation orders the copies. *)

\* p is what some time makes of the stored run o: it stays what it is or gets a
\* higher generation, unless it goes away.
Aged(o, p) ==
    p.exists =>
        /\ o.exists
        /\ o.requestedAt <= p.requestedAt
        /\ \/ p.generation = o.generation + 1 /\ ~o.deleting
           \/ /\ p.generation = o.generation
              /\ p.spec = o.spec
              /\ p.deleting = o.deleting

\* The copy o of a run, whose stored state is p, is not newer than that, and if it
\* is as new it asks for the same.
Precedes(o, p) ==
    o.exists /\ p.exists =>
        /\ o.generation <= p.generation
        /\ o.requestedAt <= p.requestedAt
        /\ o.generation = p.generation => o.spec = p.spec /\ o.deleting = p.deleting

LEMMA PrecedesAged ==
    ASSUME NEW o \in MemoryRuns, NEW p \in StoredRuns, NEW q \in StoredRuns,
           Precedes(o, p), Aged(p, q)
    PROVE  Precedes(o, q)
<1>1. /\ o.generation \in Nat /\ p.generation \in Nat /\ q.generation \in Nat
      /\ o.requestedAt \in Nat /\ p.requestedAt \in Nat /\ q.requestedAt \in Nat
  BY DEF StoredRuns, MemoryRuns, KCLRuns
<1> SUFFICES ASSUME o.exists, q.exists
             PROVE  /\ o.generation <= q.generation
                    /\ o.requestedAt <= q.requestedAt
                    /\ o.generation = q.generation => o.spec = q.spec /\ o.deleting = q.deleting
  BY DEF Precedes
<1>2. /\ o.generation <= p.generation
      /\ o.requestedAt <= p.requestedAt
      /\ o.generation = p.generation => o.spec = p.spec /\ o.deleting = p.deleting
  BY DEF Precedes, Aged
<1>3. /\ p.requestedAt <= q.requestedAt
      /\ \/ p.generation = q.generation /\ q.spec = p.spec /\ q.deleting = p.deleting
         \/ q.generation = p.generation + 1
  BY DEF Aged, SameIntent
<1> QED BY <1>1, <1>2, <1>3

LEMMA PrecedesSame ==
    ASSUME NEW o \in MemoryRuns, NEW p, NEW q, SameIntent(o, p), Precedes(o, q)
    PROVE  Precedes(p, q)
BY DEF SameIntent, Precedes

LEMMA PrecedesItself ==
    ASSUME NEW o \in StoredRuns
    PROVE  Precedes(o, o) /\ Aged(o, o)
<1>1. o.generation \in Nat /\ o.requestedAt \in Nat
  BY DEF StoredRuns, KCLRuns
<1> QED BY <1>1 DEF Precedes, Aged, SameIntent

\* A write of the worker does to the run that is reconciled what time does.
LEMMA WriteAges ==
    ASSUME TypeInv, NEW o, NEW lost, Honest(o), Write(o, lost)
    PROVE  /\ \A k \in Runs \ {cur} : store'[k] = store[k]
           /\ store'[cur] = Patched(store[cur], before, o, lost)
           /\ \/ store'[cur] = Absent
              \/ /\ SameIntent(store[cur], store'[cur])
                 /\ store'[cur].status.observedGeneration \in
                        {store[cur].status.observedGeneration, o.status.observedGeneration}
                 /\ store'[cur].conds.ready \in {store[cur].conds.ready, o.conds.ready}
                 /\ store'[cur].finalizer \in {store[cur].finalizer, o.finalizer}
<1>1. /\ store \in [Runs -> StoredRuns] /\ before \in StoredRuns /\ cur \in Runs
      /\ o \in MemoryRuns
  BY DEF TypeInv, TypeOK, Honest
<1>2. store' = [store EXCEPT ![cur] = Patched(store[cur], before, o, lost)]
  BY DEF Write
<1>3. store'[cur] = Patched(store[cur], before, o, lost)
  BY <1>1, <1>2
<1>4. \A k \in Runs \ {cur} : store'[k] = store[k]
  BY <1>1, <1>2
<1> QED BY <1>1, <1>3, <1>4, PatchedIntent

LEMMA AbsentIsGone == ~Absent.exists /\ ~Absent.deleting
BY DEF Absent, Created

LEMMA EveryStepAges ==
    ASSUME TypeInv, FinalizerInv, ProgressInv, [Next]_vars
    PROVE  \A k \in Runs : Aged(store[k], store'[k])
<1>0. store \in [Runs -> StoredRuns] /\ cur \in Runs
  BY DEF TypeInv, TypeOK
<1>1. \A k \in Runs : Aged(store[k], store[k])
  BY <1>0, PrecedesItself
<1>2. CASE store' = store
  BY <1>1, <1>2
<1>3. CASE Step
  <2>1. CASE \E o, lost : Honest(o) /\ Write(o, lost)
    <3>1. PICK o, lost : Honest(o) /\ Write(o, lost)
      BY <2>1
    <3>2. /\ \A k \in Runs \ {cur} : store'[k] = store[k]
          /\ store'[cur] = Absent \/ SameIntent(store[cur], store'[cur])
      BY <3>1, WriteAges
    <3>3. Aged(store[cur], store'[cur])
      <4>1. store[cur].requestedAt \in Nat
        BY <1>0 DEF StoredRuns, KCLRuns
      <4>2. CASE store'[cur] = Absent
        BY <4>2, AbsentIsGone DEF Aged
      <4>3. CASE SameIntent(store[cur], store'[cur])
        <5>1. store[cur].requestedAt <= store'[cur].requestedAt
          BY <4>1, <4>3 DEF SameIntent
        <5> QED BY <4>3, <5>1 DEF Aged, SameIntent
      <4> QED BY <3>2, <4>2, <4>3
    <3> QED BY <1>1, <3>2, <3>3
  <2> QED BY <1>2, <1>3, <2>1, EveryWorkerEffect DEF WorkerEffect
<1>4. CASE Environment
  <2>1. ASSUME NEW k \in Runs PROVE Aged(store[k], store'[k])
    <3>1. \/ store'[k] = store[k]
          \/ store[k].exists /\ Edited(store[k], store'[k])
      BY <1>4, EveryEnvironmentEffect DEF EnvironmentEffect, Undisturbed, Restarted
    <3> QED BY <1>1, <3>1, AbsentIsGone DEF Aged, Edited
  <2> QED BY <2>1
<1>5. CASE \E k \in Runs : Start(k)
  BY <1>2, <1>5, EveryStartEffect DEF StartEffect
<1> QED BY <1>2, <1>3, <1>4, <1>5 DEF Next, vars

\* It holds of the cache, and of the run in memory.
GenerationInv ==
    /\ \A k \in Runs : Precedes(cache[k], store[k])
    /\ pc # "idle" => obj.exists /\ Precedes(obj, store[cur])

LEMMA GenerationInit == Init => GenerationInv
<1> SUFFICES ASSUME Init PROVE GenerationInv
  OBVIOUS
<1>1. cache = store /\ pc = "idle" /\ store \in [Runs -> StoredRuns]
  BY TypeInit DEF Init, IdleWorker, TypeInv, TypeOK
<1> QED BY <1>1, PrecedesItself DEF GenerationInv

LEMMA GenerationStep ==
    ASSUME TypeInv, FinalizerInv, ProgressInv, GenerationInv, [Next]_vars
    PROVE  GenerationInv'
<1> USE DEF GenerationInv
<1>0. /\ store \in [Runs -> StoredRuns] /\ cache \in [Runs -> StoredRuns] /\ cur \in Runs
      /\ \A k \in Runs : cache[k] \in MemoryRuns
      /\ obj \in MemoryRuns
      /\ store' \in [Runs -> StoredRuns]
  BY TypeStep, StoredIsMemory DEF TypeInv, TypeOK
<1>1. \A k \in Runs : Aged(store[k], store'[k])
  BY EveryStepAges
<1>2. \A k \in Runs : Precedes(cache[k], store'[k])
  BY <1>0, <1>1, PrecedesAged
<1>3. pc # "idle" => obj.exists /\ Precedes(obj, store'[cur])
  BY <1>0, <1>1, PrecedesAged
<1>4. CASE Step
  <2>1. WorkerEffect
    BY <1>4, EveryWorkerEffect
  <2>2. cache' = cache /\ pc # "idle"
    BY <1>4, <2>1, StepRevisions DEF WorkerEffect
  <2>3. pc' # "idle" => cur' = cur /\ SameIntent(obj, obj')
    BY <2>1 DEF WorkerEffect, Rest, KeepsClaim
  <2>4. pc' # "idle" => obj'.exists /\ Precedes(obj', store'[cur])
    BY <1>0, <1>3, <2>2, <2>3, PrecedesSame DEF SameIntent
  <2> QED BY <1>2, <2>2, <2>3, <2>4
<1>5. ASSUME NEW k \in Runs, Start(k) PROVE GenerationInv'
  <2>1. /\ UNCHANGED <<store, cache>>
        /\ \/ pc' = "idle"
           \/ cache[k].exists /\ cur' = k /\ SameIntent(cache[k], obj')
    <3>1. /\ SameIntent(cache[k], cache[k])
          /\ SameIntent(cache[k], RemoveFinalizer(cache[k]))
          /\ SameIntent(cache[k], [cache[k] EXCEPT !.finalizer = TRUE])
      BY <1>0 DEF SameIntent, RemoveFinalizer, StoredRuns, KCLRuns
    <3>2. StartEffect(k)
      BY <1>5, EveryStartEffect
    <3> QED BY <3>1, <3>2 DEF StartEffect, workerVars
  <2>2. pc' # "idle" => obj'.exists /\ Precedes(obj', store[k])
    BY <1>0, <2>1, PrecedesSame DEF SameIntent
  <2> QED BY <1>2, <2>1, <2>2
<1>6. CASE Environment
  <2>1. EnvironmentEffect
    BY <1>6, EveryEnvironmentEffect
  <2>2. \A k \in Runs : Precedes(cache'[k], store'[k])
    BY <1>0, <1>2, <2>1, PrecedesItself DEF EnvironmentEffect, Undisturbed, Restarted
  <2>3. pc' # "idle" => obj'.exists /\ Precedes(obj', store'[cur'])
    BY <1>3, <2>1 DEF EnvironmentEffect, Undisturbed, Restarted, Rest, workerVars
  <2> QED BY <2>2, <2>3
<1>7. CASE UNCHANGED vars
  BY <1>7 DEF vars, workerVars
<1> QED BY <1>4, <1>5, <1>6, <1>7 DEF Next

-----------------------------------------------------------------------------
(* A run under deletion keeps the finalizer until it goes. *)

Kept(o) == o.deleting => o.finalizer

\* It holds of every copy; so the patch that is to remove the finalizer does.
KeptInv ==
    /\ \A k \in Runs : Kept(store[k]) /\ Kept(cache[k])
    /\ pc # "idle" /\ obj.deleting => before.finalizer
    /\ pc = "finalize" => obj.finalizer

\* The steps of finalize.
LEMMA FinalizeEffect ==
    ASSUME Step, pc = "finalize"
    PROVE  /\ UNCHANGED <<store, cur, before, fresh>>
           /\ pc' = "finalizeStatus"
           /\ \/ obj' = obj /\ result' = "error"
              \/ obj' = RemoveFinalizer(obj) /\ result' = "noAccount"
              \/ /\ obj' = RemoveFinalizer(obj) /\ result' = "stop"
                 /\ cluster' = Deleted(Deletable(obj.status.inventory))
<1>1. Finalize \/ FinalizeFails \/ FinalizeUnimpersonated
  BY DEF Step, GetSource, SourceNotReady, GetSourceFails, DependenciesReady,
         DependenciesNotReady, ReportProgress, Build, BuildFails, FetchFails,
         ArgumentsFail, ApplyStage, ApplyStageFails, Prune, PruneFails,
         SkipHealthCheck, CheckHealth, WaitForSet, WaitForSetFails, ReportHealth,
         FinalizeStatus, ApplyPcs
<1> QED BY <1>1 DEF Finalize, FinalizeFails, FinalizeUnimpersonated, Return, environment

\* A run under deletion is worked on in finalize and finalizeStatus only.
LEMMA DeletedPcs ==
    ASSUME TypeInv, FinalizerInv, obj.deleting, pc # "idle"
    PROVE  pc \in {"finalize", "finalizeStatus"}
BY DEF TypeInv, TypeOK, FinalizerInv, AttemptPcs

LEMMA FinalizeStatusOnly ==
    ASSUME Step, pc = "finalizeStatus"
    PROVE  FinalizeStatus
BY DEF Step, GetSource, SourceNotReady, GetSourceFails, DependenciesReady,
       DependenciesNotReady, ReportProgress, Build, BuildFails, FetchFails,
       ArgumentsFail, ApplyStage, ApplyStageFails, Prune, PruneFails,
       SkipHealthCheck, CheckHealth, WaitForSet, WaitForSetFails, ReportHealth,
       Finalize, FinalizeFails, FinalizeUnimpersonated, ApplyPcs

LEMMA PatchedKept ==
    ASSUME NEW stored \in StoredRuns, NEW b, NEW o, NEW lost, Kept(stored)
    PROVE  Kept(Patched(stored, b, o, lost))
BY AbsentIsGone DEF Kept, Patched, StoredRuns, KCLRuns

LEMMA KeptInit == Init => KeptInv
<1> SUFFICES ASSUME Init PROVE KeptInv
  OBVIOUS
<1>1. \A k \in Runs : ~store[k].deleting
  BY DEF Init, Created
<1> QED BY <1>1 DEF Init, IdleWorker, KeptInv, Kept

LEMMA KeptStep ==
    ASSUME TypeInv, FinalizerInv, ProgressInv, KeptInv, [Next]_vars
    PROVE  KeptInv'
<1> USE DEF KeptInv
<1>0. /\ store \in [Runs -> StoredRuns] /\ cache \in [Runs -> StoredRuns] /\ cur \in Runs
      /\ obj \in MemoryRuns
  BY DEF TypeInv, TypeOK
<1>1. CASE Step
  <2>1. WorkerEffect
    BY <1>1, EveryWorkerEffect
  <2>2. \A k \in Runs : Kept(store'[k])
    <3>1. CASE \E o, lost : Honest(o) /\ Write(o, lost)
      <4>1. /\ \A k \in Runs \ {cur} : store'[k] = store[k]
            /\ \E b, o, lost : store'[cur] = Patched(store[cur], b, o, lost)
        BY <3>1, WriteAges
      <4> QED BY <1>0, <4>1, PatchedKept
    <3> QED BY <2>1, <3>1 DEF WorkerEffect
  <2>3. pc # "idle" /\ pc' # "finalize"
    BY <1>1, StepRevisions DEF StepEffect
  <2>4. pc' # "idle" /\ obj'.deleting => before'.finalizer
    <3> SUFFICES ASSUME pc' # "idle", obj'.deleting PROVE before'.finalizer
      OBVIOUS
    <3>1. obj.deleting
      BY <2>1 DEF WorkerEffect, Rest, KeepsClaim, SameIntent
    <3>2. pc # "finalizeStatus"
      BY <1>1, FinalizeStatusOnly DEF FinalizeStatus, Rest
    <3>3. pc = "finalize"
      BY <2>3, <3>1, <3>2, DeletedPcs
    <3> QED BY <1>1, <2>3, <3>1, <3>3, FinalizeEffect
  <2> QED BY <2>1, <2>2, <2>3, <2>4 DEF WorkerEffect
<1>2. ASSUME NEW k \in Runs, Start(k) PROVE KeptInv'
  <2>1. StartEffect(k)
    BY <1>2, EveryStartEffect
  <2>2. /\ RemoveFinalizer(cache[k]).deleting = cache[k].deleting
        /\ [cache[k] EXCEPT !.finalizer = TRUE].deleting = cache[k].deleting
    BY <1>0 DEF RemoveFinalizer, StoredRuns, KCLRuns
  <2> QED BY <2>1, <2>2 DEF StartEffect, workerVars, Kept
<1>3. CASE Environment
  <2>1. EnvironmentEffect
    BY <1>3, EveryEnvironmentEffect
  <2>2. ASSUME NEW k \in Runs PROVE Kept(store'[k]) /\ Kept(cache'[k])
    BY <2>1, AbsentIsGone DEF EnvironmentEffect, Undisturbed, Restarted, Edited, Kept
  <2> QED BY <2>1, <2>2 DEF EnvironmentEffect, Undisturbed, Restarted, Rest, workerVars
<1>4. CASE UNCHANGED vars
  BY <1>4 DEF vars, workerVars, Kept
<1> QED BY <1>1, <1>2, <1>3, <1>4 DEF Next

-----------------------------------------------------------------------------
(* No run is forgotten. *)

\* The run is queued, or will be when the cache catches up.
ToCome(k) == k \in queue \cup timer \/ Noticed(cache[k], store[k])

\* A run on which the worker has an outdated copy comes up again, so that it does
\* not matter what the worker makes of it; and a reconcile that schedules nothing
\* is one of a suspended run or one that takes the finalizer off.
ScheduleInv ==
    /\ NeverForgotten
    /\ pc # "idle" /\ store[cur].exists /\ store[cur].generation # obj.generation =>
            ToCome(cur)
    /\ pc = "finalizeStatus" /\ result \in Dropped =>
            IF obj.deleting THEN ~obj.finalizer ELSE obj.spec.suspend

\* What is to come stays to come as long as the cache has not caught up, and a
\* change of the specification is something to come.
LEMMA ToComeStays ==
    ASSUME TypeInv, FinalizerInv, GenerationInv, TypeInv', NEW k \in Runs,
           Aged(store[k], store'[k]), store'[k].exists, cache'[k] = cache[k],
           queue \cup timer \subseteq queue' \cup timer',
           ToCome(k) \/ store'[k].generation # store[k].generation
    PROVE  ToCome(k)'
<1>1. store[k].exists /\ cache[k].exists
  BY DEF Aged, FinalizerInv, CacheBehind
<1>2. /\ cache[k].generation \in Nat /\ cache[k].requestedAt \in Nat
      /\ store[k].generation \in Nat /\ store[k].requestedAt \in Nat
      /\ store'[k].generation \in Nat /\ store'[k].requestedAt \in Nat
  BY DEF TypeInv, TypeOK, StoredRuns, KCLRuns
<1>3. /\ cache[k].generation <= store[k].generation
      /\ cache[k].requestedAt <= store[k].requestedAt
  BY <1>1 DEF GenerationInv, Precedes
<1>4. /\ store[k].requestedAt <= store'[k].requestedAt
      /\ store'[k].generation \in {store[k].generation, store[k].generation + 1}
  BY DEF Aged
<1>5. CASE k \in queue \cup timer
  BY <1>5 DEF ToCome
<1>6. CASE Noticed(cache[k], store[k]) \/ store'[k].generation # store[k].generation
  <2>1. \/ cache[k].generation # store'[k].generation
        \/ cache[k].requestedAt # store'[k].requestedAt
    BY <1>1, <1>2, <1>3, <1>4, <1>6 DEF Noticed
  <2> QED BY <2>1 DEF ToCome, Noticed
<1> QED BY <1>5, <1>6 DEF ToCome

LEMMA ScheduleInit == Init => ScheduleInv
BY DEF Init, IdleWorker, ScheduleInv, NeverForgotten, Scheduled

\* A reconcile that ends well with nothing scheduled has nothing left to do, if
\* its copy was up to date.
LEMMA EndsWell ==
    ASSUME TypeInv, FinalizerInv, GenerationInv, KeptInv, ScheduleInv, FinalizeStatus,
           cur \notin timer', store'[cur].exists,
           store[cur].exists, store[cur].generation = obj.generation
    PROVE  ~store'[cur].deleting /\ store'[cur].spec.suspend
<1>0. /\ store[cur] \in StoredRuns /\ before \in StoredRuns /\ obj \in MemoryRuns
      /\ cur \in Runs /\ store \in [Runs -> StoredRuns]
  BY DEF TypeInv, TypeOK
<1> DEFINE o == FinalStatus(obj)
<1>1. PICK lost : /\ Write(o, lost)
                  /\ timer' = IF result \in Dropped /\ ~WriteFails(o, lost)
                              THEN timer
                              ELSE timer \cup {cur}
  BY DEF FinalizeStatus
<1>2. pc = "finalizeStatus"
  BY DEF FinalizeStatus
<1>3. result \in Dropped /\ lost = {} /\ store'[cur] = Patched(store[cur], before, o, lost)
  <2>1. result \in Dropped /\ ~WriteFails(o, lost)
    BY <1>1
  <2>2. store' = [store EXCEPT ![cur] = Patched(store[cur], before, o, lost)]
    BY <1>1 DEF Write
  <2> QED BY <1>0, <2>1, <2>2 DEF WriteFails, PatchFails
<1>4. store[cur].spec = obj.spec /\ store[cur].deleting = obj.deleting
  BY <1>2 DEF GenerationInv, Precedes
<1>5. o \in MemoryRuns /\ o.finalizer = obj.finalizer
  BY <1>0, FinalStatusKeeps
<1> HIDE DEF o
<1>6. store'[cur] = Absent \/ SameIntent(store[cur], store'[cur])
  BY <1>0, <1>3, <1>5, PatchedIntent
<1>7. SameIntent(store[cur], store'[cur])
  BY <1>6, AbsentIsGone
<1>8. CASE obj.deleting
  <2>1. ~obj.finalizer /\ before.finalizer
    BY <1>2, <1>3, <1>8 DEF ScheduleInv, KeptInv
  <2>2. ~Merge(store[cur].finalizer, before.finalizer, o.finalizer)
    BY <1>5, <2>1 DEF Merge
  <2>3. Patched(store[cur], before, o, {}) = Absent
    BY <1>4, <1>8, <2>2 DEF Patched
  <2> QED BY <1>3, <2>3, AbsentIsGone
<1>9. CASE ~obj.deleting
  BY <1>2, <1>3, <1>4, <1>7, <1>9 DEF ScheduleInv, SameIntent
<1> QED BY <1>8, <1>9
\* There is something to do for the run o.
Wanting(o) == o.exists /\ (o.deleting \/ ~o.spec.suspend)

\* Unless a watch event is handled, what there is to do is either still to come
\* or being done, or the user has just asked for it.
LEMMA WantingStays ==
    ASSUME TypeInv, FinalizerInv, GenerationInv, ScheduleInv, TypeInv', NEW k \in Runs,
           Aged(store[k], store'[k]), cache'[k] = cache[k],
           queue \cup timer \subseteq queue' \cup timer',
           InFlight(k) => pc' # "idle" /\ cur' = cur,
           Wanting(store'[k])
    PROVE  Scheduled(k)'
<1>1. store'[k].exists
  BY DEF Wanting
<1>2. ToCome(k)' => Scheduled(k)'
  BY DEF ToCome, Scheduled
<1>3. CASE store'[k].generation # store[k].generation
  BY <1>1, <1>2, <1>3, ToComeStays
<1>4. CASE store'[k].generation = store[k].generation
  <2>1. store[k].generation \in Nat
    BY DEF TypeInv, TypeOK, StoredRuns, KCLRuns
  <2>2. Wanting(store[k])
    BY <1>1, <1>4, <2>1 DEF Aged, Wanting
  <2>3. ToCome(k) \/ InFlight(k)
    BY <2>2 DEF ScheduleInv, NeverForgotten, Scheduled, ToCome, Wanting
  <2>4. InFlight(k) => Scheduled(k)'
    BY DEF Scheduled, InFlight
  <2> QED BY <1>1, <1>2, <2>3, <2>4, ToComeStays
<1> QED BY <1>3, <1>4

LEMMA ScheduleWorker ==
    ASSUME TypeInv, FinalizerInv, ProgressInv, GenerationInv, KeptInv, ScheduleInv, Step
    PROVE  ScheduleInv'
<1>0. /\ cur \in Runs /\ pc # "idle" /\ WorkerEffect /\ TypeInv'
      /\ \A k \in Runs : Aged(store[k], store'[k])
      /\ \A k \in Runs \ {cur} : store'[k] = store[k]
  BY EveryWorkerEffect, EveryStepAges, StepRevisions, TypeStep DEF TypeInv, TypeOK, Next
<1>1. cache' = cache /\ queue \cup timer \subseteq queue' \cup timer'
  BY <1>0 DEF WorkerEffect
<1>2. CASE pc' # "idle"
  <2>1. UNCHANGED <<cur, timer>> /\ KeepsClaim(obj, obj')
    BY <1>0, <1>2 DEF WorkerEffect, Rest
  <2>2. \A k \in Runs : Wanting(store'[k]) => Scheduled(k)'
    BY <1>0, <1>1, <1>2, <2>1, WantingStays
  <2>3. ASSUME NEW k \in Runs, k = cur, store'[k].exists, store'[k].generation # obj.generation
        PROVE  ToCome(k)'
    <3>1. store[k].exists
      BY <1>0, <2>3 DEF Aged
    <3>2. ToCome(k) \/ store'[k].generation # store[k].generation
      BY <1>0, <2>3, <3>1 DEF ScheduleInv
    <3> QED BY <1>0, <1>1, <2>3, <3>2, ToComeStays
  <2>4. pc' = "finalizeStatus" /\ result' \in Dropped => obj'.deleting /\ ~obj'.finalizer
    <3>1. pc = "finalize" => obj.deleting
      BY DEF FinalizerInv
    <3> QED BY <1>0, <1>2, <2>1, <3>1 DEF WorkerEffect, Rest, EndsHonestly, KeepsClaim, SameIntent
  <2>5. Dropped' = Dropped
    BY DEF Dropped
  <2>6. store'[cur'].exists /\ store'[cur'].generation # obj'.generation => ToCome(cur)'
    BY <1>0, <2>1, <2>3 DEF ToCome, KeepsClaim, SameIntent
  <2> QED BY <2>2, <2>4, <2>5, <2>6 DEF ScheduleInv, NeverForgotten, Wanting
<1>3. CASE pc' = "idle"
  <2>1. FinalizeStatus
    BY <1>0, <1>3, FinalizeStatusOnly DEF WorkerEffect
  <2>2. ASSUME NEW k \in Runs, Wanting(store'[k]) PROVE Scheduled(k)'
    <3>1. CASE k # cur
      BY <1>0, <1>1, <2>2, <3>1, WantingStays DEF InFlight
    <3>2. CASE k = cur
      <4>1. store'[cur].exists /\ store[cur].exists
        BY <1>0, <2>2, <3>2 DEF Wanting, Aged
      <4>2. CASE cur \in timer'
        BY <3>2, <4>2 DEF Scheduled
      <4>3. CASE store[cur].generation # obj.generation
        <5>1. ToCome(cur)
          BY <1>0, <4>1, <4>3 DEF ScheduleInv
        <5>2. ToCome(k)'
          BY <1>0, <1>1, <3>2, <4>1, <5>1, ToComeStays
        <5> QED BY <3>2, <5>2 DEF ToCome, Scheduled
      <4>4. CASE cur \notin timer' /\ store[cur].generation = obj.generation
        BY <2>1, <2>2, <3>2, <4>1, <4>4, EndsWell DEF Wanting
      <4> QED BY <4>2, <4>3, <4>4
    <3> QED BY <3>1, <3>2
  <2> QED BY <1>3, <2>2 DEF ScheduleInv, NeverForgotten, Wanting
<1> QED BY <1>2, <1>3

LEMMA ScheduleStart ==
    ASSUME TypeInv, FinalizerInv, ScheduleInv, NEW j \in Runs, Start(j)
    PROVE  ScheduleInv'
<1>1. StartEffect(j)
  BY EveryStartEffect
<1>2. /\ UNCHANGED <<store, cache, timer>> /\ queue' = queue \ {j} /\ pc = "idle"
      /\ \/ ~cache[j].exists /\ UNCHANGED workerVars
         \/ cache[j].exists /\ cur' = j /\ pc' # "idle"
  BY <1>1 DEF StartEffect
<1>3. ASSUME NEW k \in Runs, Wanting(store'[k]) PROVE Scheduled(k)'
  <2>1. k \in queue \cup timer \/ Noticed(cache[k], store[k])
    BY <1>2, <1>3 DEF ScheduleInv, NeverForgotten, Scheduled, InFlight, Wanting
  <2>2. CASE k # j
    BY <1>2, <2>1, <2>2 DEF Scheduled
  <2>3. CASE k = j
    <3>1. cache[j].exists
      BY <1>2, <1>3, <2>3 DEF FinalizerInv, CacheBehind, Wanting
    <3> QED BY <1>2, <2>3, <3>1 DEF Scheduled, InFlight
  <2> QED BY <2>2, <2>3
<1>4. /\ RemoveFinalizer(cache[j]).deleting = cache[j].deleting
      /\ RemoveFinalizer(cache[j]).generation = cache[j].generation
      /\ ~RemoveFinalizer(cache[j]).finalizer
      /\ [cache[j] EXCEPT !.finalizer = TRUE].generation = cache[j].generation
  BY DEF TypeInv, TypeOK, RemoveFinalizer, StoredRuns, KCLRuns
<1>5. pc' # "idle" => cur' = j /\ obj'.generation = cache[j].generation
  BY <1>1, <1>2, <1>4 DEF StartEffect, workerVars
<1>6. pc' # "idle" /\ store'[cur'].exists /\ store'[cur'].generation # obj'.generation =>
            ToCome(cur)'
  BY <1>2, <1>5 DEF ToCome, Noticed
<1>7. pc' = "finalizeStatus" /\ result' \in Dropped =>
            IF obj'.deleting THEN ~obj'.finalizer ELSE obj'.spec.suspend
  BY <1>1, <1>2, <1>4 DEF StartEffect, workerVars, Dropped
<1> QED BY <1>3, <1>6, <1>7 DEF ScheduleInv, NeverForgotten, Wanting, Dropped

LEMMA ScheduleEnvironment ==
    ASSUME TypeInv, FinalizerInv, ProgressInv, GenerationInv, ScheduleInv, Environment
    PROVE  ScheduleInv'
<1>0. /\ cur \in Runs /\ EnvironmentEffect /\ TypeInv'
      /\ \A k \in Runs : Aged(store[k], store'[k])
  BY EveryEnvironmentEffect, EveryStepAges, TypeStep DEF TypeInv, TypeOK, Next
<1>1. CASE Restarted
  BY <1>1 DEF Restarted, Rest, ScheduleInv, NeverForgotten, Scheduled
<1>2. CASE Undisturbed
  <2>1. UNCHANGED <<pc, cur, obj, result>> /\ queue \cup timer \subseteq queue' \cup timer'
    BY <1>2 DEF Undisturbed, workerVars
  <2>2. ASSUME NEW k \in Runs, store'[k].exists,
               ToCome(k) \/ store'[k].generation # store[k].generation
        PROVE  ToCome(k)'
    <3>1. CASE cache'[k] = cache[k]
      BY <1>0, <2>1, <2>2, <3>1, ToComeStays
    <3>2. CASE cache'[k] # cache[k]
      <4>1. store'[k] = store[k] /\ (Noticed(cache[k], store[k]) => k \in queue')
        BY <1>2, <3>2 DEF Undisturbed
      <4> QED BY <2>1, <2>2, <4>1 DEF ToCome
    <3> QED BY <3>1, <3>2
  <2>3. ASSUME NEW k \in Runs, Wanting(store'[k]) PROVE Scheduled(k)'
    <3>1. CASE cache'[k] = cache[k]
      BY <1>0, <2>1, <2>3, <3>1, WantingStays DEF InFlight
    <3>2. CASE cache'[k] # cache[k]
      <4>1. store'[k] = store[k]
        BY <1>2, <3>2 DEF Undisturbed
      <4>2. ToCome(k) \/ InFlight(k)
        BY <2>3, <4>1 DEF ScheduleInv, NeverForgotten, Scheduled, ToCome, Wanting
      <4>3. ToCome(k) => ToCome(k)'
        BY <2>2, <2>3 DEF Wanting
      <4> QED BY <2>1, <4>2, <4>3 DEF Scheduled, ToCome, InFlight
    <3> QED BY <3>1, <3>2
  <2>4. ASSUME NEW k \in Runs, k = cur, pc # "idle", store'[k].exists,
               store'[k].generation # obj.generation
        PROVE  ToCome(k)'
    <3>1. store[k].exists
      BY <1>0, <2>4 DEF Aged
    <3>2. ToCome(k) \/ store'[k].generation # store[k].generation
      BY <2>4, <3>1 DEF ScheduleInv
    <3> QED BY <2>2, <2>4, <3>2
  <2>5. pc' # "idle" /\ store'[cur'].exists /\ store'[cur'].generation # obj'.generation =>
            ToCome(cur)'
    BY <1>0, <2>1, <2>4 DEF ToCome
  <2> QED BY <2>1, <2>3, <2>5 DEF ScheduleInv, NeverForgotten, Wanting, Dropped
<1> QED BY <1>0, <1>1, <1>2 DEF EnvironmentEffect
LEMMA ScheduleStep ==
    ASSUME TypeInv, FinalizerInv, ProgressInv, GenerationInv, KeptInv, ScheduleInv,
           [Next]_vars
    PROVE  ScheduleInv'
<1>1. CASE UNCHANGED vars
  BY <1>1 DEF vars, workerVars, ScheduleInv, NeverForgotten, Scheduled, InFlight, Noticed,
              ToCome, Dropped
<1> QED BY <1>1, ScheduleWorker, ScheduleStart, ScheduleEnvironment DEF Next

-----------------------------------------------------------------------------
(* Ready speaks of the generation it is stamped with. *)

Attempted(k, g) == \E r \in Revisions : <<g, r>> \in completed[k]

\* The run k may claim to have been reconciled at generation g: it is not ahead
\* of the specification, and if it has reached it there was a roll-out.
Claim(k, g) ==
    store[k].exists =>
        /\ g <= store[k].generation
        /\ ~store[k].deleting /\ ~store[k].spec.suspend /\ g = store[k].generation =>
                Attempted(k, g)

\* A run that the controller has not begun with is not ready.
New(o) == o.exists /\ ~o.deleting /\ ~o.finalizer

Unclaimed(o) == New(o) => o.conds.ready # "True"

\* The claims of all copies are good; and what is about to be stamped is, too:
\* Ready in memory, at the end of a reconcile, is either that of an earlier
\* reconcile, whose run is suspended or deleted now, or was earned by this one.
ClaimInv ==
    /\ \A k \in Runs : /\ Claim(k, store[k].status.observedGeneration)
                       /\ Claim(k, cache[k].status.observedGeneration)
                       /\ Unclaimed(store[k]) /\ Unclaimed(cache[k])
    /\ pc # "idle" => /\ Claim(cur, obj.status.observedGeneration)
                      /\ New(store[cur]) => obj.conds.ready # "True"
    /\ pc = "finalizeStatus" /\ obj.conds.ready = "True" =>
            obj.deleting \/ obj.spec.suspend \/ Attempted(cur, obj.generation)

\* A claim stays good: the generation only grows, and no roll-out is forgotten.
LEMMA ClaimStays ==
    ASSUME TypeInv, TypeInv', NEW k \in Runs, NEW g \in Int,
           Aged(store[k], store'[k]), completed[k] \subseteq completed'[k],
           Claim(k, g)
    PROVE  Claim(k, g)'
<1> SUFFICES ASSUME store'[k].exists
             PROVE  /\ g <= store'[k].generation
                    /\ ~store'[k].deleting /\ ~store'[k].spec.suspend
                         /\ g = store'[k].generation => Attempted(k, g)'
  BY DEF Claim
<1>1. store[k].generation \in Nat /\ store'[k].generation \in Nat
  BY DEF TypeInv, TypeOK, StoredRuns, KCLRuns
<1>2. /\ store[k].exists
      /\ \/ store'[k].generation = store[k].generation + 1
         \/ /\ store'[k].generation = store[k].generation
            /\ store'[k].spec = store[k].spec
            /\ store'[k].deleting = store[k].deleting
  BY DEF Aged
<1>3. Attempted(k, g) => Attempted(k, g)'
  BY DEF Attempted
<1> QED BY <1>1, <1>2, <1>3 DEF Claim

LEMMA ClaimInit == Init => ClaimInv
<1> SUFFICES ASSUME Init PROVE ClaimInv
  OBVIOUS
<1>1. \A k \in Runs : /\ cache[k] = store[k]
                      /\ store[k].status.observedGeneration = -1
                      /\ store[k].generation = 1
                      /\ store[k].conds.ready = "Absent"
  BY DEF Init, Created
<1>2. -1 <= 1 /\ -1 # 1
  OBVIOUS
<1>3. \A k \in Runs : Claim(k, store[k].status.observedGeneration) /\ Unclaimed(store[k])
  BY <1>1, <1>2 DEF Claim, Unclaimed
<1> QED BY <1>1, <1>3 DEF ClaimInv, Init, IdleWorker

\* What the worker writes claims what it may.
LEMMA HonestClaim ==
    ASSUME TypeInv, GenerationInv, ClaimInv, pc # "idle", NEW o, Honest(o)
    PROVE  Claim(cur, o.status.observedGeneration)
<1>1. obj.generation <= store[cur].generation \/ ~store[cur].exists
  BY DEF GenerationInv, Precedes
<1>2. ASSUME pc = "finalizeStatus", obj.conds.ready = "True"
      PROVE  Claim(cur, obj.generation)
  <2> SUFFICES ASSUME store[cur].exists, ~store[cur].deleting, ~store[cur].spec.suspend,
                      obj.generation = store[cur].generation
               PROVE  Attempted(cur, obj.generation)
    BY <1>1 DEF Claim
  <2>1. store[cur].spec = obj.spec /\ store[cur].deleting = obj.deleting
    BY DEF GenerationInv, Precedes
  <2> QED BY <1>2, <2>1 DEF ClaimInv
<1> QED BY <1>2 DEF Honest, ClaimInv

\* A write does not make a run new again, or ready before it was begun with.
LEMMA HonestUnclaimed ==
    ASSUME TypeInv, FinalizerInv, ClaimInv, pc # "idle",
           NEW o, NEW lost, Honest(o), Write(o, lost), New(store'[cur])
    PROVE  New(store[cur]) /\ store'[cur].conds.ready # "True"
<1>0. cur \in Runs
  BY DEF TypeInv, TypeOK
<1>1. /\ SameIntent(store[cur], store'[cur])
      /\ store'[cur].conds.ready \in {store[cur].conds.ready, o.conds.ready}
      /\ store'[cur].finalizer \in {store[cur].finalizer, o.finalizer}
  BY WriteAges, AbsentIsGone DEF New
<1>2. store[cur].exists /\ ~store[cur].deleting
  BY <1>1 DEF SameIntent, New
<1>3. ~obj.deleting
  BY <1>0, <1>2 DEF FinalizerInv, WorkerCopy, CacheBehind
<1>4. o.finalizer
  BY <1>3 DEF Honest, FinalizerInv, WorkerCopy
<1>5. New(store[cur])
  BY <1>1, <1>2, <1>4 DEF New
<1> QED BY <1>0, <1>1, <1>5 DEF ClaimInv, Unclaimed, Honest

LEMMA ClaimWorker ==
    ASSUME TypeInv, FinalizerInv, ProgressInv, GenerationInv, ClaimInv, Step
    PROVE  ClaimInv'
<1>0. /\ cur \in Runs /\ pc # "idle" /\ WorkerEffect /\ TypeInv'
      /\ \A k \in Runs : Aged(store[k], store'[k])
      /\ \A k \in Runs \ {cur} : store'[k] = store[k]
      /\ \A k \in Runs : completed[k] \subseteq completed'[k]
  BY EveryWorkerEffect, EveryStepAges, StepRevisions, TypeStep
     DEF TypeInv, TypeOK, Next, StepEffect
<1>1. \A k \in Runs : \A g \in Int : Claim(k, g) => Claim(k, g)'
  BY <1>0, ClaimStays
<1>2. /\ \A k \in Runs : store[k].status.observedGeneration \in Int
      /\ \A k \in Runs : store'[k].status.observedGeneration \in Int
      /\ \A k \in Runs : cache[k].status.observedGeneration \in Int
      /\ obj.status.observedGeneration \in Int
  BY <1>0 DEF TypeInv, TypeOK, StoredRuns, MemoryRuns, KCLRuns, Statuses
<1>3. cache' = cache
  BY <1>0 DEF WorkerEffect
<1>4. ASSUME NEW k \in Runs, k = cur
      PROVE  /\ Claim(k, store[k].status.observedGeneration)'
             /\ New(store'[k]) => New(store[k]) /\ store'[k].conds.ready # "True"
  <2>1. CASE store' = store
    BY <1>0, <1>1, <1>2, <1>4, <2>1 DEF ClaimInv, Unclaimed
  <2>2. CASE \E o, lost : Honest(o) /\ Write(o, lost)
    <3>1. PICK o, lost : Honest(o) /\ Write(o, lost)
      BY <2>2
    <3>2. \/ ~store'[k].exists
          \/ store'[k].status.observedGeneration \in
                {store[k].status.observedGeneration, o.status.observedGeneration}
      BY <1>4, <3>1, WriteAges, AbsentIsGone
    <3>3. Claim(k, o.status.observedGeneration) /\ Claim(k, store[k].status.observedGeneration)
      BY <1>0, <1>4, <3>1, HonestClaim DEF ClaimInv
    <3>4. ASSUME NEW g, g = store'[k].status.observedGeneration, store'[k].exists
          PROVE  Claim(k, g)'
      <4>1. Claim(k, g)
        BY <3>2, <3>3, <3>4
      <4> QED BY <1>1, <1>2, <3>4, <4>1
    <3>5. Claim(k, store[k].status.observedGeneration)'
      BY <3>4 DEF Claim, Attempted
    <3> QED BY <1>0, <1>4, <3>1, <3>5, HonestUnclaimed
  <2> QED BY <1>0, <2>1, <2>2 DEF WorkerEffect
<1>5. \A k \in Runs : /\ Claim(k, store[k].status.observedGeneration)'
                      /\ Claim(k, cache[k].status.observedGeneration)'
                      /\ Unclaimed(store'[k]) /\ Unclaimed(cache'[k])
  <2> SUFFICES ASSUME NEW k \in Runs
               PROVE  /\ Claim(k, store[k].status.observedGeneration)'
                      /\ Claim(k, cache[k].status.observedGeneration)'
                      /\ Unclaimed(store'[k]) /\ Unclaimed(cache'[k])
    OBVIOUS
  <2>1. Claim(k, cache[k].status.observedGeneration)' /\ Unclaimed(cache'[k])
    BY <1>1, <1>2, <1>3 DEF ClaimInv
  <2>2. Claim(k, store[k].status.observedGeneration)' /\ Unclaimed(store'[k])
    <3>1. CASE k = cur
      BY <1>4, <3>1 DEF Unclaimed
    <3>2. CASE k # cur
      <4>1. store'[k] = store[k]
        BY <1>0, <3>2
      <4> QED BY <1>1, <1>2, <4>1 DEF ClaimInv
    <3> QED BY <3>1, <3>2
  <2> QED BY <2>1, <2>2
<1>6. CASE pc' # "idle"
  <2>1. cur' = cur /\ KeepsClaim(obj, obj')
    BY <1>0, <1>6 DEF WorkerEffect, Rest
  <2>2. ASSUME NEW k \in Runs, k = cur PROVE Claim(k, obj.status.observedGeneration)'
    <3>1. Claim(k, obj.status.observedGeneration)
      BY <1>0, <2>2 DEF ClaimInv
    <3>2. obj'.status.observedGeneration = obj.status.observedGeneration
      BY <2>1 DEF KeepsClaim
    <3> QED BY <1>1, <1>2, <3>1, <3>2
  <2>3. ASSUME New(store'[cur]) PROVE obj'.conds.ready # "True"
    <3>1. New(store[cur])
      BY <1>0, <1>4, <2>3
    <3>2. obj.conds.ready # "True" /\ pc \notin AttemptPcs
      BY <1>0, <3>1 DEF ClaimInv, New, FinalizerInv, FinalizerBeforeApply
    <3> QED BY <1>0, <1>6, <3>2 DEF WorkerEffect, Rest
  <2>4. ASSUME pc' = "finalizeStatus", obj'.conds.ready = "True"
        PROVE  obj'.deleting \/ (\E r \in Revisions : <<obj'.generation, r>> \in completed'[cur])
    <3>1. obj.deleting \/ <<obj.generation, rev>> \in completed'[cur]
      BY <1>0, <1>6, <2>4 DEF WorkerEffect, Rest, EndsHonestly
    <3>2. obj'.deleting = obj.deleting /\ obj'.generation = obj.generation
      BY <2>1 DEF KeepsClaim, SameIntent
    <3>3. <<obj.generation, rev>> \in completed'[cur] => rev \in Revisions
      BY <1>0 DEF TypeInv, TypeOK
    <3> QED BY <3>1, <3>2, <3>3
  <2>5. Claim(cur, obj.status.observedGeneration)'
    BY <1>0, <2>1, <2>2 DEF Claim, Attempted
  <2> QED BY <1>5, <2>1, <2>3, <2>4, <2>5 DEF ClaimInv, Attempted
<1> QED BY <1>5, <1>6 DEF ClaimInv
LEMMA ClaimStart ==
    ASSUME TypeInv, FinalizerInv, ClaimInv, NEW j \in Runs, Start(j)
    PROVE  ClaimInv'
<1>1. StartEffect(j)
  BY EveryStartEffect
<1>2. /\ UNCHANGED <<store, cache, completed>> /\ pc = "idle"
      /\ \/ pc' = "idle"
         \/ cache[j].exists /\ cur' = j
  BY <1>1 DEF StartEffect, workerVars
<1>3. \A k \in Runs : /\ Claim(k, store[k].status.observedGeneration)'
                      /\ Claim(k, cache[k].status.observedGeneration)'
                      /\ Unclaimed(store'[k]) /\ Unclaimed(cache'[k])
  BY <1>2 DEF ClaimInv, Claim, Attempted
<1>4. cache[j] \in StoredRuns
  BY DEF TypeInv, TypeOK
<1>5. CASE pc' # "idle"
  <2>1. /\ obj'.status = cache[j].status /\ obj'.conds = cache[j].conds
        /\ obj'.deleting = cache[j].deleting /\ obj'.spec = cache[j].spec
    BY <1>1, <1>2, <1>4, <1>5 DEF StartEffect, workerVars, RemoveFinalizer, StoredRuns, KCLRuns
  <2>2. Claim(cur, obj.status.observedGeneration)'
    BY <1>2, <1>3, <1>5, <2>1 DEF Claim, Attempted
  <2>3. New(store[j]) => New(cache[j])
    BY <1>2, <1>5 DEF New, FinalizerInv, CacheBehind
  <2>4. New(store'[cur']) => obj'.conds.ready # "True"
    BY <1>2, <1>5, <2>1, <2>3 DEF ClaimInv, Unclaimed
  <2>5. pc' = "finalizeStatus" /\ obj'.conds.ready = "True" => obj'.deleting \/ obj'.spec.suspend
    <3>1. \/ cache[j].deleting
          \/ ~cache[j].deleting /\ ~cache[j].finalizer
          \/ cache[j].spec.suspend
          \/ pc' = "getSource"
      BY <1>1, <1>2, <1>5 DEF StartEffect, workerVars
    <3>2. ~cache[j].deleting /\ ~cache[j].finalizer => cache[j].conds.ready # "True"
      BY <1>2, <1>5 DEF ClaimInv, Unclaimed, New
    <3> QED BY <2>1, <3>1, <3>2
  <2> QED BY <1>3, <2>2, <2>4, <2>5 DEF ClaimInv
<1>6. CASE pc' = "idle"
  BY <1>3, <1>6 DEF ClaimInv
<1> QED BY <1>5, <1>6

LEMMA ClaimEnvironment ==
    ASSUME TypeInv, FinalizerInv, ProgressInv, GenerationInv, ClaimInv, Environment
    PROVE  ClaimInv'
<1>0. /\ cur \in Runs /\ EnvironmentEffect /\ TypeInv' /\ completed' = completed
      /\ \A k \in Runs : Aged(store[k], store'[k])
  BY EveryEnvironmentEffect, EveryStepAges, TypeStep
     DEF TypeInv, TypeOK, Next, EnvironmentEffect
<1>1. \A k \in Runs : \A g \in Int : Claim(k, g) => Claim(k, g)'
  BY <1>0, ClaimStays
<1>2. /\ \A k \in Runs : store[k].status.observedGeneration \in Int
      /\ \A k \in Runs : cache[k].status.observedGeneration \in Int
      /\ obj.status.observedGeneration \in Int
  BY DEF TypeInv, TypeOK, StoredRuns, MemoryRuns, KCLRuns, Statuses
<1>3. ASSUME NEW k \in Runs
      PROVE  /\ store'[k].exists => /\ store'[k].status = store[k].status
                                    /\ store'[k].conds = store[k].conds
                                    /\ New(store'[k]) => New(store[k])
             /\ cache'[k] \in {cache[k], store[k]}
  BY <1>0, AbsentIsGone
     DEF EnvironmentEffect, Undisturbed, Restarted, Edited, New
<1>4. \A k \in Runs : /\ Claim(k, store[k].status.observedGeneration)'
                      /\ Claim(k, cache[k].status.observedGeneration)'
                      /\ Unclaimed(store'[k]) /\ Unclaimed(cache'[k])
  <2> SUFFICES ASSUME NEW k \in Runs
               PROVE  /\ Claim(k, store[k].status.observedGeneration)'
                      /\ Claim(k, cache[k].status.observedGeneration)'
                      /\ Unclaimed(store'[k]) /\ Unclaimed(cache'[k])
    OBVIOUS
  <2>1. Unclaimed(store'[k]) /\ Unclaimed(cache'[k])
    BY <1>3 DEF ClaimInv, Unclaimed, New
  <2>2. ASSUME NEW g, g \in {store[k].status.observedGeneration, cache[k].status.observedGeneration}
        PROVE  Claim(k, g)'
    <3>1. Claim(k, g)
      BY <2>2 DEF ClaimInv
    <3> QED BY <1>1, <1>2, <2>2, <3>1
  <2>3. Claim(k, store[k].status.observedGeneration)'
    BY <1>3, <2>2 DEF Claim, Attempted
  <2>4. Claim(k, cache[k].status.observedGeneration)'
    BY <1>3, <2>2 DEF Claim, Attempted
  <2> QED BY <2>1, <2>3, <2>4
<1>5. CASE Restarted
  BY <1>4, <1>5 DEF Restarted, Rest, ClaimInv
<1>6. CASE Undisturbed
  <2>1. UNCHANGED <<pc, cur, obj>>
    BY <1>6 DEF Undisturbed, workerVars
  <2>2. ASSUME NEW k \in Runs, k = cur, pc # "idle"
        PROVE  Claim(k, obj.status.observedGeneration)'
    <3>1. Claim(k, obj.status.observedGeneration)
      BY <2>2 DEF ClaimInv
    <3> QED BY <1>1, <1>2, <2>1, <3>1
  <2>3. pc' # "idle" => Claim(cur, obj.status.observedGeneration)'
    BY <1>0, <2>1, <2>2 DEF Claim, Attempted
  <2>4. pc' # "idle" /\ New(store'[cur']) => obj'.conds.ready # "True"
    BY <1>0, <1>3, <2>1 DEF ClaimInv, New
  <2> QED BY <1>0, <1>4, <2>1, <2>3, <2>4 DEF ClaimInv, Attempted
<1> QED BY <1>0, <1>5, <1>6 DEF EnvironmentEffect

LEMMA ClaimStep ==
    ASSUME TypeInv, FinalizerInv, ProgressInv, GenerationInv, ClaimInv, [Next]_vars
    PROVE  ClaimInv'
<1>1. CASE UNCHANGED vars
  BY <1>1 DEF vars, workerVars, ClaimInv, Claim, Unclaimed, New, Attempted
<1> QED BY <1>1, ClaimWorker, ClaimStart, ClaimEnvironment DEF Next

-----------------------------------------------------------------------------
(* The invariant of all of this, and what follows from it. *)

StatusInv ==
    /\ TypeInv
    /\ FinalizerInv
    /\ ProgressInv
    /\ GenerationInv
    /\ KeptInv
    /\ ScheduleInv
    /\ ClaimInv

\* It is inductive, and holds of every reachable state.
THEOREM StatusInvariant == Spec => []StatusInv
<1>1. Init => StatusInv
  BY TypeInit, FinalizerInit, ProgressInit, GenerationInit, KeptInit, ScheduleInit, ClaimInit
     DEF StatusInv
<1>2. StatusInv /\ [Next]_vars => StatusInv'
  BY TypeStep, FinalizerStep, ProgressStep, GenerationStep, KeptStep, ScheduleStep, ClaimStep
     DEF StatusInv
<1> QED BY <1>1, <1>2, PTL DEF Spec

\* Nobody who reads the status during an attempt, unless it started from a stale
\* copy, takes the run for ready, or for one at another revision.
THEOREM ProgressIsReported == Spec => []ProgressReported
<1>1. StatusInv => ProgressReported
  BY ShownArePcs DEF StatusInv, ProgressInv, Shown, CopyInStep, FinalizerInv,
                     FinalizerBeforeApply, ProgressReported
<1> QED BY <1>1, StatusInvariant, PTL

\* Whatever was lost, stale, suspended or edited on the way, a run that there is
\* something to do for comes up again: no end of a reconcile drops it.
THEOREM NoRunForgotten == Spec => []NeverForgotten
<1>1. StatusInv => NeverForgotten
  BY DEF StatusInv, ScheduleInv
<1> QED BY <1>1, StatusInvariant, PTL

\* Ready at the current generation is never left behind by an attempt that failed,
\* was cut short, or worked on an older specification.
THEOREM ReadyTellsTheTruth == Spec => []ReadyIsCurrent
<1>1. StatusInv => ReadyIsCurrent
  BY DEF StatusInv, ClaimInv, Claim, Attempted, ReadyIsCurrent
<1> QED BY <1>1, StatusInvariant, PTL

-----------------------------------------------------------------------------
(* A run goes away only after it was pruned. *)

\* What finalize works on is what the API server has, if it was when it was read;
\* and once the finalizer is off the copy, nothing of the inventory is left.
DeletionInv ==
    /\ pc \in {"finalize", "finalizeStatus"} /\ obj.deleting /\ fresh /\ store[cur].exists =>
            store[cur].spec = obj.spec /\ store[cur].status = obj.status
    /\ /\ pc = "finalizeStatus" /\ obj.deleting /\ ~obj.finalizer
       /\ result # "noAccount" /\ PrunesOnDeletion(obj)
       => \A o \in obj.status.inventory \ PruneDisabled : cluster[o] # cur

LEMMA DeletionInit == Init => DeletionInv
BY DEF Init, IdleWorker, DeletionInv

LEMMA DeletionWorker ==
    ASSUME StatusInv, DeletionInv, Step
    PROVE  DeletionInv'
<1>0. /\ cur \in Runs /\ obj \in MemoryRuns
      /\ cluster \in [Objects -> Runs \cup {NoOwner, Drifted}]
      /\ WorkerEffect /\ pc # "idle"
  BY EveryWorkerEffect, StepRevisions DEF StatusInv, TypeInv, TypeOK
<1>1. CASE pc' = "idle" \/ ~obj'.deleting
  BY <1>1 DEF DeletionInv
<1>2. CASE pc' # "idle" /\ obj'.deleting
  <2>1. obj.deleting /\ pc # "finalizeStatus"
    BY <1>0, <1>2, FinalizeStatusOnly
       DEF WorkerEffect, Rest, KeepsClaim, SameIntent, FinalizeStatus
  <2>2. pc = "finalize"
    BY <1>0, <2>1, DeletedPcs DEF StatusInv
  <2>3. /\ UNCHANGED <<store, cur, before, fresh>>
        /\ pc' = "finalizeStatus"
        /\ \/ obj' = obj /\ result' = "error"
           \/ obj' = RemoveFinalizer(obj) /\ result' = "noAccount"
           \/ /\ obj' = RemoveFinalizer(obj) /\ result' = "stop"
              /\ cluster' = Deleted(Deletable(obj.status.inventory))
    BY <2>2, FinalizeEffect
  <2>4. /\ RemoveFinalizer(obj).spec = obj.spec
        /\ RemoveFinalizer(obj).status = obj.status
    BY <1>0 DEF RemoveFinalizer, MemoryRuns, KCLRuns
  <2>5. /\ store'[cur'].spec = store[cur].spec /\ store'[cur'].status = store[cur].status
        /\ store'[cur'].exists = store[cur].exists /\ fresh' = fresh
        /\ obj'.spec = obj.spec /\ obj'.status = obj.status
    BY <2>3, <2>4
  <2>6. obj' = obj => obj'.finalizer
    BY <2>2 DEF StatusInv, KeptInv
  <2>7. cluster' = Deleted(Deletable(obj.status.inventory)) =>
            \A o \in obj.status.inventory \ PruneDisabled : cluster'[o] # cur
    <3>1. obj.status.inventory \subseteq Objects
      BY <1>0 DEF MemoryRuns, KCLRuns, Statuses
    <3>2. NoOwner # cur
      BY <1>0, ControllerAssumption
    <3> QED BY <3>1, <3>2 DEF Deleted, Deletable
  <2>8. cur' = cur
    BY <2>3
  <2>9. fresh' /\ store'[cur'].exists =>
            store'[cur'].spec = obj'.spec /\ store'[cur'].status = obj'.status
    BY <2>1, <2>2, <2>5 DEF DeletionInv
  <2>10. ~obj'.finalizer /\ result' # "noAccount" =>
            \A o \in obj'.status.inventory \ PruneDisabled : cluster'[o] # cur'
    BY <2>3, <2>5, <2>6, <2>7, <2>8
  <2> QED BY <2>9, <2>10 DEF DeletionInv
<1> QED BY <1>1, <1>2

LEMMA DeletionStart ==
    ASSUME StatusInv, DeletionInv, NEW k \in Runs, Start(k)
    PROVE  DeletionInv'
<1>1. StartEffect(k)
  BY EveryStartEffect
<1>2. cache[k] \in StoredRuns
  BY DEF StatusInv, TypeInv, TypeOK
<1>3. CASE ~obj'.deleting \/ pc' = "idle"
  BY <1>3 DEF DeletionInv
<1>4. CASE obj'.deleting /\ pc' # "idle"
  <2>1. /\ RemoveFinalizer(cache[k]).spec = cache[k].spec
        /\ RemoveFinalizer(cache[k]).status = cache[k].status
        /\ [cache[k] EXCEPT !.finalizer = TRUE].deleting = cache[k].deleting
    BY <1>2 DEF RemoveFinalizer, StoredRuns, KCLRuns
  <2>2. /\ store' = store /\ cur' = k /\ fresh' = (cache[k] = store[k])
        /\ obj'.spec = cache[k].spec /\ obj'.status = cache[k].status
        /\ pc' = "finalizeStatus" => ~PrunesOnDeletion(cache[k])
    BY <1>1, <1>4, <2>1 DEF StartEffect, workerVars
  <2>3. PrunesOnDeletion(obj') = PrunesOnDeletion(cache[k])
    BY <2>2 DEF PrunesOnDeletion
  <2> QED BY <2>2, <2>3 DEF DeletionInv, PrunesOnDeletion
<1> QED BY <1>3, <1>4

LEMMA DeletionEnvironment ==
    ASSUME StatusInv, DeletionInv, Environment
    PROVE  DeletionInv'
<1>0. cur \in Runs /\ obj \in MemoryRuns /\ EnvironmentEffect
  BY EveryEnvironmentEffect DEF StatusInv, TypeInv, TypeOK
<1>1. CASE Restarted
  BY <1>1 DEF Restarted, Rest, DeletionInv
<1>2. CASE Undisturbed
  <2>1. UNCHANGED <<pc, cur, obj, fresh, result>>
    BY <1>2 DEF Undisturbed, workerVars
  <2>2. CASE pc = "idle" \/ ~obj.deleting
    BY <2>1, <2>2 DEF DeletionInv
  <2>3. CASE pc # "idle" /\ obj.deleting
    <3>1. store[cur].exists => store[cur].deleting
      BY <1>0, <2>3 DEF StatusInv, FinalizerInv, WorkerCopy, CacheBehind
    <3>2. store'[cur].exists => /\ store[cur].exists
                               /\ store'[cur].spec = store[cur].spec
                               /\ store'[cur].status = store[cur].status
      BY <1>0, <1>2, <3>1, AbsentIsGone DEF Undisturbed, Edited
    <3>3. obj.status.inventory \subseteq Objects /\ Drifted # cur
      BY <1>0, ControllerAssumption DEF MemoryRuns, KCLRuns, Statuses
    <3>4. \A o \in obj.status.inventory : cluster[o] # cur => cluster'[o] # cur
      BY <1>0, <3>3 DEF EnvironmentEffect
    <3>5. pc \in {"finalize", "finalizeStatus"} /\ fresh /\ store'[cur].exists =>
            store'[cur].spec = obj.spec /\ store'[cur].status = obj.status
      BY <2>3, <3>2 DEF DeletionInv
    <3>6. /\ pc = "finalizeStatus" /\ ~obj.finalizer
          /\ result # "noAccount" /\ PrunesOnDeletion(obj)
          => \A o \in obj.status.inventory \ PruneDisabled : cluster'[o] # cur
      BY <2>3, <3>4 DEF DeletionInv
    <3>7. PrunesOnDeletion(obj)' = PrunesOnDeletion(obj)
      BY <2>1 DEF PrunesOnDeletion
    <3> QED BY <2>1, <3>5, <3>6, <3>7 DEF DeletionInv
  <2> QED BY <2>2, <2>3
<1> QED BY <1>0, <1>1, <1>2 DEF EnvironmentEffect

LEMMA DeletionStep ==
    ASSUME StatusInv, DeletionInv, [Next]_vars
    PROVE  DeletionInv'
<1>1. CASE UNCHANGED vars
  BY <1>1 DEF vars, workerVars, DeletionInv, PrunesOnDeletion
<1> QED BY <1>1, DeletionWorker, DeletionStart, DeletionEnvironment DEF Next

\* The step does to the runs what DeletionPrunes allows.
Pruning ==
    \A k \in Runs :
        /\ store[k].exists /\ ~store'[k].exists
        /\ store[k].finalizer
        /\ store[k].spec.prune /\ ~store[k].spec.suspend
        /\ fresh /\ result # "noAccount"
        => \A o \in store[k].status.inventory \ PruneDisabled : cluster[o] # k

\* Only the patch of finalizeStatus takes a run away that has the finalizer.
LEMMA PruningStep ==
    ASSUME StatusInv, DeletionInv, Next
    PROVE  Pruning
<1> SUFFICES ASSUME NEW k \in Runs,
                    store[k].exists, ~store'[k].exists, store[k].finalizer,
                    store[k].spec.prune, ~store[k].spec.suspend,
                    fresh, result # "noAccount"
             PROVE  \A o \in store[k].status.inventory \ PruneDisabled : cluster[o] # k
  BY DEF Pruning
<1>0. store \in [Runs -> StoredRuns] /\ before \in StoredRuns /\ cur \in Runs
  BY DEF StatusInv, TypeInv, TypeOK
<1>1. CASE Step
  <2>1. WorkerEffect /\ pc # "idle" /\ store' # store
    BY <1>1, EveryWorkerEffect, StepRevisions DEF StatusInv
  <2>2. PICK o, lost : Honest(o) /\ Write(o, lost)
    BY <2>1 DEF WorkerEffect
  <2>3. /\ k = cur
        /\ ~Patched(store[cur], before, o, lost).exists
    BY <2>2, WriteAges DEF StatusInv
  <2>4. ~obj.finalizer
    <3>1. o \in MemoryRuns /\ o.finalizer = obj.finalizer
      BY <2>2 DEF Honest
    <3> QED BY <1>0, <2>3, <3>1, PatchedKeeps
  <2>5. obj.deleting
    BY <2>1, <2>4 DEF StatusInv, FinalizerInv, WorkerCopy
  <2>6. pc = "finalizeStatus"
    <3>1. pc # "finalize"
      BY <1>1, <2>1, FinalizeEffect
    <3> QED BY <2>1, <2>5, <3>1, DeletedPcs DEF StatusInv
  <2>7. store[cur].spec = obj.spec /\ store[cur].status = obj.status
    BY <2>3, <2>5, <2>6 DEF DeletionInv
  <2>8. CASE obj.status.inventory = {}
    BY <2>3, <2>7, <2>8
  <2>9. CASE PrunesOnDeletion(obj)
    BY <2>3, <2>4, <2>5, <2>6, <2>7, <2>9 DEF DeletionInv
  <2> QED BY <2>3, <2>7, <2>8, <2>9 DEF PrunesOnDeletion
<1>2. CASE \E j \in Runs : Start(j)
  BY <1>2, EveryStartEffect DEF StartEffect
<1>3. CASE Environment
  BY <1>3, EveryEnvironmentEffect
     DEF StatusInv, EnvironmentEffect, Undisturbed, Restarted, Edited
<1> QED BY <1>1, <1>2, <1>3 DEF Next

\* A run that prunes does not leave the API server before everything that it had
\* in its inventory is gone or belongs to somebody else.
THEOREM DeletionIsPruning == Spec => DeletionPrunes
<1>1. StatusInv /\ DeletionInv /\ [Next]_vars => [Pruning]_vars
  BY PruningStep
<1>2. StatusInv /\ DeletionInv /\ [Next]_vars => DeletionInv'
  BY DeletionStep
<1> QED BY <1>1, <1>2, DeletionInit, StatusInvariant, PTL DEF Spec, DeletionPrunes, Pruning
=============================================================================
