------------------------ MODULE KCLRunDeliveryProofs ------------------------
(***************************************************************************)
(* What becomes of the objects of a run.  Reconcile implements the         *)
(* abstract delivery: every step of the controller, of its environment and *)
(* of its failures is a step that Delivery allows, or changes nothing that *)
(* Delivery speaks of; so the guarantees of Delivery are the controller's. *)
(* Whatever belongs to a run is in an inventory from which it will be      *)
(* collected one day, unless one of five lapses befell that run; and as    *)
(* long as no call fails and no read is stale, nothing is taken away from  *)
(* a run that has settled.                                                 *)
(***************************************************************************)
EXTENDS KCLRunStatusProofs, KCLRunOwnership

-----------------------------------------------------------------------------
(* The claims of a status, and what changes them. *)

\* o and p make the same claims.
SameClaims(o, p) ==
    /\ Life(p) = Life(o)
    /\ p.generation = o.generation
    /\ p.status.lastApplied = o.status.lastApplied
    /\ ClaimsCurrent(p) = ClaimsCurrent(o)

LEMMA ClaimsKept ==
    ASSUME \A k \in Runs : SameClaims(store[k], store'[k])
    PROVE  UNCHANGED <<Lives, Generations, AppliedLast, Currents>>
BY DEF SameClaims, Lives, Generations, AppliedLast, Currents

\* One run changes.
LEMMA ClaimsChange ==
    ASSUME NEW j \in Runs, \A k \in Runs \ {j} : SameClaims(store[k], store'[k])
    PROVE  /\ Lives' = [Lives EXCEPT ![j] = Life(store'[j])]
           /\ Generations' = [Generations EXCEPT ![j] = store'[j].generation]
           /\ AppliedLast' = [AppliedLast EXCEPT ![j] = store'[j].status.lastApplied]
           /\ Currents' = [Currents EXCEPT ![j] = ClaimsCurrent(store'[j])]
BY DEF SameClaims, Lives, Generations, AppliedLast, Currents

LEMMA SameIsSame == \A o : SameClaims(o, o)
BY DEF SameClaims

-----------------------------------------------------------------------------
(* The delivery under way. *)

\* Nothing is delivered before and after the step.
LEMMA NoDelivery ==
    ASSUME pc \notin ShownPcs, pc' \notin ShownPcs
    PROVE  UNCHANGED <<Targets, Placements>>
BY DEF ShownPcs, Delivering, Targets, Placements

\* The delivery ends, if there is one.
LEMMA DeliveryEnds ==
    ASSUME cur \in Runs, pc' \notin ShownPcs
    PROVE  D!End(cur)
BY DEF ShownPcs, Delivering, Targets, Placements, D!End

LEMMA DeliveryGoesOn ==
    ASSUME pc \in ShownPcs, pc' \in ShownPcs, UNCHANGED <<cur, rev>>,
           RanksBefore(pc)' = RanksBefore(pc)
    PROVE  UNCHANGED <<Targets, Placements>>
BY DEF ShownPcs, Delivering, Targets, Placements, Desired

LEMMA InDelivery ==
    ASSUME cur \in Runs, pc \in ShownPcs
    PROVE  /\ Targets[cur] = rev
           /\ Placements[cur] = {o \in Desired : RankOf(o) \in RanksBefore(pc)}
BY DEF ShownPcs, Delivering, Targets, Placements

LEMMA NotInDelivery ==
    ASSUME pc \notin ShownPcs
    PROVE  \A k \in Runs : Targets[k] = NoRevision /\ Placements[k] = {}
BY DEF ShownPcs, Delivering, Targets, Placements

\* What was placed is in the manifests, all of it once the last stage is done.
LEMMA RanksOfDesired ==
    ASSUME cur \in Runs, rev \in Revisions
    PROVE  /\ Desired = Manifest[cur][rev] /\ Desired \subseteq Objects
           /\ \A o \in Desired : RankOf(o) \in {1, 2, 3} /\ Ranks[o] = RankOf(o)
<1>1. Desired = Manifest[cur][rev] /\ Desired \subseteq Objects
  BY ControllerAssumption DEF Desired
<1>2. \A o \in Objects : StageOf[o] \in {"definition", "class", "resource"}
  BY ControllerAssumption DEF Stages
<1> QED BY <1>1, <1>2 DEF RankOf, Ranks

-----------------------------------------------------------------------------
(* The claims in memory. *)

\* Until an attempt ends the copy in memory makes the claims of the copy that was
\* read: a patch sends none.  At the end it may name a revision that was applied.
CopiedClaims ==
    /\ pc \in AttemptPcs =>
        /\ obj.status.lastApplied = before.status.lastApplied
        /\ obj.status.observedGeneration = before.status.observedGeneration
    /\ pc # "idle" =>
        obj.status.lastApplied \in {before.status.lastApplied} \cup Revisions

LEMMA CopiedInit == Init => CopiedClaims
BY ShownArePcs DEF Init, IdleWorker, CopiedClaims

\* The copy of the patcher is what was read or what was written last.
LEMMA BeforeEffect ==
    ASSUME TypeInv, Step, pc \in AttemptPcs
    PROVE  before'.status.lastApplied \in
                {before.status.lastApplied, obj.status.lastApplied}
<1>0. obj \in MemoryRuns
  BY DEF TypeInv, TypeOK
<1>1. pc # "finalizeStatus"
  BY ShownArePcs
<1>2. CASE before' = before
  BY <1>2
<1>3. CASE ReportProgress
  <2>1. rev \in Revisions
    BY <1>3 DEF ReportProgress, TypeInv, RevisionKnown
  <2>2. InProgress(obj).status.lastApplied = obj.status.lastApplied
    BY <1>0, <2>1, UpdateSame
  <2> QED BY <1>3, <2>2 DEF ReportProgress, Patch
<1>4. CASE CheckHealth
  <2>1. Waiting(obj).status = obj.status
    BY <1>0 DEF Waiting, MarkHealthy, MarkReconciling, MemoryRuns, KCLRuns
  <2> QED BY <1>4, <2>1 DEF CheckHealth, Patch
<1>5. CASE ReportHealth
  BY <1>5 DEF ReportHealth, Patch
<1>6. CASE \/ GetSource \/ SourceNotReady \/ GetSourceFails \/ DependenciesReady
           \/ DependenciesNotReady \/ Build \/ BuildFails \/ FetchFails \/ ArgumentsFail
           \/ ApplyStage \/ ApplyStageFails \/ Prune \/ PruneFails \/ SkipHealthCheck
           \/ WaitForSet \/ WaitForSetFails
           \/ Finalize \/ FinalizeFails \/ FinalizeUnimpersonated
  <2>1. before' = before
    BY <1>6 DEF GetSource, SourceNotReady, GetSourceFails, DependenciesReady,
                DependenciesNotReady, Build, BuildFails, FetchFails, ArgumentsFail,
                ApplyStage, ApplyStageFails, Prune, PruneFails, SkipHealthCheck,
                WaitForSet, WaitForSetFails, Finalize, FinalizeFails,
                FinalizeUnimpersonated
  <2> QED BY <2>1
<1>7. CASE FinalizeStatus
  BY <1>1, <1>7 DEF FinalizeStatus
<1> QED BY <1>3, <1>4, <1>5, <1>6, <1>7 DEF Step

LEMMA CopiedStep ==
    ASSUME StatusInv, CopiedClaims, [Next]_vars
    PROVE  CopiedClaims'
<1>0. TypeInv /\ obj \in MemoryRuns
  BY DEF StatusInv, TypeInv, TypeOK
<1>1. CASE Step
  <2>1. StepEffect /\ WorkerEffect /\ pc # "idle"
    BY <1>1, EveryStepEffect, EveryWorkerEffect, StepRevisions DEF StatusInv
  <2>2. CASE pc' = "idle"
    BY <2>2, ShownArePcs DEF CopiedClaims
  <2>3. CASE pc' \in AttemptPcs
    <3>1. GoesOn
      BY <1>0, <1>1, <2>3, EveryGoesOn
    <3>2. pc \in AttemptPcs /\ pc' # "idle"
      BY <2>1, <2>3, ShownArePcs DEF StepEffect
    <3>3. CASE UNCHANGED before /\ obj' \in {obj, SetInventory(obj), MarkHealthy(obj, "True")}
      <4>1. /\ SetInventory(obj).status.lastApplied = obj.status.lastApplied
            /\ SetInventory(obj).status.observedGeneration = obj.status.observedGeneration
            /\ MarkHealthy(obj, "True").status = obj.status
        BY <1>0 DEF SetInventory, MarkHealthy, MemoryRuns, KCLRuns, Statuses
      <4> QED BY <3>2, <3>3, <4>1 DEF CopiedClaims
    <3>4. CASE before' = obj'
      BY <3>4 DEF CopiedClaims
    <3> QED BY <3>1, <3>3, <3>4 DEF GoesOn, Patch
  <2>4. CASE pc' \notin AttemptPcs /\ pc' # "idle"
    <3>1. \/ obj'.status.lastApplied = obj.status.lastApplied
          \/ obj'.status.lastApplied \in Revisions
      <4>1. RemoveFinalizer(obj).status = obj.status
        BY <1>0 DEF RemoveFinalizer, MemoryRuns, KCLRuns
      <4>2. Completing(obj') => rev \in Revisions
        BY <1>0, TypeStep DEF Completing, TypeInv, TypeOK
      <4> QED BY <2>1, <2>4, <4>1, <4>2 DEF StepEffect, Derived, Completing
    <3>2. CASE pc \in AttemptPcs
      <4>1. before'.status.lastApplied = obj.status.lastApplied
        BY <1>0, <1>1, <3>2, BeforeEffect DEF CopiedClaims
      <4> QED BY <2>4, <3>1, <4>1 DEF CopiedClaims
    <3>3. CASE pc \notin AttemptPcs
      <4>1. pc \in {"finalize", "finalizeStatus"}
        BY <1>0, <2>1, <3>3 DEF TypeInv, TypeOK, AttemptPcs
      <4>2. pc # "finalizeStatus"
        BY <1>1, <2>4, FinalizeStatusOnly DEF FinalizeStatus, Rest
      <4>3. before' = before
        BY <1>1, <4>1, <4>2, FinalizeEffect
      <4> QED BY <2>1, <2>4, <3>1, <4>3 DEF CopiedClaims
    <3> QED BY <3>2, <3>3
  <2> QED BY <2>2, <2>3, <2>4
<1>2. ASSUME NEW k \in Runs, Start(k) PROVE CopiedClaims'
  <2>1. StartEffect(k)
    BY <1>2, EveryStartEffect
  <2>2. pc' # "idle" => before' = cache[k] /\ obj'.status = cache[k].status
    <3>1. cache[k] \in StoredRuns
      BY <1>0 DEF TypeInv, TypeOK
    <3> QED BY <2>1, <3>1 DEF StartEffect, workerVars, RemoveFinalizer, StoredRuns, KCLRuns
  <2> QED BY <2>2, ShownArePcs DEF CopiedClaims
<1>3. CASE Environment
  <2>1. EnvironmentEffect
    BY <1>0, <1>3, EveryEnvironmentEffect
  <2>2. pc' = "idle" \/ UNCHANGED <<pc, obj, before>>
    BY <2>1 DEF EnvironmentEffect, Undisturbed, Restarted, Rest, workerVars
  <2> QED BY <2>2, ShownArePcs DEF CopiedClaims
<1>4. CASE UNCHANGED vars
  BY <1>4 DEF vars, workerVars, CopiedClaims
<1> QED BY <1>1, <1>2, <1>3, <1>4 DEF Next

-----------------------------------------------------------------------------
(* An attempt makes no claim before it ends. *)

LEMMA PatchedClaims ==
    ASSUME NEW stored \in StoredRuns, NEW b \in StoredRuns, NEW o \in MemoryRuns, NEW lost,
           stored.exists, stored.finalizer, o.finalizer
    PROVE  LET p == Patched(stored, b, o, lost)
           IN  /\ SameIntent(stored, p) /\ p.finalizer
               /\ o.status.lastApplied = b.status.lastApplied =>
                    p.status.lastApplied = stored.status.lastApplied
               /\ o.status.observedGeneration = b.status.observedGeneration =>
                    p.status.observedGeneration = stored.status.observedGeneration
<1>1. Merge(stored.finalizer, b.finalizer, o.finalizer)
  BY DEF Merge
<1>2. LET m == MergeStatus(stored.status, b.status, o.status)
      IN  /\ o.status.lastApplied = b.status.lastApplied =>
                m.lastApplied = stored.status.lastApplied
          /\ o.status.observedGeneration = b.status.observedGeneration =>
                m.observedGeneration = stored.status.observedGeneration
  BY DEF MergeStatus, Merge
<1> QED BY <1>1, <1>2 DEF Patched, SameIntent, StoredRuns, KCLRuns

LEMMA AttemptKeepsClaims ==
    ASSUME StatusInv, CopiedClaims, Step, pc \in AttemptPcs
    PROVE  \A k \in Runs : SameClaims(store[k], store'[k])
<1>0. /\ TypeInv /\ store \in [Runs -> StoredRuns] /\ before \in StoredRuns /\ cur \in Runs
      /\ StepEffect /\ WorkerEffect
  BY EveryStepEffect, EveryWorkerEffect DEF StatusInv, TypeInv, TypeOK
<1>1. CASE store' = store
  BY <1>1, SameIsSame
<1>2. CASE store' # store
  <2>1. PICK o, lost : Honest(o) /\ Write(o, lost)
    BY <1>0, <1>2 DEF WorkerEffect
  <2>2. PICK p, missed : Derived(p) /\ Write(p, missed)
    BY <1>0, <1>2 DEF StepEffect
  <2>3. /\ \A k \in Runs \ {cur} : store'[k] = store[k]
        /\ store'[cur] = Patched(store[cur], before, o, lost)
    BY <1>0, <2>1, WriteAges
  <2>4. store'[cur] = Patched(store[cur], before, p, missed)
    BY <1>0, <2>2 DEF Write
  <2>5. /\ store[cur].exists /\ store[cur].finalizer /\ obj.finalizer
        /\ obj.status.lastApplied = before.status.lastApplied
        /\ obj.status.observedGeneration = before.status.observedGeneration
    BY ShownArePcs DEF StatusInv, FinalizerInv, FinalizerBeforeApply, WorkerCopy, CopiedClaims
  <2>6. /\ o \in MemoryRuns /\ o.finalizer
        /\ o.status.observedGeneration = before.status.observedGeneration
    BY <2>1, <2>5, ShownArePcs DEF Honest
  <2>7. /\ p \in MemoryRuns /\ p.finalizer
        /\ p.status.lastApplied = before.status.lastApplied
    BY <2>2, <2>5 DEF Derived
  <2>8. /\ SameIntent(store[cur], store'[cur]) /\ store'[cur].finalizer
        /\ store'[cur].status.observedGeneration = store[cur].status.observedGeneration
    BY <1>0, <2>3, <2>5, <2>6, PatchedClaims
  <2>9. store'[cur].status.lastApplied = store[cur].status.lastApplied
    BY <1>0, <2>4, <2>5, <2>7, PatchedClaims
  <2>10. SameClaims(store[cur], store'[cur])
    BY <2>5, <2>8, <2>9 DEF SameClaims, SameIntent, Life, ClaimsCurrent
  <2> QED BY <2>3, <2>10, SameIsSame
<1> QED BY <1>1, <1>2

-----------------------------------------------------------------------------
(* The steps of the controller as steps of the delivery. *)

Allowed == [D!Next]_(D!vars)

LEMMA StutterAllowed ==
    ASSUME UNCHANGED <<Lives, Generations, AppliedLast, Currents, Targets, Placements,
                       cluster, completed>>
    PROVE  Allowed
BY DEF Allowed, D!vars

LEMMA RunStepAllowed ==
    ASSUME NEW k \in Runs,
           \/ \E r \in Revisions : D!Begin(k, r)
           \/ \E objects \in SUBSET Objects :
                D!Place(k, objects) \/ D!Collect(k, objects) \/ D!Clean(k, objects)
           \/ D!GiveUp(k) \/ D!Report(k) \/ D!Go(k) \/ D!Change(k) \/ D!Leave(k)
    PROVE  Allowed
BY DEF Allowed, D!Next

\* The steps before the progress is reported are none of a delivery.
LEMMA PrepareAllowed ==
    ASSUME StatusInv, CopiedClaims,
           \/ GetSource \/ SourceNotReady \/ GetSourceFails
           \/ DependenciesReady \/ DependenciesNotReady
    PROVE  Allowed
<1>1. /\ pc \in {"getSource", "checkDependencies"}
      /\ pc' \in {"checkDependencies", "reportProgress", "finalizeStatus"}
      /\ UNCHANGED <<store, cluster, completed>>
  BY DEF GetSource, SourceNotReady, GetSourceFails, DependenciesReady,
         DependenciesNotReady, Continue, Return
<1>2. UNCHANGED <<Targets, Placements>>
  BY <1>1, ShownArePcs, NoDelivery
<1>3. UNCHANGED <<Lives, Generations, AppliedLast, Currents>>
  BY <1>1, SameIsSame, ClaimsKept
<1> QED BY <1>1, <1>2, <1>3, StutterAllowed

\* A delivery begins once its progress is in the status.
LEMMA ReportProgressAllowed ==
    ASSUME StatusInv, CopiedClaims, DependencyInv, ReportProgress
    PROVE  Allowed
<1>0. /\ cur \in Runs /\ rev \in Revisions /\ pc = "reportProgress"
      /\ UNCHANGED <<cur, rev, cluster, completed>>
      /\ pc' \in {"finalizeStatus", "build"}
  BY ShownArePcs DEF StatusInv, TypeInv, TypeOK, RevisionKnown, ReportProgress, environment, Continue, Return
<1>1. UNCHANGED <<Lives, Generations, AppliedLast, Currents>>
  BY <1>0, ShownArePcs, AttemptKeepsClaims, ClaimsKept DEF Step
<1>2. CASE pc' = "finalizeStatus"
  BY <1>0, <1>1, <1>2, ShownArePcs, NoDelivery, StutterAllowed
<1>3. CASE pc' = "build"
  <2>1. D!Begin(cur, rev)
    <3>1. Lives[cur] \in {"kept", "leaving"}
      BY <1>0, ShownArePcs DEF StatusInv, FinalizerInv, FinalizerBeforeApply, Lives, Life
    <3>2. Targets[cur] = NoRevision /\ Placements[cur] = {}
      BY <1>0, ShownArePcs, NotInDelivery
    <3>3. \A u \in Upstreams[cur] : rev \in D!DeliveredRevisions(u)
      <4>1. Ordered(cur, rev) /\ rev # NoRevision
        BY <1>0, NoRevisionAssumption DEF DependencyInv, CheckedPcs
      <4> QED BY <1>0, <4>1 DEF Ordered, RolledOut, Upstreams, D!DeliveredRevisions
    <3>4. Targets' = [Targets EXCEPT ![cur] = rev]
      BY <1>0, <1>3, ShownArePcs DEF Targets, Delivering, ShownPcs
    <3>5. Placements' = Placements
      BY <1>0, <1>3, ShownArePcs DEF Placements, Delivering, ShownPcs, RanksBefore
    <3> QED BY <1>0, <1>1, <3>1, <3>2, <3>3, <3>4, <3>5 DEF D!Begin, D!claims
  <2> QED BY <1>0, <2>1, RunStepAllowed
<1> QED BY <1>0, <1>2, <1>3

\* Whatever ends an attempt early gives the delivery up.
LEMMA GiveUpAllowed ==
    ASSUME StatusInv, CopiedClaims, Step, pc \in AttemptPcs, pc' = "finalizeStatus",
           UNCHANGED <<cluster, completed>>
    PROVE  Allowed
<1>1. UNCHANGED <<Lives, Generations, AppliedLast, Currents>>
  BY AttemptKeepsClaims, ClaimsKept
<1>2. cur \in Runs /\ D!End(cur)
  BY ShownArePcs, DeliveryEnds DEF StatusInv, TypeInv, TypeOK
<1> QED BY <1>1, <1>2, RunStepAllowed DEF D!GiveUp, D!claims

\* Steps in the middle of a delivery that place nothing.
LEMMA GoOnAllowed ==
    ASSUME StatusInv, CopiedClaims, Step, pc \in ShownPcs, pc' \in ShownPcs,
           RanksBefore(pc)' = RanksBefore(pc),
           UNCHANGED <<cur, rev, cluster, completed>>
    PROVE  Allowed
<1>1. UNCHANGED <<Lives, Generations, AppliedLast, Currents>>
  BY ShownArePcs, AttemptKeepsClaims, ClaimsKept
<1>2. UNCHANGED <<Targets, Placements>>
  BY DeliveryGoesOn
<1> QED BY <1>1, <1>2, StutterAllowed

LEMMA BuildAllowed ==
    ASSUME StatusInv, CopiedClaims,
           Build \/ BuildFails \/ FetchFails \/ ArgumentsFail
    PROVE  Allowed
<1>0. pc = "build" /\ Step
  BY DEF Build, BuildFails, FetchFails, ArgumentsFail, Step
<1>1. CASE Build
  <2>1. /\ pc' = "applyDefinitions" /\ UNCHANGED <<cur, rev, cluster, completed>>
    BY <1>1 DEF Build, Continue, environment
  <2>2. RanksBefore(pc)' = RanksBefore(pc)
    BY <1>0, <2>1 DEF RanksBefore
  <2>3. pc' \in ShownPcs
    BY <2>1 DEF ShownPcs, RolloutPcs, ApplyPcs
  <2> QED BY <1>0, <2>1, <2>2, <2>3, ShownArePcs, GoOnAllowed
<1>2. CASE BuildFails \/ FetchFails \/ ArgumentsFail
  <2>1. pc' = "finalizeStatus" /\ UNCHANGED <<cluster, completed>>
    BY <1>2 DEF BuildFails, FetchFails, ArgumentsFail, Return
  <2> QED BY <1>0, <2>1, ShownArePcs, GiveUpAllowed
<1> QED BY <1>1, <1>2

-----------------------------------------------------------------------------
(* The roll-out. *)

\* The facts that all steps of a roll-out start from.
LEMMA RolloutFacts ==
    ASSUME StatusInv, pc \in RolloutPcs
    PROVE  /\ cur \in Runs /\ rev \in Revisions /\ rev # NoRevision
           /\ pc \in ShownPcs /\ pc \in AttemptPcs
           /\ Targets[cur] = rev
           /\ Placements[cur] = {o \in Desired : RankOf(o) \in RanksBefore(pc)}
           /\ Desired = Manifest[cur][rev] /\ Desired \subseteq Objects
           /\ \A o \in Desired : RankOf(o) \in {1, 2, 3} /\ Ranks[o] = RankOf(o)
<1>1. pc \in ShownPcs /\ pc \in AttemptPcs /\ pc # "getSource"
  BY ShownArePcs DEF RolloutPcs, ApplyPcs, HealthPcs
<1>2. cur \in Runs /\ rev \in Revisions /\ rev # NoRevision
  BY <1>1, NoRevisionAssumption DEF StatusInv, TypeInv, TypeOK, RevisionKnown
<1> QED BY <1>1, <1>2, InDelivery, RanksOfDesired

\* The objects of a stage are placed after all those of the ranks before.
LEMMA StagesAreRanked ==
    ASSUME StatusInv, pc \in ApplyPcs, NEW done, done \subseteq InStage(pc)
    PROVE  /\ done \in SUBSET Objects /\ done \subseteq Manifest[cur][Targets[cur]]
           /\ \A o \in done, e \in Manifest[cur][Targets[cur]] :
                Ranks[e] < Ranks[o] => e \in Placements[cur]
           /\ {o \in Desired : RankOf(o) \in RanksBefore(AfterStage(pc))} =
                Placements[cur] \cup InStage(pc)
<1>1. pc \in RolloutPcs
  BY DEF RolloutPcs
<1>2. /\ done \subseteq Desired
      /\ Desired = Manifest[cur][Targets[cur]] /\ Desired \subseteq Objects
  BY <1>1, RolloutFacts DEF InStage
<1> DEFINE n == CASE pc = "applyDefinitions" -> 1
                  [] pc = "applyClasses"     -> 2
                  [] pc = "applyResources"   -> 3
<1>3. /\ n \in {1, 2, 3}
      /\ RanksBefore(pc) = {i \in {1, 2, 3} : i < n}
      /\ RanksBefore(AfterStage(pc)) = {i \in {1, 2, 3} : i <= n}
  <2>1. CASE pc = "applyDefinitions"
    BY <2>1 DEF RanksBefore, AfterStage
  <2>2. CASE pc = "applyClasses"
    BY <2>2 DEF RanksBefore, AfterStage
  <2>3. CASE pc = "applyResources"
    BY <2>3 DEF RanksBefore, AfterStage
  <2> QED BY <2>1, <2>2, <2>3 DEF ApplyPcs
<1>4. \A o \in Desired : o \in InStage(pc) <=> RankOf(o) = n
  <2>1. \A o \in Desired : StageOf[o] \in {"definition", "class", "resource"}
    BY <1>2, ControllerAssumption DEF Stages
  <2> QED BY <2>1 DEF InStage, StageAt, RankOf, ApplyPcs
<1> HIDE DEF n
<1>5. /\ \A o \in Desired : RankOf(o) \in {1, 2, 3} /\ Ranks[o] = RankOf(o)
      /\ Placements[cur] = {o \in Desired : RankOf(o) \in RanksBefore(pc)}
      /\ InStage(pc) \subseteq Desired
  BY <1>1, RolloutFacts DEF InStage
<1>6. \A o \in done, e \in Desired : Ranks[e] < Ranks[o] => e \in Placements[cur]
  <2> SUFFICES ASSUME NEW o \in done, NEW e \in Desired, Ranks[e] < Ranks[o]
               PROVE  RankOf(e) \in RanksBefore(pc)
    BY <1>5
  <2>1. Ranks[o] = n /\ Ranks[e] = RankOf(e) /\ RankOf(e) \in {1, 2, 3}
    BY <1>2, <1>4, <1>5
  <2> QED BY <1>3, <2>1
<1>7. ASSUME NEW o \in Desired
      PROVE  RankOf(o) \in RanksBefore(AfterStage(pc)) <=>
                RankOf(o) \in RanksBefore(pc) \/ RankOf(o) = n
  BY <1>3, <1>5
<1>8. {o \in Desired : RankOf(o) \in RanksBefore(AfterStage(pc))} =
            Placements[cur] \cup InStage(pc)
  BY <1>4, <1>5, <1>7
<1> QED BY <1>2, <1>6, <1>8

\* A stage adds its objects to what is in place.
LEMMA ApplyPlaces ==
    ASSUME StatusInv, ApplyStage
    PROVE  /\ pc' \in ShownPcs /\ Targets' = Targets
           /\ Placements' = [Placements EXCEPT ![cur] = @ \cup InStage(pc)]
<1>0. /\ pc \in ApplyPcs /\ pc \in RolloutPcs
      /\ pc' = AfterStage(pc) /\ UNCHANGED <<cur, rev>>
  BY DEF ApplyStage, RolloutPcs, Continue, environment
<1>1. cur \in Runs /\ pc \in ShownPcs
  BY <1>0, RolloutFacts
<1>2. pc' \in ShownPcs
  BY <1>0 DEF ApplyPcs, AfterStage, ShownPcs, RolloutPcs
<1>3. Targets' = Targets
  BY <1>0, <1>1, <1>2 DEF Targets, Delivering, ShownPcs
<1>4. {o \in Desired : RankOf(o) \in RanksBefore(AfterStage(pc))} =
            Placements[cur] \cup InStage(pc)
  BY <1>0, StagesAreRanked
<1>5. Placements' = [k \in Runs |->
                        IF cur = k
                        THEN {o \in Desired : RankOf(o) \in RanksBefore(AfterStage(pc))}
                        ELSE {}]
  BY <1>0, <1>1, <1>2 DEF Placements, Delivering, ShownPcs, Desired
<1>6. \A k \in Runs \ {cur} : Placements[k] = {}
  BY DEF Placements, Delivering
<1>7. Placements = [k \in Runs |-> Placements[k]]
  BY DEF Placements
<1> HIDE DEF Placements
<1> QED BY <1>1, <1>2, <1>3, <1>4, <1>5, <1>6, <1>7

LEMMA ApplyAllowed ==
    ASSUME StatusInv, CopiedClaims, ApplyStage \/ ApplyStageFails
    PROVE  Allowed
<1>0. pc \in ApplyPcs /\ pc \in RolloutPcs /\ Step
  BY DEF ApplyStage, ApplyStageFails, RolloutPcs, Step
<1>1. /\ UNCHANGED <<Lives, Generations, AppliedLast, Currents>>
      /\ cur \in Runs /\ rev # NoRevision /\ Targets[cur] = rev /\ pc \in ShownPcs
  BY <1>0, RolloutFacts, AttemptKeepsClaims, ClaimsKept
<1>2. CASE ApplyStage
  <2>1. cluster' = Applied(InStage(pc)) /\ UNCHANGED <<cur, rev, completed>>
    BY <1>2 DEF ApplyStage, Continue, environment
  <2>2. /\ pc' \in ShownPcs /\ Targets' = Targets
        /\ Placements' = [Placements EXCEPT ![cur] = @ \cup InStage(pc)]
    BY <1>2, ApplyPlaces
  <2>3. D!Place(cur, InStage(pc)) /\ InStage(pc) \in SUBSET Objects
    <3>1. /\ InStage(pc) \in SUBSET Objects /\ InStage(pc) \subseteq Manifest[cur][Targets[cur]]
          /\ \A o \in InStage(pc), e \in Manifest[cur][Targets[cur]] :
                Ranks[e] < Ranks[o] => e \in Placements[cur]
      BY <1>0, StagesAreRanked
    <3> QED BY <1>1, <2>1, <2>2, <3>1 DEF D!Place, D!claims, Applied
  <2> QED BY <1>1, <2>3, RunStepAllowed
<1>3. CASE ApplyStageFails
  <2>1. PICK done \in SUBSET InStage(pc) : cluster' = Applied(done)
    BY <1>3 DEF ApplyStageFails
  <2>2. completed' = completed /\ D!End(cur)
    <3>1. pc' = "finalizeStatus" /\ completed' = completed
      BY <1>3 DEF ApplyStageFails, Return
    <3> QED BY <1>1, <3>1, ShownArePcs, DeliveryEnds
  <2>3. D!Place(cur, done) /\ done \in SUBSET Objects
    <3>1. /\ done \in SUBSET Objects /\ done \subseteq Manifest[cur][Targets[cur]]
          /\ \A o \in done, e \in Manifest[cur][Targets[cur]] :
                Ranks[e] < Ranks[o] => e \in Placements[cur]
      BY <1>0, StagesAreRanked
    <3> QED BY <1>1, <2>1, <2>2, <3>1 DEF D!Place, D!claims, Applied
  <2> QED BY <1>1, <2>3, RunStepAllowed
<1> QED BY <1>2, <1>3

\* After the last stage everything is in place, and stays.
LEMMA EverythingIsPlaced ==
    ASSUME StatusInv, pc \in RolloutPcs \ ApplyPcs
    PROVE  /\ Placements[cur] = Manifest[cur][Targets[cur]]
           /\ Placements[cur] = Desired /\ RanksBefore(pc) = {1, 2, 3}
<1>1. RanksBefore(pc) = {1, 2, 3}
  BY DEF RanksBefore, RolloutPcs, ApplyPcs, HealthPcs
<1>2. /\ Targets[cur] = rev /\ Desired = Manifest[cur][rev]
      /\ Placements[cur] = {o \in Desired : RankOf(o) \in RanksBefore(pc)}
      /\ \A o \in Desired : RankOf(o) \in {1, 2, 3}
  BY RolloutFacts
<1> QED BY <1>1, <1>2

LEMMA PruneAllowed ==
    ASSUME StatusInv, CopiedClaims, Prune \/ PruneFails
    PROVE  Allowed
<1>0. pc = "prune" /\ pc \in RolloutPcs \ ApplyPcs /\ Step
  BY DEF Prune, PruneFails, RolloutPcs, ApplyPcs, Step
<1>1. /\ UNCHANGED <<Lives, Generations, AppliedLast, Currents>>
      /\ cur \in Runs /\ rev # NoRevision /\ Targets[cur] = rev /\ pc \in ShownPcs
  BY <1>0, RolloutFacts, AttemptKeepsClaims, ClaimsKept
<1>2. Placements[cur] = Manifest[cur][Targets[cur]] /\ Placements[cur] = Desired
  BY <1>0, EverythingIsPlaced
<1>3. \A o \in StaleObjects : cluster[o] = cur /\ o \notin Placements[cur]
  BY <1>2 DEF StaleObjects, Deletable, Stale
<1>4. StaleObjects \subseteq Objects
  BY DEF StaleObjects, Deletable, Stale, StatusInv, TypeInv, TypeOK, MemoryRuns, KCLRuns, Statuses
<1>5. CASE Prune
  <2>1. /\ cluster' = Deleted(StaleObjects) /\ pc' = "checkHealth"
        /\ UNCHANGED <<cur, rev, completed>>
    BY <1>5 DEF Prune, Continue, environment
  <2>2. pc' \in ShownPcs /\ RanksBefore(pc)' = RanksBefore(pc)
    BY <1>0, <2>1 DEF ShownPcs, RolloutPcs, HealthPcs, RanksBefore
  <2>3. UNCHANGED <<Targets, Placements>>
    BY <1>1, <2>1, <2>2, DeliveryGoesOn
  <2>4. D!Collect(cur, StaleObjects)
    BY <1>1, <1>2, <1>3, <2>1, <2>3 DEF D!Collect, D!Free, D!claims, Deleted
  <2> QED BY <1>1, <1>4, <2>4, RunStepAllowed
<1>6. CASE PruneFails
  <2>1. PICK kept : cluster' = Deleted(StaleObjects \ kept)
    BY <1>6 DEF PruneFails
  <2>2. completed' = completed /\ D!End(cur)
    <3>1. pc' = "finalizeStatus" /\ completed' = completed
      BY <1>6 DEF PruneFails, Return
    <3> QED BY <1>1, <3>1, ShownArePcs, DeliveryEnds
  <2> DEFINE gone == StaleObjects \ kept
  <2>3. gone \in SUBSET Objects /\ \A o \in gone : cluster[o] = cur /\ o \notin Placements[cur]
    BY <1>3, <1>4
  <2>4. cluster' = Deleted(gone)
    BY <2>1
  <2> HIDE DEF gone
  <2>5. D!Collect(cur, gone)
    BY <1>1, <1>2, <2>2, <2>3, <2>4 DEF D!Collect, D!Free, D!claims, Deleted
  <2> QED BY <1>1, <2>3, <2>5, RunStepAllowed
<1> QED BY <1>5, <1>6

\* A roll-out that ends well is a delivery of the generation in memory, which may
\* not be the last one any more.
LEMMA SucceedAllowed ==
    ASSUME StatusInv, CopiedClaims, Step, pc \in HealthPcs, NEW o,
           o.generation = obj.generation, Succeed(o), UNCHANGED cluster
    PROVE  Allowed
<1>0. /\ pc \in RolloutPcs \ ApplyPcs /\ pc \in RolloutPcs
      /\ pc' = "finalizeStatus" /\ pc' \notin ShownPcs
  BY ShownArePcs DEF RolloutPcs, ApplyPcs, HealthPcs, Succeed, Return
<1>1. /\ UNCHANGED <<Lives, Generations, AppliedLast, Currents>>
      /\ cur \in Runs /\ rev # NoRevision /\ Targets[cur] = rev
      /\ pc \in AttemptPcs
  BY <1>0, RolloutFacts, AttemptKeepsClaims, ClaimsKept
<1>2. Placements[cur] = Manifest[cur][Targets[cur]]
  BY <1>0, EverythingIsPlaced
<1>3. D!End(cur)
  BY <1>0, <1>1, DeliveryEnds
<1>4. completed' = [completed EXCEPT ![cur] = @ \cup {<<obj.generation, rev>>}]
  BY DEF Succeed
<1>5. obj.generation <= Generations[cur]
  BY <1>1, ShownArePcs DEF Generations, StatusInv, GenerationInv, Precedes, FinalizerInv,
                           FinalizerBeforeApply
<1>6. D!Finish(cur, obj.generation)
  BY <1>1, <1>2, <1>3, <1>4, <1>5 DEF D!Finish, D!claims
<1>7. <<obj.generation, rev>> \in completed'[cur]
  BY <1>1, <1>4 DEF StatusInv, TypeInv, TypeOK
<1>8. \E d \in completed'[cur] : D!Finish(cur, d[1])
  BY <1>6, <1>7
<1> QED BY <1>1, <1>8 DEF Allowed, D!Next

LEMMA HealthAllowed ==
    ASSUME StatusInv, CopiedClaims,
           SkipHealthCheck \/ CheckHealth \/ WaitForSet \/ WaitForSetFails \/ ReportHealth
    PROVE  Allowed
<1>0. /\ pc \in HealthPcs /\ pc \in ShownPcs /\ pc \in AttemptPcs /\ Step
      /\ UNCHANGED <<cur, rev, cluster>>
      /\ obj \in MemoryRuns
  BY ShownArePcs
     DEF SkipHealthCheck, CheckHealth, WaitForSet, WaitForSetFails, ReportHealth,
         HealthPcs, RolloutPcs, Step, environment, StatusInv, TypeInv, TypeOK
<1>1. ASSUME completed' = completed, pc' \in HealthPcs
      PROVE  Allowed
  <2>1. pc' \in ShownPcs /\ RanksBefore(pc)' = RanksBefore(pc)
    BY <1>0, <1>1 DEF HealthPcs, ShownPcs, RolloutPcs, RanksBefore
  <2> QED BY <1>0, <1>1, <2>1, GoOnAllowed
<1>2. ASSUME completed' = completed, pc' = "finalizeStatus"
      PROVE  Allowed
  BY <1>0, <1>2, GiveUpAllowed
<1>3. CASE SkipHealthCheck
  <2>1. MarkHealthy(obj, "Absent").generation = obj.generation
    BY <1>0 DEF MarkHealthy, MemoryRuns, KCLRuns
  <2>2. Succeed(MarkHealthy(obj, "Absent"))
    BY <1>3 DEF SkipHealthCheck
  <2> QED BY <1>0, <2>1, <2>2, SucceedAllowed
<1>4. CASE CheckHealth \/ WaitForSet \/ WaitForSetFails
  <2>1. completed' = completed /\ pc' \in HealthPcs \cup {"finalizeStatus"}
    BY <1>4 DEF CheckHealth, WaitForSet, WaitForSetFails, Continue, Return, HealthPcs
  <2> QED BY <1>1, <1>2, <2>1
<1>5. CASE ReportHealth
  <2>1. Succeed(obj) \/ (completed' = completed /\ pc' = "finalizeStatus")
    BY <1>5 DEF ReportHealth, Return
  <2> QED BY <1>0, <1>2, <2>1, SucceedAllowed
<1> QED BY <1>3, <1>4, <1>5

-----------------------------------------------------------------------------
(* The end of a reconcile. *)

LEMMA FinalizeAllowed ==
    ASSUME StatusInv, CopiedClaims, Finalize \/ FinalizeFails \/ FinalizeUnimpersonated
    PROVE  Allowed
<1>0. /\ pc = "finalize" /\ pc' = "finalizeStatus" /\ cur \in Runs
      /\ UNCHANGED <<store, completed>>
  BY DEF Finalize, FinalizeFails, FinalizeUnimpersonated, Return, environment,
         StatusInv, TypeInv, TypeOK
<1>1. UNCHANGED <<Lives, Generations, AppliedLast, Currents>>
  BY <1>0, SameIsSame, ClaimsKept
<1>2. UNCHANGED <<Targets, Placements>> /\ Targets[cur] = NoRevision
  BY <1>0, ShownArePcs, NoDelivery, NotInDelivery
<1>3. CASE FinalizeUnimpersonated
  BY <1>0, <1>1, <1>2, <1>3, StutterAllowed DEF FinalizeUnimpersonated
<1>4. CASE Finalize \/ FinalizeFails
  <2>1. PICK objects \in SUBSET Deletable(obj.status.inventory) : cluster' = Deleted(objects)
    BY <1>4 DEF Finalize, FinalizeFails
  <2>2. objects \in SUBSET Objects /\ \A o \in objects : cluster[o] = cur
    BY DEF Deletable, StatusInv, TypeInv, TypeOK, MemoryRuns, KCLRuns, Statuses
  <2>3. Lives[cur] \in {"leaving", "gone"}
    <3>1. store[cur].deleting \/ ~store[cur].exists
      BY <1>0 DEF StatusInv, FinalizerInv, WorkerCopy, CacheBehind
    <3> QED BY <1>0, <3>1 DEF Lives, Life
  <2>4. D!Clean(cur, objects)
    BY <1>0, <1>1, <1>2, <2>1, <2>2, <2>3 DEF D!Clean, D!Free, D!claims, Deleted
  <2> QED BY <1>0, <2>2, <2>4, RunStepAllowed
<1> QED BY <1>3, <1>4

\* A patch ends a run only under deletion, and leaves a revision other than the
\* stored one only if the worker recorded it.
LEMMA PatchedApplied ==
    ASSUME NEW stored \in StoredRuns, NEW b \in StoredRuns, NEW o \in MemoryRuns, NEW lost
    PROVE  LET p == Patched(stored, b, o, lost)
           IN  \/ ~stored.exists /\ p = stored
               \/ stored.exists /\ stored.deleting /\ p = Absent
               \/ /\ stored.exists /\ SameIntent(stored, p)
                  /\ p.finalizer \in {stored.finalizer, o.finalizer}
                  /\ \/ p.status.lastApplied = stored.status.lastApplied
                     \/ /\ p.status.lastApplied = o.status.lastApplied
                        /\ o.status.lastApplied # b.status.lastApplied
<1>1. LET m == MergeStatus(stored.status, b.status, o.status)
      IN  \/ m.lastApplied = stored.status.lastApplied
          \/ /\ m.lastApplied = o.status.lastApplied
             /\ o.status.lastApplied # b.status.lastApplied
  BY DEF MergeStatus, Merge
<1>2. Merge(stored.finalizer, b.finalizer, o.finalizer) \in {stored.finalizer, o.finalizer}
  BY DEF Merge
<1> QED BY <1>1, <1>2 DEF Patched, SameIntent, StoredRuns, KCLRuns

\* The claims of a run that is gone are those of a run that was not there.
LEMMA AbsentClaims ==
    /\ Life(Absent) = "gone"
    /\ Absent.generation = 0
    /\ Absent.status.lastApplied = NoRevision
    /\ ClaimsCurrent(Absent) = FALSE
BY DEF Absent, Created, Life, ClaimsCurrent

\* The deferred function reports what was delivered, or ends a deleted run.
LEMMA FinalizeStatusAllowed ==
    ASSUME StatusInv, StatusInv', LastAppliedInv, CopiedClaims, FinalizeStatus
    PROVE  Allowed
<1>0. /\ store \in [Runs -> StoredRuns] /\ before \in StoredRuns /\ cur \in Runs
      /\ obj \in MemoryRuns /\ pc = "finalizeStatus" /\ pc' = "idle"
      /\ UNCHANGED <<cluster, completed>>
  BY DEF StatusInv, TypeInv, TypeOK, FinalizeStatus, Rest
<1>1. UNCHANGED <<Targets, Placements>> /\ Targets[cur] = NoRevision
  BY <1>0, ShownArePcs, NoDelivery, NotInDelivery
<1> DEFINE o == FinalStatus(obj)
<1>2. SameRun(obj, o) /\ o \in MemoryRuns
  BY <1>0, FinalStatusSame DEF SameRun
<1>3. PICK lost : Write(o, lost)
  BY DEF FinalizeStatus
<1> HIDE DEF o
<1>4. /\ store'[cur] = Patched(store[cur], before, o, lost)
      /\ \A k \in Runs \ {cur} : SameClaims(store[k], store'[k])
  BY <1>0, <1>3, SameIsSame DEF Write
<1>5. /\ Lives' = [Lives EXCEPT ![cur] = Life(store'[cur])]
      /\ Generations' = [Generations EXCEPT ![cur] = store'[cur].generation]
      /\ AppliedLast' = [AppliedLast EXCEPT ![cur] = store'[cur].status.lastApplied]
      /\ Currents' = [Currents EXCEPT ![cur] = ClaimsCurrent(store'[cur])]
  BY <1>0, <1>4, ClaimsChange
<1>6. CASE store'[cur] = store[cur]
  <2>1. \A k \in Runs : SameClaims(store[k], store'[k])
    BY <1>4, <1>6, SameIsSame
  <2> QED BY <1>0, <1>1, <2>1, ClaimsKept, StutterAllowed
<1>7. CASE store[cur].exists /\ store[cur].deleting /\ store'[cur] = Absent
  <2>1. Lives[cur] = "leaving"
    BY <1>0, <1>7 DEF Lives, Life
  <2>2. D!Go(cur)
    BY <1>0, <1>1, <1>5, <1>7, <2>1, AbsentClaims DEF D!Go, D!Vanish
  <2> QED BY <1>0, <2>2, RunStepAllowed
<1>8. CASE /\ store[cur].exists /\ SameIntent(store[cur], store'[cur])
           /\ store'[cur].finalizer \in {store[cur].finalizer, o.finalizer}
           /\ \/ store'[cur].status.lastApplied = store[cur].status.lastApplied
              \/ /\ store'[cur].status.lastApplied = o.status.lastApplied
                 /\ o.status.lastApplied # before.status.lastApplied
  <2>1. \E r \in {AppliedLast[cur]} \cup D!DeliveredRevisions(cur) :
            AppliedLast' = [AppliedLast EXCEPT ![cur] = r]
    <3>1. CASE store'[cur].status.lastApplied = store[cur].status.lastApplied
      BY <1>0, <1>5, <3>1 DEF AppliedLast
    <3>2. CASE /\ store'[cur].status.lastApplied = o.status.lastApplied
               /\ o.status.lastApplied # before.status.lastApplied
      <4>1. obj.status.lastApplied \in Revisions /\ obj.status.lastApplied # NoRevision
        BY <1>0, <1>2, <3>2, NoRevisionAssumption DEF CopiedClaims, SameRun
      <4>2. obj.status.lastApplied \in D!DeliveredRevisions(cur)
        BY <1>0, <4>1 DEF LastAppliedInv, Sound, RolledOut, D!DeliveredRevisions
      <4> QED BY <1>2, <1>5, <3>2, <4>2 DEF SameRun
    <3> QED BY <1>8, <3>1, <3>2
  <2>2. \E claim \in {Currents[cur], FALSE, Generations[cur] \in D!DeliveredGenerations(cur)} :
            Currents' = [Currents EXCEPT ![cur] = claim]
    <3>1. CASE ~ClaimsCurrent(store'[cur])
      <4>1. ClaimsCurrent(store'[cur]) = FALSE
        BY <3>1 DEF ClaimsCurrent
      <4> QED BY <1>5, <4>1
    <3>2. CASE ClaimsCurrent(store'[cur])
      <4>1. \E r \in Revisions : <<store[cur].generation, r>> \in completed[cur]
        BY <1>0, <1>8, <3>2 DEF StatusInv, ClaimInv, Claim, Attempted, ClaimsCurrent, SameIntent
      <4>2. PICK r \in Revisions : <<store[cur].generation, r>> \in completed[cur]
        BY <4>1
      <4>3. <<store[cur].generation, r>>[1] = store[cur].generation
        OBVIOUS
      <4>4. Generations[cur] \in D!DeliveredGenerations(cur)
        BY <1>0, <4>2, <4>3 DEF Generations, D!DeliveredGenerations
      <4> QED BY <1>5, <3>2, <4>4
    <3> QED BY <3>1, <3>2
  <2>3. \/ UNCHANGED Lives
        \/ Lives[cur] = "new" /\ Lives' = [Lives EXCEPT ![cur] = "kept"]
    <3>1. store[cur].deleting \/ o.finalizer
      BY <1>0, <1>2, <1>8 DEF StatusInv, FinalizerInv, WorkerCopy, CacheBehind, SameRun
    <3>2. \/ Life(store'[cur]) = Life(store[cur])
          \/ Life(store[cur]) = "new" /\ Life(store'[cur]) = "kept"
      BY <1>0, <1>8, <3>1 DEF Life, SameIntent, StoredRuns, KCLRuns
    <3> QED BY <1>0, <1>5, <3>2 DEF Lives
  <2>4. UNCHANGED Generations
    BY <1>0, <1>5, <1>8 DEF Generations, SameIntent
  <2>5. D!Report(cur)
    BY <1>0, <1>1, <2>1, <2>2, <2>3, <2>4 DEF D!Report
  <2> QED BY <1>0, <2>5, RunStepAllowed
<1> QED BY <1>0, <1>2, <1>4, <1>6, <1>7, <1>8, PatchedApplied

-----------------------------------------------------------------------------
(* Around the worker. *)

LEMMA StartAllowed ==
    ASSUME NEW k \in Runs, Start(k)
    PROVE  Allowed
<1>1. StartEffect(k)
  BY EveryStartEffect
<1>2. pc \notin ShownPcs /\ pc' \notin ShownPcs /\ UNCHANGED <<store, cluster, completed>>
  BY <1>1, ShownArePcs DEF StartEffect, workerVars
<1>3. UNCHANGED <<Lives, Generations, AppliedLast, Currents>>
  BY <1>2, SameIsSame, ClaimsKept
<1> QED BY <1>2, <1>3, NoDelivery, StutterAllowed

LEMMA DeleteAllowed ==
    ASSUME StatusInv, NEW k \in Runs, Delete(k)
    PROVE  Allowed
<1>0. /\ store \in [Runs -> StoredRuns] /\ store[k].exists /\ ~store[k].deleting
      /\ store' = [store EXCEPT ![k] = IF store[k].finalizer
                                       THEN Terminating(store[k])
                                       ELSE Absent]
      /\ UNCHANGED <<cluster, completed, workerVars>>
  BY DEF StatusInv, TypeInv, TypeOK, Delete
<1>1. UNCHANGED <<Targets, Placements>>
  BY <1>0 DEF workerVars, Targets, Placements, Delivering, Desired
<1>2. \A j \in Runs \ {k} : SameClaims(store[j], store'[j])
  BY <1>0, SameIsSame
<1>3. /\ Lives' = [Lives EXCEPT ![k] = Life(store'[k])]
      /\ Generations' = [Generations EXCEPT ![k] = store'[k].generation]
      /\ AppliedLast' = [AppliedLast EXCEPT ![k] = store'[k].status.lastApplied]
      /\ Currents' = [Currents EXCEPT ![k] = ClaimsCurrent(store'[k])]
  BY <1>2, ClaimsChange
<1>4. CASE store[k].finalizer
  <2>1. store'[k] = Terminating(store[k])
    BY <1>0, <1>4
  <2>2. /\ store'[k].exists /\ store'[k].deleting
        /\ store'[k].generation = store[k].generation + 1
        /\ store'[k].status = store[k].status
    BY <1>0, <2>1 DEF Terminating, StoredRuns, KCLRuns
  <2>3. Lives[k] = "kept" /\ Life(store'[k]) = "leaving"
    BY <1>0, <1>4, <2>2 DEF Lives, Life
  <2>4. AppliedLast' = AppliedLast
    BY <1>3, <2>2 DEF AppliedLast
  <2>5. Generations' = [Generations EXCEPT ![k] = @ + 1]
    BY <1>3, <2>2 DEF Generations
  <2>6. Currents' = [Currents EXCEPT ![k] = FALSE]
    BY <1>3, <2>2 DEF ClaimsCurrent
  <2>7. D!Leave(k)
    BY <1>0, <1>1, <1>3, <2>3, <2>4, <2>5, <2>6 DEF D!Leave
  <2> QED BY <2>7, RunStepAllowed
<1>5. CASE ~store[k].finalizer
  <2>1. store'[k] = Absent /\ Lives[k] = "new"
    BY <1>0, <1>5 DEF Lives, Life
  <2>2. D!Leave(k)
    BY <1>0, <1>1, <1>3, <2>1, AbsentClaims DEF D!Leave, D!Vanish
  <2> QED BY <2>2, RunStepAllowed
<1> QED BY <1>4, <1>5

\* An edit is ahead of everything that the status claims.
LEMMA EditSpecAllowed ==
    ASSUME StatusInv, NEW k \in Runs, NEW s \in SpecChoices, EditSpec(k, s)
    PROVE  Allowed
<1>0. /\ store \in [Runs -> StoredRuns] /\ store[k].exists /\ ~store[k].deleting
      /\ store' = [store EXCEPT ![k].spec = s, ![k].generation = @ + 1]
      /\ UNCHANGED <<cluster, completed, workerVars>>
  BY DEF StatusInv, TypeInv, TypeOK, EditSpec
<1>1. UNCHANGED <<Targets, Placements>>
  BY <1>0 DEF workerVars, Targets, Placements, Delivering, Desired
<1>2. \A j \in Runs \ {k} : SameClaims(store[j], store'[j])
  BY <1>0, SameIsSame
<1>3. /\ Lives' = [Lives EXCEPT ![k] = Life(store'[k])]
      /\ Generations' = [Generations EXCEPT ![k] = store'[k].generation]
      /\ AppliedLast' = [AppliedLast EXCEPT ![k] = store'[k].status.lastApplied]
      /\ Currents' = [Currents EXCEPT ![k] = ClaimsCurrent(store'[k])]
  BY <1>2, ClaimsChange
<1>4. store'[k] = [store[k] EXCEPT !.spec = s, !.generation = store[k].generation + 1]
  BY <1>0
<1>5. /\ store'[k].exists = store[k].exists /\ store'[k].deleting = store[k].deleting
      /\ store'[k].finalizer = store[k].finalizer
      /\ store'[k].generation = store[k].generation + 1
      /\ store'[k].status = store[k].status
  BY <1>0, <1>4 DEF StoredRuns, KCLRuns
<1>6. UNCHANGED <<Lives, AppliedLast>>
  BY <1>3, <1>5 DEF Lives, AppliedLast, Life
<1>7. Lives[k] \in {"new", "kept"}
  BY <1>0 DEF Lives, Life, StoredRuns, KCLRuns
<1>8. Generations' = [Generations EXCEPT ![k] = @ + 1]
  BY <1>3, <1>5 DEF Generations
<1>9. Currents' = [Currents EXCEPT ![k] = FALSE]
  <2>1. /\ store[k].status.observedGeneration <= store[k].generation
        /\ store[k].status.observedGeneration \in Int /\ store[k].generation \in Nat
    BY <1>0 DEF StatusInv, ClaimInv, Claim, StoredRuns, KCLRuns, Statuses
  <2>2. store[k].status.observedGeneration # store[k].generation + 1
    BY <2>1
  <2>3. ClaimsCurrent(store'[k]) = FALSE
    BY <1>5, <2>2 DEF ClaimsCurrent
  <2> QED BY <1>3, <2>3
<1>10. D!Change(k)
  BY <1>0, <1>1, <1>6, <1>7, <1>8, <1>9 DEF D!Change
<1> QED BY <1>10, RunStepAllowed

LEMMA EnvironmentAllowed ==
    ASSUME StatusInv, Environment
    PROVE  Allowed
<1>0. store \in [Runs -> StoredRuns] /\ cur \in Runs
  BY DEF StatusInv, TypeInv, TypeOK
<1>1. ASSUME \A k \in Runs : SameClaims(store[k], store'[k]),
             UNCHANGED <<cluster, completed, workerVars>>
      PROVE  Allowed
  <2>1. UNCHANGED <<Targets, Placements>>
    BY <1>1 DEF workerVars, Targets, Placements, Delivering, Desired
  <2> QED BY <1>1, <2>1, ClaimsKept, StutterAllowed
<1>2. ASSUME NEW k \in Runs, CacheSync(k) \/ TimerFires(k) PROVE Allowed
  BY <1>1, <1>2, SameIsSame DEF CacheSync, TimerFires
<1>3. ASSUME NEW k \in Runs, Request(k) PROVE Allowed
  <2>1. \A j \in Runs : SameClaims(store[j], store'[j])
    BY <1>0, <1>3 DEF Request, SameClaims, Life, ClaimsCurrent, StoredRuns, KCLRuns
  <2> QED BY <1>1, <1>3, <2>1 DEF Request
<1>4. ASSUME NEW s \in Sources, NEW a \in Artifacts, Publish(s, a) PROVE Allowed
  BY <1>1, <1>4, SameIsSame DEF Publish
<1>5. ASSUME NEW o \in Objects, Drift(o) PROVE Allowed
  <2>1. UNCHANGED <<Targets, Placements>>
    BY <1>5 DEF Drift, workerVars, Targets, Placements, Delivering, Desired
  <2>2. UNCHANGED <<Lives, Generations, AppliedLast, Currents>>
    BY <1>5, SameIsSame, ClaimsKept DEF Drift
  <2>3. D!Drift(o)
    BY <1>5, <2>1, <2>2 DEF Drift, D!Drift, D!claims
  <2> QED BY <2>3 DEF Allowed, D!Next
<1>6. CASE Crash
  <2>1. UNCHANGED <<store, cluster, completed>> /\ pc' \notin ShownPcs
    BY <1>6, ShownArePcs DEF Crash, Rest
  <2>2. UNCHANGED <<Lives, Generations, AppliedLast, Currents>>
    BY <2>1, SameIsSame, ClaimsKept
  <2>3. D!GiveUp(cur)
    BY <1>0, <2>1, <2>2, DeliveryEnds DEF D!GiveUp, D!claims
  <2> QED BY <1>0, <2>3, RunStepAllowed
<1> QED BY <1>2, <1>3, <1>4, <1>5, <1>6, DeleteAllowed, EditSpecAllowed DEF Environment

-----------------------------------------------------------------------------
(* The refinement. *)

LEMMA InitAllowed == Init => D!Init
<1> SUFFICES ASSUME Init PROVE D!Init
  OBVIOUS
<1>1. \A k \in Runs : /\ Life(store[k]) = "new"
                      /\ store[k].generation = 1
                      /\ store[k].status.lastApplied = NoRevision
                      /\ store[k].status.observedGeneration = -1
  BY DEF Init, Created, Life
<1>2. \A k \in Runs : ClaimsCurrent(store[k]) = FALSE
  <2>1. -1 # 1
    OBVIOUS
  <2> QED BY <1>1, <2>1 DEF ClaimsCurrent
<1>3. \A k \in Runs : ~Delivering(k)
  BY ShownArePcs DEF Init, IdleWorker, Delivering, ShownPcs
<1> QED BY <1>1, <1>2, <1>3 DEF Init, D!Init, Lives, Generations, AppliedLast, Currents,
                                Targets, Placements

\* What the refinement needs of the reachable states.
DeliveryInv == StatusInv /\ LastAppliedInv /\ DependencyInv /\ CopiedClaims

LEMMA DeliveryStep ==
    ASSUME DeliveryInv, [Next]_vars
    PROVE  DeliveryInv' /\ Allowed
<1> USE DEF DeliveryInv
<1>1. StatusInv'
  BY TypeStep, FinalizerStep, ProgressStep, GenerationStep, KeptStep, ScheduleStep, ClaimStep
     DEF StatusInv
<1>2. LastAppliedInv' /\ DependencyInv'
  BY LastAppliedStep, DependencyStep DEF StatusInv
<1>3. CopiedClaims'
  BY CopiedStep
<1>4. Allowed
  <2>1. CASE Step
    BY <1>1, <2>1, PrepareAllowed, ReportProgressAllowed, BuildAllowed, ApplyAllowed,
       PruneAllowed, HealthAllowed, FinalizeAllowed, FinalizeStatusAllowed DEF Step
  <2>2. CASE \E k \in Runs : Start(k)
    BY <2>2, StartAllowed
  <2>3. CASE Environment
    BY <2>3, EnvironmentAllowed
  <2>4. CASE UNCHANGED vars
    <3>1. UNCHANGED <<Targets, Placements>>
      BY <2>4 DEF vars, workerVars, Targets, Placements, Delivering, Desired
    <3>2. UNCHANGED <<Lives, Generations, AppliedLast, Currents>>
      BY <2>4, SameIsSame, ClaimsKept DEF vars
    <3> QED BY <2>4, <3>1, <3>2, StutterAllowed DEF vars
  <2> QED BY <2>1, <2>2, <2>3, <2>4 DEF Next
<1> QED BY <1>1, <1>2, <1>3, <1>4

\* Every behaviour of the controller, of its environment and of its failures is
\* one of the abstract delivery.
THEOREM ControllerDelivers == Spec => Delivers
<1>1. Init => DeliveryInv
  BY TypeInit, FinalizerInit, ProgressInit, GenerationInit, KeptInit, ScheduleInit, ClaimInit,
     LastAppliedInit, DependencyInit, CopiedInit DEF StatusInv, DeliveryInv
<1>2. DeliveryInv /\ [Next]_vars => DeliveryInv' /\ [D!Next]_(D!vars)
  BY DeliveryStep DEF Allowed
<1> QED BY <1>1, <1>2, InitAllowed, PTL DEF Spec, Delivers, D!Spec

-----------------------------------------------------------------------------
(* What the abstract delivery guarantees, the controller does. *)

\* The same mapping, with the theorems of the abstract delivery.
G == INSTANCE DeliveryProofs WITH
    Rank       <- Ranks,
    Upstream   <- Upstreams,
    life       <- Lives,
    generation <- Generations,
    target     <- Targets,
    placed     <- Placements,
    owner      <- cluster,
    delivered  <- completed,
    applied    <- AppliedLast,
    current    <- Currents

LEMMA UpstreamsAreRuns == G!UpstreamRuns
BY ControllerAssumption DEF G!UpstreamRuns, Upstreams

LEMMA SameDelivery == Delivers => G!Spec
<1>1. D!Init => G!Init
  BY DEF D!Init, G!Init
<1>2. [D!Next]_D!vars => [G!Next]_G!vars
  <2> USE DEF D!claims, G!claims, D!End, G!End, D!Free, G!Free, D!Vanish, G!Vanish,
              D!DeliveredRevisions, G!DeliveredRevisions,
              D!DeliveredGenerations, G!DeliveredGenerations
  <2>1. UNCHANGED D!vars => UNCHANGED G!vars
    BY DEF D!vars, G!vars
  <2>2. ASSUME NEW k \in Runs
        PROVE  /\ \A r : D!Begin(k, r) => G!Begin(k, r)
               /\ \A g : D!Finish(k, g) => G!Finish(k, g)
               /\ \A objects : /\ D!Place(k, objects) => G!Place(k, objects)
                               /\ D!Collect(k, objects) => G!Collect(k, objects)
                               /\ D!Clean(k, objects) => G!Clean(k, objects)
    BY DEF D!Begin, G!Begin, D!Finish, G!Finish, D!Place, G!Place, D!Collect, G!Collect,
           D!Clean, G!Clean
  <2>3. ASSUME NEW k \in Runs
        PROVE  /\ D!GiveUp(k) => G!GiveUp(k)
               /\ D!Report(k) => G!Report(k)
               /\ D!Go(k) => G!Go(k)
               /\ D!Change(k) => G!Change(k)
               /\ D!Leave(k) => G!Leave(k)
    BY DEF D!GiveUp, G!GiveUp, D!Report, G!Report, D!Go, G!Go, D!Change, G!Change,
           D!Leave, G!Leave
  <2>4. ASSUME NEW o \in Objects PROVE D!Drift(o) => G!Drift(o)
    BY DEF D!Drift, G!Drift
  <2>5. D!Next => G!Next
    <3> SUFFICES ASSUME D!Next PROVE G!Next
      OBVIOUS
    <3>1. CASE \E o \in Objects : D!Drift(o)
      BY <2>4, <3>1 DEF G!Next
    <3>2. ASSUME NEW k \in Runs, NEW d \in completed'[k], D!Finish(k, d[1]) PROVE G!Next
      BY <2>2, <3>2 DEF G!Next
    <3>3. ASSUME NEW k \in Runs, NEW objects \in SUBSET Objects,
                 D!Place(k, objects) \/ D!Collect(k, objects) \/ D!Clean(k, objects)
          PROVE  G!Next
      BY <2>2, <3>3 DEF G!Next
    <3>4. ASSUME NEW k \in Runs, NEW r \in Revisions, D!Begin(k, r) PROVE G!Next
      BY <2>2, <3>4 DEF G!Next
    <3>5. ASSUME NEW k \in Runs,
                 D!GiveUp(k) \/ D!Report(k) \/ D!Go(k) \/ D!Change(k) \/ D!Leave(k)
          PROVE  G!Next
      BY <2>3, <3>5 DEF G!Next
    <3> QED BY <3>1, <3>2, <3>3, <3>4, <3>5 DEF D!Next
  <2> QED BY <2>1, <2>5
<1> QED BY <1>1, <1>2, PTL DEF Delivers, D!Spec, G!Spec

\* No roll-out is completed before the dependencies from the same source completed
\* one at that revision (checkDependencies), at whatever generations.
THEOREM DependenciesDeliverFirst == Spec => []D!UpstreamFirst
<1>1. G!Spec => []G!UpstreamFirst
  BY UpstreamsAreRuns, G!DeliveriesFollowUpstream
<1>2. G!UpstreamFirst => D!UpstreamFirst
  BY DEF G!UpstreamFirst, D!UpstreamFirst, G!DeliveredRevisions, D!DeliveredRevisions
<1> QED BY <1>1, <1>2, ControllerDelivers, SameDelivery, PTL

\* Both claims of the stored status, lastAppliedRevision and observedGeneration, are
\* backed by roll-outs at every moment, also between the requests of a patch.
THEOREM ClaimsAreBacked == Spec => []D!ClaimsBacked
<1>1. G!Spec => []G!ClaimsBacked
  BY UpstreamsAreRuns, G!DeliveriesBackClaims
<1>2. G!ClaimsBacked => D!ClaimsBacked
  BY DEF G!ClaimsBacked, D!ClaimsBacked, G!DeliveredRevisions, D!DeliveredRevisions,
         G!DeliveredGenerations, D!DeliveredGenerations
<1> QED BY <1>1, <1>2, ControllerDelivers, SameDelivery, PTL

-----------------------------------------------------------------------------
(* What belongs to a run. *)

\* Object o belongs to run k, and may be pruned.
Owns(k, o) == cluster[o] = k /\ o \notin PruneDisabled

\* The owner is there and has the finalizer.
OwnersStay ==
    \A k \in Runs \ lapsed, o \in Objects :
        Owns(k, o) => store[k].exists /\ store[k].finalizer

\* Between reconciles the inventory is in the API server.
Stored ==
    \A k \in Runs \ lapsed, o \in Objects :
        Owns(k, o) /\ ~InFlight(k) => o \in store[k].status.inventory

\* Where the inventory in memory is the one that was read.
UncollectedPcs ==
    {"getSource", "checkDependencies", "reportProgress", "build", "prune"} \cup ApplyPcs

\* During one it is in memory, together with what is being applied; the API server
\* has the inventory from before or the one in memory; and the finalizer only goes
\* with the last object.
Carried ==
    pc # "idle" /\ cur \notin lapsed =>
        /\ \A o \in Objects : Owns(cur, o) => o \in obj.status.inventory \cup Placing
        /\ store[cur].exists =>
            store[cur].status.inventory \in {before.status.inventory, obj.status.inventory}
        /\ pc \in UncollectedPcs => before.status.inventory = obj.status.inventory
        /\ pc = "finalizeStatus" /\ ~obj.finalizer => \A o \in Objects : ~Owns(cur, o)

OwnersInv == OwnersStay /\ Stored /\ Carried

LEMMA OwnersInit == Init => OwnersInv
<1> SUFFICES ASSUME Init PROVE OwnersInv
  OBVIOUS
<1>1. \A k \in Runs, o \in Objects : ~Owns(k, o)
  BY ControllerAssumption DEF Init, Owns
<1> QED BY <1>1 DEF Init, IdleWorker, OwnersInv, OwnersStay, Stored, Carried

\* A patch leaves the inventory that was stored or the one in memory; the latter
\* unless the request with the status is lost.
LEMMA PatchedInventory ==
    ASSUME NEW stored \in StoredRuns, NEW b \in StoredRuns, NEW o \in MemoryRuns, NEW lost,
           stored.exists,
           stored.status.inventory \in {b.status.inventory, o.status.inventory}
    PROVE  LET p == Patched(stored, b, o, lost)
           IN  /\ p.exists =>
                    /\ p.status.inventory \in {stored.status.inventory, o.status.inventory}
                    /\ "status" \notin lost => p.status.inventory = o.status.inventory
               /\ stored.finalizer /\ o.finalizer => p.exists /\ p.finalizer
<1>1. MergeStatus(stored.status, b.status, o.status).inventory = o.status.inventory
  BY DEF MergeStatus, Merge
<1>2. Merge(stored.finalizer, b.finalizer, o.finalizer) \in {stored.finalizer, o.finalizer}
  BY DEF Merge
<1> QED BY <1>1, <1>2, AbsentIsGone DEF Patched, StoredRuns, KCLRuns

\* A step that leaves the objects and the API server alone.
LEMMA QuietOwners ==
    ASSUME TypeInv, OwnersInv, pc # "idle", pc' # "idle",
           UNCHANGED <<store, cluster, cur, before, lapsed>>,
           obj'.status.inventory = obj.status.inventory,
           Placing = {},
           pc' \in UncollectedPcs => pc \in UncollectedPcs,
           pc' = "finalizeStatus" => obj'.finalizer
    PROVE  OwnersInv'
<1>1. OwnersStay' /\ Stored'
  BY DEF OwnersInv, OwnersStay, Stored, Owns, InFlight
<1>2. Carried'
  BY DEF OwnersInv, Carried, Owns
<1> QED BY <1>1, <1>2 DEF OwnersInv

\* A patch in the middle of an attempt sends the inventory in memory.
LEMMA PatchOwners ==
    ASSUME StatusInv, OwnersInv, cur \notin lapsed, pc \in AttemptPcs, pc' # "idle",
           NEW o \in MemoryRuns, NEW lost, Patch(o, lost),
           o.status.inventory = obj.status.inventory, o.finalizer = obj.finalizer,
           UNCHANGED <<cluster, cur, lapsed>>,
           obj'.status.inventory = obj.status.inventory, obj'.finalizer = obj.finalizer,
           pc' \in UncollectedPcs => pc \in UncollectedPcs,
           Placing = {}
    PROVE  OwnersInv'
<1>0. /\ store \in [Runs -> StoredRuns] /\ before \in StoredRuns /\ cur \in Runs
      /\ pc # "idle" /\ store[cur].exists /\ store[cur].finalizer /\ obj.finalizer
  BY ShownArePcs DEF StatusInv, TypeInv, TypeOK, FinalizerInv, FinalizerBeforeApply, WorkerCopy
<1>1. /\ store'[cur] = Patched(store[cur], before, o, lost)
      /\ \A k \in Runs \ {cur} : store'[k] = store[k]
  BY <1>0 DEF Patch, Write
<1>2. store[cur].status.inventory \in {before.status.inventory, o.status.inventory}
  BY <1>0 DEF OwnersInv, Carried
<1>3. /\ store'[cur].exists /\ store'[cur].finalizer
      /\ store'[cur].status.inventory \in {store[cur].status.inventory, o.status.inventory}
      /\ "status" \notin lost => store'[cur].status.inventory = o.status.inventory
  <2>1. store[cur] \in StoredRuns /\ o.finalizer
    BY <1>0
  <2> QED BY <1>0, <1>1, <1>2, <2>1, PatchedInventory
<1>4. \/ before' = before
      \/ before' = o /\ store'[cur].status.inventory = o.status.inventory
  <2>1. ~WriteFails(o, lost) => lost = {}
    BY DEF WriteFails, PatchFails
  <2> QED BY <1>3, <2>1 DEF Patch
<1>5. OwnersStay' /\ Stored'
  BY <1>0, <1>1, <1>3 DEF OwnersInv, OwnersStay, Stored, Owns, InFlight
<1>6. Carried'
  <2>1. store'[cur].status.inventory \in {before'.status.inventory, obj.status.inventory}
    BY <1>2, <1>3, <1>4
  <2>2. pc' \in UncollectedPcs => before'.status.inventory = obj.status.inventory
    BY <1>0, <1>4 DEF OwnersInv, Carried
  <2>3. \A x \in Objects : Owns(cur, x)' => x \in obj.status.inventory
    BY <1>0 DEF OwnersInv, Carried, Owns
  <2> QED BY <1>0, <2>1, <2>2, <2>3 DEF Carried
<1> QED BY <1>5, <1>6 DEF OwnersInv

-----------------------------------------------------------------------------
(* The steps of the worker. *)

LEMMA PrepareOwners ==
    ASSUME StatusInv, OwnersInv, lapsed' = lapsed, cur \notin lapsed,
           \/ GetSource \/ SourceNotReady \/ GetSourceFails
           \/ DependenciesReady \/ DependenciesNotReady
           \/ ReportProgress
           \/ Build \/ BuildFails \/ FetchFails \/ ArgumentsFail
    PROVE  OwnersInv'
<1>0. /\ TypeInv /\ obj \in MemoryRuns
      /\ pc \in AttemptPcs /\ pc # "idle" /\ Placing = {} /\ pc \in UncollectedPcs
      /\ obj.finalizer
  <2>1. pc \in {"getSource", "checkDependencies", "reportProgress", "build"}
    BY DEF GetSource, SourceNotReady, GetSourceFails, DependenciesReady,
           DependenciesNotReady, ReportProgress, Build, BuildFails, FetchFails, ArgumentsFail
  <2>2. pc \in AttemptPcs /\ pc # "idle" /\ Placing = {} /\ pc \in UncollectedPcs
    BY <2>1, ShownArePcs DEF Placing, UncollectedPcs
  <2> QED BY <2>2 DEF StatusInv, TypeInv, TypeOK, FinalizerInv, WorkerCopy
<1>1. CASE GetSource \/ DependenciesReady \/ Build
  BY <1>0, <1>1, QuietOwners DEF GetSource, DependenciesReady, Build, Continue, environment
<1>2. CASE FetchFails \/ ArgumentsFail
  <2>1. /\ obj' \in {MarkReady(obj, "Invalid"), obj} /\ pc' = "finalizeStatus"
        /\ UNCHANGED <<store, cluster, cur, before>>
    BY <1>2 DEF FetchFails, ArgumentsFail, Return, environment
  <2>2. obj'.status = obj.status /\ obj'.finalizer = obj.finalizer
    BY <1>0, <2>1 DEF MarkReady, MemoryRuns, KCLRuns
  <2> QED BY <1>0, <2>1, <2>2, QuietOwners
<1>3. CASE SourceNotReady \/ DependenciesNotReady \/ GetSourceFails \/ BuildFails
  <2>1. /\ obj' = MarkReady(obj, "False") /\ pc' = "finalizeStatus"
        /\ UNCHANGED <<store, cluster, cur, before>>
    BY <1>3 DEF SourceNotReady, DependenciesNotReady, GetSourceFails, BuildFails,
                Return, environment
  <2>2. obj'.status = obj.status /\ obj'.finalizer = obj.finalizer
    BY <1>0, <2>1 DEF MarkReady, MemoryRuns, KCLRuns
  <2> QED BY <1>0, <2>1, <2>2, QuietOwners
<1>4. CASE ReportProgress
  <2>1. PICK lost : /\ Patch(InProgress(obj), lost)
                    /\ obj' = InProgress(obj) /\ pc' \in {"finalizeStatus", "build"}
    BY <1>4 DEF ReportProgress, Return, Continue
  <2>2. rev \in Revisions /\ UNCHANGED <<cluster, cur>>
    BY <1>4, ShownArePcs DEF ReportProgress, StatusInv, TypeInv, RevisionKnown, environment
  <2>3. /\ InProgress(obj) \in MemoryRuns
        /\ InProgress(obj).finalizer = obj.finalizer
    BY <1>0, <2>2, UpdateSame, UpdateKeeps
  <2>4. InProgress(obj).status.inventory = obj.status.inventory
    BY <1>0 DEF InProgress, MarkReady, MarkReconciling, MemoryRuns, KCLRuns, Statuses
  <2> QED BY <1>0, <2>1, <2>2, <2>3, <2>4, PatchOwners
<1> QED BY <1>1, <1>2, <1>3, <1>4

\* What is applied becomes the run's, and is kept track of until the inventory is
\* replaced; what was in the inventory and is not in the new one goes, or a lapse
\* is recorded.
LEMMA ApplyOwners ==
    ASSUME StatusInv, OwnersInv, lapsed' = lapsed, cur \notin lapsed, ~Lapse,
           ApplyStage \/ ApplyStageFails \/ Prune \/ PruneFails
    PROVE  OwnersInv'
<1>0. /\ TypeInv /\ obj \in MemoryRuns
      /\ pc \in AttemptPcs /\ pc # "idle" /\ cur \in Runs
      /\ store[cur].exists /\ store[cur].finalizer
  <2>1. pc \in AttemptPcs /\ pc # "idle"
    BY ShownArePcs DEF ApplyStage, ApplyStageFails, Prune, PruneFails, RolloutPcs, ApplyPcs
  <2> QED BY <2>1 DEF StatusInv, TypeInv, TypeOK, FinalizerInv, FinalizerBeforeApply
<1>1. CASE ApplyStageFails \/ PruneFails
  BY <1>1 DEF Lapse, StageAbandoned, StaleLeft
<1>2. CASE ApplyStage
  <2>1. /\ cluster' = Applied(InStage(pc)) /\ obj' = obj
        /\ UNCHANGED <<store, cur, before, rev>>
        /\ pc \in UncollectedPcs
        /\ pc' \in {"applyClasses", "applyResources", "prune"}
    BY <1>2 DEF ApplyStage, Continue, environment, ApplyPcs, AfterStage, UncollectedPcs
  <2>2. Placing' = Desired
    BY <2>1 DEF Placing, Desired
  <2>3. \A o \in Objects, k \in Runs :
            Owns(k, o)' => Owns(k, o) \/ (k = cur /\ o \in Desired)
    BY <2>1 DEF Owns, Applied, InStage
  <2>4. Placing \subseteq Desired
    BY DEF Placing
  <2>5. \A o \in Objects : o \in obj.status.inventory \cup Placing =>
                           o \in obj'.status.inventory \cup Placing'
    BY <2>1, <2>2, <2>4
  <2>6. OwnersStay' /\ Stored'
    BY <1>0, <2>1, <2>3 DEF OwnersInv, OwnersStay, Stored, InFlight
  <2>7. Carried'
    <3>1. ASSUME NEW o \in Objects, NEW k \in Runs, k = cur, Owns(k, o)'
          PROVE  o \in obj'.status.inventory \cup Placing'
      BY <1>0, <2>2, <2>3, <2>5, <3>1 DEF OwnersInv, Carried
    <3> QED BY <1>0, <2>1, <3>1 DEF OwnersInv, Carried, Owns
  <2> QED BY <2>6, <2>7 DEF OwnersInv
<1>3. CASE Prune
  <2>1. /\ cluster' = Deleted(StaleObjects) /\ obj' = SetInventory(obj)
        /\ UNCHANGED <<store, cur, before, rev>>
        /\ pc = "prune" /\ pc' = "checkHealth"
    BY <1>3 DEF Prune, Continue, environment
  <2>2. obj'.status.inventory = Desired
    BY <1>0, <2>1 DEF SetInventory, MemoryRuns, KCLRuns, Statuses
  <2>3. obj.spec.prune \/ Deletable(Stale(obj.status.inventory, Desired)) = {}
    BY <1>3 DEF Lapse, StaleLeft
  <2>4. \A o \in Objects, k \in Runs : Owns(k, o)' => Owns(k, o) /\ o \notin StaleObjects
    BY <2>1, ControllerAssumption DEF Owns, Deleted
  <2>5. \A o \in Objects : Owns(cur, o) => o \in obj.status.inventory \cup Desired
    BY <1>0, <2>1 DEF OwnersInv, Carried, Placing
  <2>6. \A o \in Objects : Owns(cur, o) /\ o \notin StaleObjects => o \in Desired
    BY <2>3, <2>5 DEF StaleObjects, Deletable, Stale, Owns
  <2>7. OwnersStay' /\ Stored'
    BY <1>0, <2>1, <2>4 DEF OwnersInv, OwnersStay, Stored, InFlight
  <2>8. Carried'
    <3>1. ASSUME NEW o \in Objects, NEW k \in Runs, k = cur, Owns(k, o)'
          PROVE  o \in obj'.status.inventory
      BY <2>2, <2>4, <2>6, <3>1
    <3>2. store[cur].status.inventory = before.status.inventory
      BY <1>0, <2>1 DEF OwnersInv, Carried, UncollectedPcs
    <3>3. pc' \notin UncollectedPcs /\ pc' # "finalizeStatus"
      BY <2>1 DEF UncollectedPcs, ApplyPcs
    <3> QED BY <1>0, <2>1, <3>1, <3>2, <3>3 DEF Carried, Owns
  <2> QED BY <2>7, <2>8 DEF OwnersInv
<1> QED BY <1>1, <1>2, <1>3

\* The conditions and the revisions are not the inventory.
LEMMA MarkInventory ==
    ASSUME NEW o \in MemoryRuns
    PROVE  /\ \A s : MarkReady(o, s).status = o.status
           /\ \A s : MarkHealthy(o, s).status = o.status
           /\ MarkReady(o, "False").finalizer = o.finalizer
           /\ Succeeded(o).status.inventory = o.status.inventory
           /\ Waiting(o).status = o.status /\ Waiting(o).finalizer = o.finalizer
           /\ FinalStatus(o).status.inventory = o.status.inventory
<1>1. /\ \A s : MarkReady(o, s).status = o.status
      /\ \A s : MarkHealthy(o, s).status = o.status
      /\ MarkReady(o, "False").finalizer = o.finalizer
      /\ Waiting(o).status = o.status /\ Waiting(o).finalizer = o.finalizer
  BY DEF MarkReady, MarkHealthy, Waiting, MarkReconciling, MemoryRuns, KCLRuns
<1>2. Succeeded(o).status.inventory = o.status.inventory
  BY DEF Succeeded, MarkReady, MemoryRuns, KCLRuns, Statuses
<1>3. /\ HandleRequest(o).status.inventory = o.status.inventory
      /\ \A h, r : h.status.inventory = o.status.inventory =>
            MarkReconciling(h, r).status.inventory = o.status.inventory
  <2>1. HandleRequest(o).status.inventory = o.status.inventory
    BY DEF HandleRequest, MemoryRuns, KCLRuns, Statuses
  <2>2. ASSUME NEW h, NEW r, h.status.inventory = o.status.inventory
        PROVE  MarkReconciling(h, r).status.inventory = o.status.inventory
    BY <2>2 DEF MarkReconciling
  <2> QED BY <2>1, <2>2
<1>4. ASSUME NEW h \in MemoryRuns, NEW n
      PROVE  [h EXCEPT !.status.observedGeneration = n].status.inventory = h.status.inventory
  BY DEF MemoryRuns, KCLRuns, Statuses
<1>5. MarkReconciling(HandleRequest(o), "Absent") \in MemoryRuns
  <2>1. HandleRequest(o) \in MemoryRuns
    BY DEF HandleRequest, MemoryRuns, KCLRuns, Statuses
  <2> QED BY <2>1, MarkType
<1>6. FinalStatus(o).status.inventory = o.status.inventory
  BY <1>3, <1>4, <1>5 DEF FinalStatus
<1> QED BY <1>1, <1>2, <1>6

LEMMA HealthOwners ==
    ASSUME StatusInv, OwnersInv, lapsed' = lapsed, cur \notin lapsed,
           SkipHealthCheck \/ CheckHealth \/ WaitForSet \/ WaitForSetFails \/ ReportHealth
    PROVE  OwnersInv'
<1>0. /\ TypeInv /\ obj \in MemoryRuns /\ rev \in Revisions
      /\ pc \in AttemptPcs /\ pc # "idle" /\ Placing = {}
      /\ obj.finalizer
      /\ UNCHANGED <<cluster, cur>>
      /\ {"waitForSet", "reportHealth", "finalizeStatus"} \cap UncollectedPcs = {}
  <2>1. /\ pc \in {"checkHealth", "waitForSet", "reportHealth"}
        /\ UNCHANGED <<cluster, cur>>
    BY DEF SkipHealthCheck, CheckHealth, WaitForSet, WaitForSetFails, ReportHealth, environment
  <2>2. /\ pc \in HealthPcs /\ pc \in AttemptPcs /\ pc # "idle" /\ Placing = {} /\ pc \in ShownPcs
        /\ {"waitForSet", "reportHealth", "finalizeStatus"} \cap UncollectedPcs = {}
    BY <2>1, ShownArePcs DEF Placing, HealthPcs, RolloutPcs, UncollectedPcs, ApplyPcs
  <2> QED BY <2>1, <2>2, ShownArePcs
             DEF StatusInv, TypeInv, TypeOK, FinalizerInv, WorkerCopy, RevisionKnown
<1>1. ASSUME NEW o \in MemoryRuns, o.status = obj.status, o.finalizer = obj.finalizer
      PROVE  /\ Succeeded(o).finalizer /\ MarkReady(o, "False").finalizer
             /\ Succeeded(o).status.inventory = obj.status.inventory
             /\ MarkReady(o, "False").status.inventory = obj.status.inventory
  BY <1>0, <1>1, UpdateSame, MarkInventory
<1>2. /\ \A s \in ConditionStatus : /\ MarkHealthy(obj, s) \in MemoryRuns
                                    /\ MarkHealthy(obj, s).status = obj.status
                                    /\ MarkHealthy(obj, s).finalizer = obj.finalizer
      /\ Waiting(obj) \in MemoryRuns /\ Waiting(obj).status = obj.status
      /\ Waiting(obj).finalizer = obj.finalizer
  BY <1>0, MarkSame, UpdateKeeps, MarkInventory DEF SameRun, KeepsClaim
<1>3. CASE SkipHealthCheck
  <2>1. /\ obj' = Succeeded(MarkHealthy(obj, "Absent")) /\ pc' = "finalizeStatus"
        /\ UNCHANGED <<store, before>>
    BY <1>3 DEF SkipHealthCheck, Succeed, Return, environment
  <2> QED BY <1>0, <1>1, <1>2, <2>1, QuietOwners DEF ConditionStatus
<1>4. CASE WaitForSet \/ WaitForSetFails
  <2>1. /\ \/ obj' = MarkHealthy(obj, "True")
           \/ obj' = MarkReady(MarkHealthy(obj, "False"), "False")
        /\ pc' \in {"reportHealth", "finalizeStatus"}
        /\ UNCHANGED <<store, before>>
    BY <1>4 DEF WaitForSet, WaitForSetFails, Continue, Return, environment
  <2> QED BY <1>0, <1>1, <1>2, <2>1, QuietOwners DEF ConditionStatus
<1>5. CASE CheckHealth
  <2>1. PICK lost : /\ Patch(Waiting(obj), lost)
                    /\ obj' \in {MarkReady(Waiting(obj), "False"), Waiting(obj)}
                    /\ pc' \in {"finalizeStatus", "waitForSet"}
    BY <1>5 DEF CheckHealth, Return, Continue
  <2>2. obj'.status.inventory = obj.status.inventory /\ obj'.finalizer = obj.finalizer
    <3>1. /\ MarkReady(Waiting(obj), "False").status = Waiting(obj).status
          /\ MarkReady(Waiting(obj), "False").finalizer = Waiting(obj).finalizer
      BY <1>2, MarkInventory
    <3>2. obj'.status = obj.status
      BY <1>2, <2>1, <3>1
    <3> QED BY <1>2, <2>1, <3>1, <3>2
  <2> QED BY <1>0, <1>2, <2>1, <2>2, PatchOwners
<1>6. CASE ReportHealth
  <2>1. PICK lost : /\ Patch(obj, lost)
                    /\ obj' \in {MarkReady(obj, "False"), Succeeded(obj)}
                    /\ pc' = "finalizeStatus"
    BY <1>6 DEF ReportHealth, Return, Succeed
  <2>2. obj'.status.inventory = obj.status.inventory /\ obj'.finalizer = obj.finalizer
    <3>1. /\ MarkReady(obj, "False").status = obj.status
          /\ MarkReady(obj, "False").finalizer = obj.finalizer
          /\ Succeeded(obj).status.inventory = obj.status.inventory
          /\ Succeeded(obj).finalizer = obj.finalizer
      BY <1>0, UpdateSame, MarkInventory
    <3> QED BY <2>1, <3>1
  <2> QED BY <1>0, <1>2, <2>1, <2>2, PatchOwners
<1> QED BY <1>3, <1>4, <1>5, <1>6

\* finalize empties the inventory before the finalizer goes, and the patch of the
\* deferred function hands the inventory over to the API server, unless its loss is
\* recorded.
LEMMA EndOwners ==
    ASSUME StatusInv, OwnersInv, lapsed' = lapsed, cur \notin lapsed, ~Lapse,
           Finalize \/ FinalizeFails \/ FinalizeUnimpersonated \/ FinalizeStatus
    PROVE  OwnersInv'
<1>0. /\ TypeInv /\ obj \in MemoryRuns /\ cur \in Runs
      /\ store \in [Runs -> StoredRuns] /\ store[cur] \in StoredRuns /\ before \in StoredRuns
  BY DEF StatusInv, TypeInv, TypeOK
<1>1. CASE FinalizeUnimpersonated
  BY <1>1 DEF Lapse, LeftUnpruned
<1>2. CASE Finalize \/ FinalizeFails
  <2>1. /\ UNCHANGED <<store, cur, before>>
        /\ pc = "finalize" /\ pc' = "finalizeStatus" /\ Placing = {}
        /\ obj' \in {obj, RemoveFinalizer(obj)}
        /\ obj.finalizer
    BY <1>2 DEF Finalize, FinalizeFails, Return, environment, Placing, StatusInv, KeptInv
  <2>2. obj'.status = obj.status
    BY <1>0, <2>1 DEF RemoveFinalizer, MemoryRuns, KCLRuns
  <2>3. \A o \in Objects, k \in Runs : Owns(k, o)' => Owns(k, o)
    BY <1>2, ControllerAssumption DEF Owns, Deleted, Finalize, FinalizeFails
  <2>4. ASSUME NEW o \in Objects, NEW k \in Runs, k = cur, ~obj'.finalizer
        PROVE  ~Owns(k, o)'
    <3>1. cluster' = Deleted(Deletable(obj.status.inventory))
      BY <1>2, <2>1, <2>4 DEF Finalize, FinalizeFails, Return
    <3>2. Owns(cur, o) => o \in Deletable(obj.status.inventory)
      BY <2>1 DEF OwnersInv, Carried, Deletable, Owns
    <3> QED BY <2>3, <2>4, <3>1, <3>2, ControllerAssumption DEF Owns, Deleted
  <2>5. OwnersStay' /\ Stored'
    BY <2>1, <2>3 DEF OwnersInv, OwnersStay, Stored, InFlight
  <2>6. Carried'
    <3>1. ASSUME NEW o \in Objects, NEW k \in Runs, k = cur, Owns(k, o)'
          PROVE  o \in obj'.status.inventory
      BY <2>1, <2>2, <2>3, <3>1 DEF OwnersInv, Carried
    <3>2. pc' \notin UncollectedPcs
      BY <2>1 DEF UncollectedPcs, ApplyPcs
    <3>3. store[cur].exists =>
            store[cur].status.inventory \in {before.status.inventory, obj.status.inventory}
      BY <2>1 DEF OwnersInv, Carried
    <3> QED BY <1>0, <2>1, <2>2, <2>4, <3>1, <3>2, <3>3 DEF Carried, Owns
  <2> QED BY <2>5, <2>6 DEF OwnersInv
<1>3. CASE FinalizeStatus
  <2>1. PICK lost : Write(FinalStatus(obj), lost)
    BY <1>3 DEF FinalizeStatus
  <2>2. pc = "finalizeStatus" /\ pc' = "idle" /\ cluster' = cluster /\ Placing = {}
    BY <1>3 DEF FinalizeStatus, Rest, Placing
  <2> DEFINE p == Patched(store[cur], before, FinalStatus(obj), lost)
  <2>3. store'[cur] = p /\ \A k \in Runs \ {cur} : store'[k] = store[k]
    BY <1>0, <2>1 DEF Write
  <2>4. SameRun(obj, FinalStatus(obj)) /\ FinalStatus(obj) \in MemoryRuns
    BY <1>0, FinalStatusSame DEF SameRun
  <2>5. FinalStatus(obj).status.inventory = obj.status.inventory
    BY <1>0, MarkInventory
  <2>6. ASSUME NEW o \in Objects, Owns(cur, o)
        PROVE  p.exists /\ p.finalizer /\ o \in p.status.inventory
    <3>1. /\ obj.finalizer /\ store[cur].exists /\ store[cur].finalizer
          /\ store[cur].status.inventory \in {before.status.inventory, obj.status.inventory}
          /\ o \in obj.status.inventory
      BY <1>0, <2>2, <2>6 DEF OwnersInv, Carried, OwnersStay
    <3>2. FinalStatus(obj).finalizer
      BY <2>4, <3>1 DEF SameRun
    <3>3. p.exists /\ p.finalizer
      BY <1>0, <2>4, <2>5, <3>1, <3>2, PatchedInventory
    <3>4. p.status.inventory = obj.status.inventory
      BY <2>2, <2>3, <3>3 DEF Lapse, InventoryLost
    <3> QED BY <3>1, <3>3, <3>4
  <2> HIDE DEF p
  <2>7. ASSUME NEW k \in Runs \ lapsed, NEW o \in Objects, Owns(k, o)
        PROVE  store'[k].exists /\ store'[k].finalizer /\ o \in store'[k].status.inventory
    BY <2>2, <2>3, <2>6, <2>7 DEF OwnersInv, OwnersStay, Stored, InFlight
  <2> QED BY <2>2, <2>7 DEF OwnersInv, OwnersStay, Stored, Carried, Owns
<1> QED BY <1>1, <1>2, <1>3

\* Whatever the worker does for one run, it takes nothing from another but objects.
LEMMA OthersOwners ==
    ASSUME StatusInv, Step
    PROVE  /\ \A k \in Runs \ {cur} : store'[k] = store[k]
           /\ \A k \in Runs \ {cur}, o \in Objects : Owns(k, o)' => Owns(k, o)
           /\ pc # "idle" /\ (pc' # "idle" => cur' = cur)
<1>0. TypeInv /\ cur \in Runs
  BY DEF StatusInv, TypeInv, TypeOK
<1>1. WorkerEffect /\ pc # "idle"
  BY EveryWorkerEffect, StepRevisions DEF StatusInv
<1>2. \A k \in Runs \ {cur} : store'[k] = store[k]
  BY <1>0, <1>1, WriteAges DEF WorkerEffect
<1>3. pc' # "idle" => cur' = cur
  BY <1>1 DEF WorkerEffect, Rest
<1>4. \/ cluster' = cluster
      \/ \E set : cluster' = Applied(set) \/ cluster' = Deleted(set)
  BY DEF Step, GetSource, SourceNotReady, GetSourceFails, DependenciesReady,
         DependenciesNotReady, ReportProgress, Build, BuildFails, FetchFails, ArgumentsFail,
         ApplyStage, ApplyStageFails, Prune, PruneFails, SkipHealthCheck, CheckHealth,
         WaitForSet, WaitForSetFails, ReportHealth, Finalize, FinalizeFails,
         FinalizeUnimpersonated, FinalizeStatus
<1>5. \A k \in Runs \ {cur}, o \in Objects : Owns(k, o)' => Owns(k, o)
  BY <1>4, ControllerAssumption DEF Owns, Applied, Deleted
<1> QED BY <1>1, <1>2, <1>3, <1>5

\* Of a run with a lapse nothing is said, and the others lose objects only.
LEMMA LapsedOwners ==
    ASSUME StatusInv, OwnersInv, Step, lapsed \subseteq lapsed', cur \in lapsed'
    PROVE  OwnersInv'
<1>1. OwnersStay' /\ Stored'
  BY OthersOwners DEF OwnersInv, OwnersStay, Stored, InFlight
<1>2. Carried'
  BY OthersOwners DEF Carried
<1> QED BY <1>1, <1>2 DEF OwnersInv

-----------------------------------------------------------------------------
(* What happens around the worker. *)

\* A copy with the inventory of the API server; a run that is let go of unpruned has
\* nothing in it, or a lapse.
LEMMA StartOwners ==
    ASSUME StatusInv, OwnersInv, lapsed \subseteq lapsed', cur' \notin lapsed' => ~Lapse,
           NEW k \in Runs, Start(k)
    PROVE  OwnersInv'
<1>0. /\ TypeInv /\ cache[k] \in StoredRuns
      /\ StartEffect(k) /\ pc = "idle" /\ UNCHANGED <<store, cluster>>
  BY EveryStartEffect DEF StatusInv, TypeInv, TypeOK, StartEffect
<1>1. OwnersStay' /\ Stored'
  BY <1>0 DEF OwnersInv, OwnersStay, Stored, Owns, InFlight
<1>2. CASE pc' = "idle" \/ cur' \in lapsed'
  BY <1>1, <1>2 DEF OwnersInv, Carried
<1>3. CASE pc' # "idle" /\ cur' \notin lapsed'
  <2>1. /\ cur' = k /\ k \notin lapsed /\ before' = cache[k] /\ cache[k].exists
        /\ pc' \in {"finalize", "finalizeStatus", "getSource"}
        /\ obj'.status = cache[k].status
        /\ pc' = "finalizeStatus" /\ ~obj'.finalizer =>
                cache[k].deleting /\ ~PrunesOnDeletion(cache[k])
    <3>1. /\ RemoveFinalizer(cache[k]).status = cache[k].status
          /\ [cache[k] EXCEPT !.finalizer = TRUE].status = cache[k].status
          /\ [cache[k] EXCEPT !.finalizer = TRUE].finalizer
      BY <1>0 DEF RemoveFinalizer, StoredRuns, KCLRuns
    <3> QED BY <1>0, <1>3, <3>1 DEF StartEffect, workerVars
  <2>2. cache[k].status.inventory = store[k].status.inventory
    BY <1>3, <2>1 DEF Lapse, InventoryStale
  <2>3. \A o \in Objects : Owns(k, o) => o \in store[k].status.inventory
    BY <1>0, <2>1 DEF OwnersInv, Stored, InFlight
  <2>4. cache[k].deleting /\ ~PrunesOnDeletion(cache[k]) => cache[k].status.inventory = {}
    <3>1. ASSUME cache[k].deleting, cache[k].exists
          PROVE  ReconcileDeleted(k)
      BY <3>1 DEF Start, ReconcileDeleted, ReconcileNotFound, AddFinalizer,
                  ReconcileSuspended, ReconcileActive
    <3>2. cache[k].deleting => cache[k].spec.prune /\ ~cache[k].spec.suspend
      BY <1>3, <2>1, <3>1 DEF Lapse, LeftUnpruned
    <3> QED BY <3>2 DEF PrunesOnDeletion
  <2>5. \A o \in Objects : Owns(k, o)' = Owns(k, o)
    BY <1>0 DEF Owns
  <2>6. Carried'
    BY <1>0, <2>1, <2>2, <2>3, <2>4, <2>5 DEF Carried, Owns
  <2> QED BY <1>1, <2>6 DEF OwnersInv
<1> QED BY <1>2, <1>3

\* A crash forgets what is in memory: it is in the API server as well, or lost.
LEMMA CrashOwners ==
    ASSUME StatusInv, OwnersInv, lapsed \subseteq lapsed',
           pc # "idle" /\ cur \notin lapsed' => ~Lapse,
           Crash
    PROVE  OwnersInv'
<1>0. UNCHANGED <<store, cluster>> /\ pc' = "idle" /\ cur \in Runs
  BY DEF Crash, Rest, StatusInv, TypeInv, TypeOK
<1>1. OwnersStay' /\ Carried'
  BY <1>0 DEF OwnersInv, OwnersStay, Carried, Owns
<1>2. ASSUME NEW k \in Runs \ lapsed', NEW o \in Objects, Owns(k, o)
      PROVE  o \in store[k].status.inventory
  <2>1. CASE ~InFlight(k)
    BY <1>2, <2>1 DEF OwnersInv, Stored
  <2>2. CASE InFlight(k)
    <3>1. pc # "idle" /\ k = cur /\ cur \notin lapsed' /\ cur \notin lapsed
      BY <1>2, <2>2 DEF InFlight
    <3>2. /\ Placing = {}
          /\ store[cur].exists => store[cur].status.inventory = obj.status.inventory
      BY <1>0, <3>1 DEF Lapse, InventoryLost
    <3>3. store[cur].exists /\ o \in obj.status.inventory
      BY <1>2, <3>1, <3>2 DEF OwnersInv, OwnersStay, Carried
    <3> QED BY <3>1, <3>2, <3>3
  <2> QED BY <2>1, <2>2
<1>3. Stored'
  BY <1>0, <1>2 DEF Stored, Owns
<1> QED BY <1>1, <1>3 DEF OwnersInv

LEMMA EnvironmentOwners ==
    ASSUME StatusInv, OwnersInv, lapsed \subseteq lapsed', Environment, ~Crash
    PROVE  OwnersInv'
<1>0. /\ TypeInv /\ EnvironmentEffect /\ cur \in Runs
      /\ store \in [Runs -> StoredRuns]
  BY EveryEnvironmentEffect DEF StatusInv, TypeInv, TypeOK
<1>1. UNCHANGED workerVars
  BY <1>0 DEF Environment, CacheSync, TimerFires, Delete, Request, EditSpec, Publish, Drift
<1>2. \A k \in Runs : store'[k] = store[k] \/ Edited(store[k], store'[k])
  BY <1>0 DEF EnvironmentEffect, Undisturbed, Restarted
<1>3. \A k \in Runs, o \in Objects : Owns(k, o)' => Owns(k, o)
  BY <1>0, ControllerAssumption DEF EnvironmentEffect, Owns
<1>4. \A k \in Runs : store[k].exists /\ store[k].finalizer =>
            /\ store'[k].exists /\ store'[k].finalizer
            /\ store'[k].status = store[k].status
  BY <1>2 DEF Edited
<1>5. \A k \in Runs : store'[k].exists =>
            store[k].exists /\ store'[k].status = store[k].status
  BY <1>2, AbsentIsGone DEF Edited
<1>6. OwnersStay' /\ Stored'
  BY <1>1, <1>3, <1>4 DEF OwnersInv, OwnersStay, Stored, InFlight, workerVars
<1>7. Carried'
  <2>1. UNCHANGED <<pc, cur, obj, before, rev>> /\ cur \notin lapsed' => cur \notin lapsed
    BY <1>1 DEF workerVars
  <2>2. UNCHANGED <<pc, cur, obj, before, rev>>
    BY <1>1 DEF workerVars
  <2>3. Placing' = Placing
    BY <2>2 DEF Placing, Desired
  <2> SUFFICES ASSUME pc # "idle", cur \notin lapsed'
               PROVE  /\ \A o \in Objects : Owns(cur, o)' => o \in obj.status.inventory \cup Placing
                      /\ store'[cur].exists =>
                            store'[cur].status.inventory \in
                                {before.status.inventory, obj.status.inventory}
                      /\ pc \in UncollectedPcs =>
                            before.status.inventory = obj.status.inventory
                      /\ pc = "finalizeStatus" /\ ~obj.finalizer =>
                            \A o \in Objects : ~Owns(cur, o)'
    BY <2>2, <2>3 DEF Carried
  <2>4. cur \notin lapsed
    OBVIOUS
  <2>5. ASSUME NEW k \in Runs, k = cur, NEW o \in Objects, Owns(k, o)'
        PROVE  Owns(cur, o)
    BY <1>3, <2>5
  <2>6. \A o \in Objects : Owns(cur, o)' => Owns(cur, o)
    BY <1>0, <2>2, <2>5 DEF Owns
  <2> QED BY <1>0, <1>5, <2>4, <2>6 DEF OwnersInv, Carried
<1> QED BY <1>6, <1>7 DEF OwnersInv

-----------------------------------------------------------------------------
(* Nothing is orphaned. *)

LEMMA OwnersStep ==
    ASSUME StatusInv, OwnersInv, OwnershipNext
    PROVE  OwnersInv'
<1>0. /\ lapsed \subseteq lapsed'
      /\ lapsed' = lapsed \/ Lapse
      /\ pc # "idle" /\ cur \notin lapsed' => ~Lapse
      /\ pc = "idle" /\ cur' \notin lapsed' => ~Lapse
  BY DEF OwnershipNext, Concerned
<1>1. CASE Step
  <2>1. CASE cur \in lapsed'
    BY <1>0, <1>1, <2>1, LapsedOwners
  <2>2. CASE cur \notin lapsed'
    <3>1. ~Lapse /\ lapsed' = lapsed /\ cur \notin lapsed
      BY <1>0, <1>1, <2>2, OthersOwners
    <3> QED BY <1>1, <3>1, PrepareOwners, ApplyOwners, HealthOwners, EndOwners DEF Step
  <2> QED BY <2>1, <2>2
<1>2. ASSUME NEW k \in Runs, Start(k) PROVE OwnersInv'
  <2>1. pc = "idle"
    BY <1>2, EveryStartEffect DEF StartEffect
  <2> QED BY <1>0, <1>2, <2>1, StartOwners
<1>3. CASE Crash
  BY <1>0, <1>3, CrashOwners
<1>4. CASE Environment /\ ~Crash
  BY <1>0, <1>4, EnvironmentOwners
<1> QED BY <1>1, <1>2, <1>3, <1>4 DEF OwnershipNext, Next

\* Whatever is applied for a run, taken over from another or left behind by an edit,
\* is in the inventory of the run it belongs to, which stays until it is pruned,
\* unless one of the five lapses befell that very run: for any number of runs,
\* edits, failures, lost requests and crashes.
THEOREM NothingIsOrphaned == OwnershipSpec => []NoOrphans
<1>1. Init => OwnersInv
  BY OwnersInit
<1>2. StatusInv /\ OwnersInv /\ [OwnershipNext]_<<vars, lapsed>> => OwnersInv'
  <2>1. ASSUME OwnersInv, UNCHANGED <<vars, lapsed>>
        PROVE  OwnersInv'
    <3>1. UNCHANGED <<store, cluster, pc, cur, obj, before, rev, lapsed>>
      BY <2>1 DEF vars, workerVars
    <3>2. OwnersStay' /\ Stored'
      BY <2>1, <3>1 DEF OwnersInv, OwnersStay, Stored, Owns, InFlight
    <3>3. Placing' = Placing
      BY <3>1 DEF Placing, Desired
    <3>4. Carried'
      BY <2>1, <3>1, <3>3 DEF OwnersInv, Carried, Owns
    <3> QED BY <3>2, <3>4 DEF OwnersInv
  <2> QED BY <2>1, OwnersStep
<1>3. OwnersInv => NoOrphans
  <2> SUFFICES ASSUME OwnersStay, Stored,
                      NEW o \in Objects \ PruneDisabled, NEW k \in Runs \ lapsed,
                      cluster[o] = k, ~InFlight(k)
               PROVE  store[k].exists /\ o \in store[k].status.inventory
    BY DEF OwnersInv, NoOrphans
  <2> QED BY DEF OwnersStay, Stored, Owns
<1>4. [OwnershipNext]_<<vars, lapsed>> => [Next]_vars
  BY DEF OwnershipNext
<1>5. OwnershipSpec => Spec
  BY <1>4, PTL DEF OwnershipSpec, Spec
<1> QED BY <1>1, <1>2, <1>3, <1>5, StatusInvariant, PTL DEF OwnershipSpec

-----------------------------------------------------------------------------
(* What has settled is deployed. *)

\* A step at no fault, before which there was none either, is none that fails.
LEMMA WriteUnlost ==
    ASSUME TypeInv, NEW o, NEW lost, Write(o, lost), faults' = 0
    PROVE  lost = {} /\ faults = 0
<1>1. faults \in Nat
  BY DEF TypeInv, TypeOK
<1> QED BY <1>1 DEF Write

LEMMA NoFaultYet ==
    ASSUME TypeInv, faults' = 0
    PROVE  ~Fault
<1>1. faults \in Nat
  BY DEF TypeInv, TypeOK
<1> QED BY <1>1 DEF Fault

\* Faults are counted, and never forgotten.
LEMMA FaultsCount ==
    ASSUME TypeInv, [Next]_vars, faults' = 0
    PROVE  faults = 0
<1>1. faults \in Nat
  BY DEF TypeInv, TypeOK
<1>2. CASE faults' = faults
  BY <1>2
<1>3. CASE Fault
  BY <1>1, <1>3 DEF Fault
<1>4. CASE \E o, lost : Write(o, lost)
  BY <1>4, WriteUnlost
<1>5. CASE Step
  BY <1>2, <1>3, <1>4, <1>5
     DEF Step, GetSource, SourceNotReady, GetSourceFails, DependenciesReady,
         DependenciesNotReady, ReportProgress, Build, BuildFails, FetchFails, ArgumentsFail,
         ApplyStage, ApplyStageFails, Prune, PruneFails, SkipHealthCheck, CheckHealth,
         WaitForSet, WaitForSetFails, ReportHealth, Finalize, FinalizeFails,
         FinalizeUnimpersonated, FinalizeStatus, Patch
<1>6. CASE \E k \in Runs : Start(k)
  BY <1>2, <1>3, <1>6 DEF Start, ReconcileNotFound, ReconcileDeleted, AddFinalizer,
                          ReconcileSuspended, ReconcileActive, Load, Get
<1>7. CASE Environment
  BY <1>2, <1>3, <1>7 DEF Environment, CacheSync, TimerFires, Delete, Request, EditSpec,
                          Publish, Drift, Crash
<1> QED BY <1>2, <1>5, <1>6, <1>7 DEF Next, vars

\* Object o is run k's own, unless a third party deleted it.
Holds(k, o) == cluster[o] \in {k, Drifted}

InPlace(k, r) == \A o \in Manifest[k][r] : Holds(k, o)

\* No two runs want the same object at the same time: at one revision of a source
\* that they share, or at any revisions of two sources.
Exclusive ==
    \A j \in Runs, k \in Runs : \A q \in Revisions, r \in Revisions :
        j # k /\ (SourceOf[j] = SourceOf[k] => q = r) =>
            Manifest[j][q] \cap Manifest[k][r] = {}

\* Every new revision requests the reconciliation of every run.
AllRequested ==
    /\ NamespacedRefs = {}
    /\ \A k \in Runs : SourceOf[k] \in GitRepositories

\* As long as no call fails, the patcher's copy is what the API server has, so
\* that a patch leaves there what is in memory; and none is refused.
InStep ==
    pc # "idle" /\ store[cur].exists =>
        store[cur].status = before.status /\ store[cur].conds = before.conds

Sendable == pc # "idle" => obj.conds.ready # "Invalid"

\* What a roll-out has placed stays until it is over.
PlacedStays == \A k \in Runs : \A o \in Placements[k] : Holds(k, o)

\* Ready is reported of an active run only when all of its revision is in place.
Earned ==
    pc = "finalizeStatus" /\ obj.conds.ready = "True" /\ ~obj.deleting /\ ~obj.spec.suspend =>
        /\ rev \in Revisions
        /\ obj.status.lastApplied = rev
        /\ InPlace(cur, rev)

\* An attempt whose source has moved on in the meantime is one from before all
\* runs were queued, and none of them has been reconciled since.
LatePcs == AttemptPcs \ {"getSource"}

LatestRevision ==
    pc \in LatePcs /\ source[SourceOf[cur]] \in Revisions =>
        \A k \in Runs \ queue : cache[k].exists => rev = source[SourceOf[cur]]

\* The status of the active run k promises that it is deployed.
Promises(k) ==
    /\ Active(k)
    /\ store[k].conds.ready = "True"
    /\ store[k].status.observedGeneration = store[k].generation
    /\ store[k].status.lastApplied = source[SourceOf[k]]

Waits(k) == k \notin queue /\ ~InFlight(k)

PromisesKept ==
    \A k \in Runs : Promises(k) /\ Waits(k) => InPlace(k, source[SourceOf[k]])

Deployment ==
    InStep /\ Sendable /\ PlacedStays /\ Earned /\ LatestRevision /\ PromisesKept

DeployedInv == faults = 0 => Deployment

LEMMA NothingPlaced ==
    ASSUME pc' \notin ShownPcs
    PROVE  \A k \in Runs : Placements'[k] = {}
BY DEF ShownPcs, Delivering, Placements

LEMMA DeployedInit == Init => DeployedInv
<1> SUFFICES ASSUME Init PROVE Deployment
  BY DEF DeployedInv
<1>1. pc = "idle" /\ pc \notin ShownPcs /\ pc \notin AttemptPcs
  BY ShownArePcs DEF Init, IdleWorker
<1>2. \A k \in Runs : store[k].conds.ready # "True"
  BY DEF Init, Created
<1> QED BY <1>1, <1>2, NotInDelivery
           DEF Deployment, InStep, Sendable, PlacedStays, Earned, LatePcs, LatestRevision,
               PromisesKept, Promises

\* The promises of the other runs stay kept while the worker does something that
\* takes nothing away from them.
LEMMA OthersKept ==
    ASSUME LatestRevision, PromisesKept, pc # "idle", pc' # "idle",
           UNCHANGED <<cache, source, queue, cur>>,
           \A k \in Runs \ {cur} : store'[k] = store[k],
           pc' \in LatePcs => pc \in LatePcs /\ rev' = rev,
           \A k \in Runs \ {cur} :
                Promises(k) /\ k \notin queue =>
                    \A o \in Manifest[k][source[SourceOf[k]]] :
                        Holds(k, o) => cluster'[o] \in {k, Drifted}
    PROVE  LatestRevision' /\ PromisesKept'
<1>1. LatestRevision'
  BY DEF LatestRevision
<1>2. ASSUME NEW k \in Runs, Promises(k)', Waits(k)'
      PROVE  InPlace(k, source[SourceOf[k]])'
  <2>1. k # cur /\ k \notin queue /\ Waits(k)
    BY <1>2 DEF Waits, InFlight
  <2>2. Promises(k)
    BY <1>2, <2>1 DEF Promises, Active
  <2>3. InPlace(k, source[SourceOf[k]])
    BY <2>1, <2>2 DEF PromisesKept
  <2> QED BY <2>1, <2>2, <2>3 DEF InPlace, Holds
<1> QED BY <1>1, <1>2 DEF PromisesKept

\* A step that changes the memory only.
LEMMA QuietDeployment ==
    ASSUME Deployment, pc # "idle", pc' # "idle",
           UNCHANGED <<store, cache, cluster, source, queue, cur, before>>,
           \A k \in Runs : Placements'[k] \subseteq Placements[k],
           pc' \in LatePcs => pc \in LatePcs /\ rev' = rev,
           obj'.conds.ready # "Invalid",
           pc' = "finalizeStatus" => obj'.conds.ready # "True"
    PROVE  Deployment'
<1>1. LatestRevision' /\ PromisesKept'
  BY OthersKept DEF Deployment, Holds
<1>2. PlacedStays'
  BY DEF Deployment, PlacedStays, Holds
<1>3. InStep' /\ Sendable' /\ Earned'
  BY DEF Deployment, InStep, Sendable, Earned
<1> QED BY <1>1, <1>2, <1>3 DEF Deployment

\* A patch in the middle of an attempt goes through, and leaves what it sends.
LEMMA PatchDeployment ==
    ASSUME StatusInv, InStep, pc \in AttemptPcs, cur' = cur,
           NEW o \in MemoryRuns, Patch(o, {}), ~Refused(o)
    PROVE  /\ ~WriteFails(o, {}) /\ InStep'
           /\ \A k \in Runs \ {cur} : store'[k] = store[k]
<1>0. /\ store \in [Runs -> StoredRuns] /\ before \in StoredRuns /\ cur \in Runs
      /\ pc # "idle" /\ store[cur].exists /\ store[cur] \in StoredRuns /\ o \in StoredRuns
  BY ShownArePcs, UnrefusedIsStored DEF StatusInv, TypeInv, TypeOK, FinalizerInv, FinalizerBeforeApply
<1>1. ~WriteFails(o, {}) /\ before' = o
  BY <1>0 DEF Patch, WriteFails, PatchFails
<1>2. /\ store'[cur] = Patched(store[cur], before, o, {})
      /\ \A k \in Runs \ {cur} : store'[k] = store[k]
  BY <1>0 DEF Patch, Write
<1>3. store'[cur].exists => store'[cur].status = o.status /\ store'[cur].conds = o.conds
  BY <1>0, <1>2, PatchInStep DEF InStep
<1> QED BY <1>1, <1>2, <1>3 DEF InStep

\* The facts that the steps of an attempt start from.
LEMMA FaultlessAttempt ==
    ASSUME StatusInv, faults' = 0, pc \in AttemptPcs
    PROVE  /\ TypeInv /\ obj \in MemoryRuns /\ cur \in Runs /\ ~Fault
           /\ pc # "idle" /\ pc # "finalizeStatus"
           /\ MarkReady(obj, "False").conds.ready = "False"
BY NoFaultYet, ShownArePcs, MarkKeeps DEF StatusInv, TypeInv, TypeOK, ConditionStatus

LEMMA PrepareDeployment ==
    ASSUME StatusInv, Deployment, faults' = 0,
           \/ GetSource \/ SourceNotReady \/ GetSourceFails
           \/ DependenciesReady \/ DependenciesNotReady
           \/ ReportProgress
           \/ Build \/ BuildFails \/ FetchFails \/ ArgumentsFail
    PROVE  Deployment'
<1>0. /\ TypeInv /\ obj \in MemoryRuns /\ cur \in Runs /\ ~Fault
      /\ pc \in AttemptPcs /\ pc # "idle" /\ pc # "finalizeStatus"
      /\ MarkReady(obj, "False").conds.ready = "False"
      /\ obj.conds.ready # "Invalid"
      /\ pc \in {"getSource", "checkDependencies", "reportProgress", "build"}
  <2>1. pc \in {"getSource", "checkDependencies", "reportProgress", "build"}
    BY DEF GetSource, SourceNotReady, GetSourceFails, DependenciesReady,
           DependenciesNotReady, ReportProgress, Build, BuildFails, FetchFails, ArgumentsFail
  <2>2. pc \in AttemptPcs
    BY <2>1, ShownArePcs
  <2> QED BY <2>1, <2>2, FaultlessAttempt DEF Deployment, Sendable
<1>1. CASE GetSource
  <2>1. /\ UNCHANGED <<store, cache, cluster, source, queue, cur, before, obj>>
        /\ rev' = source[SourceOf[cur]]
        /\ pc \notin ShownPcs /\ pc' \in {"reportProgress", "checkDependencies"}
    BY <1>1, ShownArePcs DEF GetSource, Continue, environment
  <2>2. pc' \notin ShownPcs /\ pc' # "idle" /\ pc' # "finalizeStatus"
    BY <2>1, ShownArePcs
  <2>3. \A k \in Runs : Placements'[k] = {}
    BY <2>2, NothingPlaced
  <2>4. PromisesKept'
    BY <1>0, <2>1, <2>2 DEF Deployment, PromisesKept, Promises, Active, Waits, InFlight, InPlace, Holds
  <2>5. InStep' /\ Sendable' /\ PlacedStays' /\ Earned' /\ LatestRevision'
    BY <1>0, <2>1, <2>2, <2>3
       DEF Deployment, InStep, Sendable, PlacedStays, Earned, LatestRevision
  <2> QED BY <2>4, <2>5 DEF Deployment
<1>2. CASE DependenciesReady
  <2>1. /\ UNCHANGED <<store, cache, cluster, source, queue, cur, before, obj, rev>>
        /\ pc = "checkDependencies" /\ pc' = "reportProgress"
    BY <1>2 DEF DependenciesReady, Continue, environment
  <2>2. pc' \notin ShownPcs /\ pc \in LatePcs
    BY <1>0, <2>1, ShownArePcs DEF LatePcs
  <2>3. \A k \in Runs : Placements'[k] \subseteq Placements[k]
    BY <2>2, NothingPlaced
  <2> QED BY <1>0, <2>1, <2>2, <2>3, QuietDeployment
<1>3. CASE Build
  <2>1. /\ UNCHANGED <<store, cache, cluster, source, queue, cur, before, obj, rev>>
        /\ pc = "build" /\ pc' = "applyDefinitions"
    BY <1>3 DEF Build, Continue, environment
  <2>2. pc \in ShownPcs /\ pc' \in ShownPcs /\ pc \in LatePcs
    BY <1>0, <2>1 DEF ShownPcs, RolloutPcs, ApplyPcs, LatePcs
  <2>3. RanksBefore(pc)' = RanksBefore(pc)
    BY <2>1 DEF RanksBefore
  <2>4. Placements' = Placements
    BY <2>1, <2>2, <2>3, DeliveryGoesOn
  <2> QED BY <1>0, <2>1, <2>2, <2>4, QuietDeployment
<1>4. CASE SourceNotReady \/ DependenciesNotReady
  <2>1. /\ UNCHANGED <<store, cache, cluster, source, queue, cur, before>>
        /\ obj' = MarkReady(obj, "False") /\ pc' = "finalizeStatus"
    BY <1>0, <1>4 DEF SourceNotReady, DependenciesNotReady, Return, environment
  <2>2. pc' \notin ShownPcs /\ pc' \notin LatePcs
    BY <2>1, ShownArePcs DEF LatePcs
  <2>3. \A k \in Runs : Placements'[k] \subseteq Placements[k]
    BY <2>2, NothingPlaced
  <2> QED BY <1>0, <2>1, <2>2, <2>3, QuietDeployment
<1>5. CASE GetSourceFails \/ BuildFails \/ FetchFails \/ ArgumentsFail
  BY <1>0, <1>5 DEF GetSourceFails, BuildFails, FetchFails, ArgumentsFail
<1>6. CASE ReportProgress
  <2>1. /\ UNCHANGED <<cache, cluster, source, queue, cur, rev>>
        /\ pc = "reportProgress"
    BY <1>6 DEF ReportProgress, environment
  <2>2. PICK lost : /\ Patch(InProgress(obj), lost)
                    /\ IF WriteFails(InProgress(obj), lost)
                       THEN Return(InProgress(obj), "error")
                       ELSE Continue(InProgress(obj), "build")
    BY <1>6 DEF ReportProgress
  <2>3. lost = {}
    BY <1>0, <2>2, WriteUnlost DEF Patch
  <2>4. pc \in LatePcs /\ pc \notin ShownPcs /\ rev \in Revisions
    BY <1>0, <2>1, ShownArePcs DEF LatePcs, TypeInv, RevisionKnown
  <2>5. /\ InProgress(obj) \in MemoryRuns /\ InProgress(obj).conds.ready = "Unknown"
        /\ ~Refused(InProgress(obj))
    BY <1>0, <2>4, UpdateSame, UpdateKeeps DEF Refused
  <2>6. /\ ~WriteFails(InProgress(obj), {}) /\ InStep'
        /\ \A k \in Runs \ {cur} : store'[k] = store[k]
    BY <1>0, <2>1, <2>2, <2>3, <2>5, PatchDeployment DEF Deployment
  <2>7. obj' = InProgress(obj) /\ pc' = "build"
    BY <2>2, <2>3, <2>6 DEF Continue
  <2>8. \A k \in Runs : Placements'[k] = {}
    BY <2>7 DEF Placements, Delivering, RanksBefore
  <2>9. LatestRevision' /\ PromisesKept'
    BY <1>0, <2>1, <2>4, <2>6, <2>7, OthersKept DEF Deployment, Holds
  <2> QED BY <2>5, <2>6, <2>7, <2>8, <2>9 DEF Deployment, Sendable, PlacedStays, Earned
<1> QED BY <1>1, <1>2, <1>3, <1>4, <1>5, <1>6

\* What other runs promise is nothing of what this one rolls out.
LEMMA OthersWantOther ==
    ASSUME StatusInv, Exclusive, LatestRevision, pc \in RolloutPcs,
           NEW k \in Runs \ {cur}, k \notin queue, Promises(k)
    PROVE  /\ Manifest[k][source[SourceOf[k]]] \cap Desired = {}
           /\ Manifest[k][source[SourceOf[k]]] \subseteq Objects
<1>1. /\ cur \in Runs /\ rev \in Revisions /\ Desired = Manifest[cur][rev]
      /\ pc \in LatePcs
  BY RolloutFacts DEF LatePcs, RolloutPcs, ApplyPcs, HealthPcs
<1>2. source[SourceOf[k]] \in Revisions /\ store[k].exists
  BY DEF Promises, Active
<1>3. cache[k].exists
  BY <1>2 DEF StatusInv, FinalizerInv, CacheBehind
<1>4. SourceOf[cur] = SourceOf[k] => rev = source[SourceOf[k]]
  BY <1>1, <1>2, <1>3 DEF LatestRevision
<1>5. Desired \cap Manifest[k][source[SourceOf[k]]] = {}
  BY <1>1, <1>2, <1>4 DEF Exclusive
<1>6. Manifest[k][source[SourceOf[k]]] \subseteq Objects
  BY <1>2, ControllerAssumption
<1> QED BY <1>5, <1>6

LEMMA ApplyDeployment ==
    ASSUME StatusInv, Exclusive, Deployment, faults' = 0,
           ApplyStage \/ ApplyStageFails \/ Prune \/ PruneFails
    PROVE  Deployment'
<1>0. /\ pc \in RolloutPcs /\ pc \in ShownPcs /\ pc \in LatePcs
      /\ TypeInv /\ obj \in MemoryRuns /\ cur \in Runs /\ ~Fault /\ pc # "idle"
      /\ obj.conds.ready # "Invalid" /\ Desired \subseteq Objects
  <2>1. pc \in RolloutPcs /\ pc # "getSource"
    BY DEF ApplyStage, ApplyStageFails, Prune, PruneFails, RolloutPcs, ApplyPcs
  <2>2. pc \in AttemptPcs /\ Desired \subseteq Objects /\ pc \in ShownPcs
    BY <2>1, RolloutFacts
  <2> QED BY <2>1, <2>2, FaultlessAttempt DEF LatePcs, Deployment, Sendable
<1>1. CASE ApplyStageFails \/ PruneFails
  BY <1>0, <1>1 DEF ApplyStageFails, PruneFails
<1>2. CASE ApplyStage
  <2>1. /\ UNCHANGED <<store, cache, source, queue, cur, before, obj, rev>>
        /\ cluster' = Applied(InStage(pc))
    BY <1>2 DEF ApplyStage, Continue, environment
  <2>2. /\ pc' \in ShownPcs
        /\ Placements' = [Placements EXCEPT ![cur] = @ \cup InStage(pc)]
    BY <1>2, ApplyPlaces
  <2>3. pc' # "idle" /\ pc' # "finalizeStatus"
    BY <2>2, ShownArePcs
  <2>4. ASSUME NEW k \in Runs \ {cur}, Promises(k), k \notin queue,
               NEW o \in Manifest[k][source[SourceOf[k]]], Holds(k, o)
        PROVE  cluster'[o] \in {k, Drifted}
    <3>1. o \in Objects /\ o \notin InStage(pc)
      BY <1>0, <2>4, OthersWantOther DEF Deployment, InStage
    <3> QED BY <2>1, <2>4, <3>1 DEF Applied, Holds
  <2>5. LatestRevision' /\ PromisesKept'
    BY <1>0, <2>1, <2>3, <2>4, OthersKept DEF Deployment
  <2>6. ASSUME NEW k \in Runs, NEW o \in Placements'[k]
        PROVE  cluster'[o] \in {k, Drifted}
    <3>1. Placements = [j \in Runs |-> Placements[j]]
      BY DEF Placements
    <3>2. Placements[k] # {} => k = cur /\ Placements[k] \subseteq Desired
      BY DEF Placements, Delivering
    <3>3. InStage(pc) \subseteq Desired
      BY DEF InStage
    <3>4. o \in Placements[k] \/ (k = cur /\ o \in InStage(pc))
      BY <2>2, <2>6, <3>1
    <3>5. k = cur /\ o \in Objects
      BY <1>0, <3>2, <3>3, <3>4
    <3>6. o \in InStage(pc) \/ Holds(k, o)
      BY <3>4 DEF Deployment, PlacedStays
    <3> QED BY <2>1, <3>5, <3>6 DEF Applied, Holds
  <2>7. PlacedStays'
    BY <2>6 DEF PlacedStays, Holds
  <2> QED BY <1>0, <2>1, <2>3, <2>5, <2>7 DEF Deployment, InStep, Sendable, Earned
<1>3. CASE Prune
  <2>1. /\ UNCHANGED <<store, cache, source, queue, cur, before, rev>>
        /\ cluster' = Deleted(StaleObjects) /\ obj' = SetInventory(obj)
        /\ pc = "prune" /\ pc' = "checkHealth"
    BY <1>3 DEF Prune, Continue, environment
  <2>2. pc' \in ShownPcs /\ RanksBefore(pc)' = RanksBefore(pc)
    BY <2>1 DEF ShownPcs, RolloutPcs, HealthPcs, RanksBefore
  <2>3. Placements' = Placements
    BY <1>0, <2>1, <2>2, DeliveryGoesOn
  <2>4. \A o \in StaleObjects : cluster[o] = cur /\ o \notin Desired
    BY DEF StaleObjects, Deletable, Stale
  <2>5. ASSUME NEW k \in Runs \ {cur}, Promises(k), k \notin queue,
               NEW o \in Manifest[k][source[SourceOf[k]]], Holds(k, o)
        PROVE  cluster'[o] \in {k, Drifted}
    <3>1. o \in Objects
      BY <1>0, <2>5, OthersWantOther DEF Deployment
    <3>2. o \notin StaleObjects
      BY <1>0, <2>4, <2>5, ControllerAssumption DEF Holds
    <3> QED BY <2>1, <2>5, <3>1, <3>2 DEF Deleted, Holds
  <2>6. LatestRevision' /\ PromisesKept'
    BY <1>0, <2>1, <2>5, OthersKept DEF Deployment
  <2>7. ASSUME NEW k \in Runs, NEW o \in Placements[k]
        PROVE  cluster'[o] \in {k, Drifted}
    <3>1. o \in Desired
      BY <2>7 DEF Placements, Delivering
    <3>2. o \in Objects /\ o \notin StaleObjects /\ Holds(k, o)
      BY <1>0, <2>4, <2>7, <3>1 DEF Deployment, PlacedStays
    <3> QED BY <2>1, <3>2 DEF Deleted, Holds
  <2>8. PlacedStays'
    BY <2>3, <2>7 DEF PlacedStays, Holds
  <2>9. obj'.conds = obj.conds
    BY <1>0, <2>1, RolloutFacts, UpdateKeeps
  <2> QED BY <1>0, <2>1, <2>6, <2>8, <2>9 DEF Deployment, InStep, Sendable, Earned
<1> QED BY <1>1, <1>2, <1>3

\* The health checks end the roll-out, well or not; all of it is in place.
LEMMA HealthEnds ==
    ASSUME StatusInv, Deployment, pc \in HealthPcs, pc' = "finalizeStatus", InStep',
           UNCHANGED <<cache, cluster, source, queue, cur, rev>>,
           \A k \in Runs \ {cur} : store'[k] = store[k],
           \/ obj'.conds.ready = "False"
           \/ obj'.conds.ready = "True" /\ obj'.status.lastApplied = rev
    PROVE  Deployment'
<1>1. pc \in RolloutPcs \ ApplyPcs /\ pc \in RolloutPcs /\ pc # "idle"
  BY DEF RolloutPcs, ApplyPcs, HealthPcs
<1>2. pc' \notin ShownPcs /\ pc' \notin LatePcs
  BY ShownArePcs DEF LatePcs
<1>3. LatestRevision' /\ PromisesKept'
  BY <1>1, <1>2, OthersKept DEF Deployment, Holds
<1>4. PlacedStays'
  BY <1>2, NothingPlaced DEF PlacedStays
<1>5. Earned'
  <2>1. /\ cur \in Runs /\ rev \in Revisions
        /\ Placements[cur] = Desired /\ Desired = Manifest[cur][rev]
    BY <1>1, RolloutFacts, EverythingIsPlaced
  <2>2. \A o \in Manifest[cur][rev] : Holds(cur, o)
    BY <2>1 DEF Deployment, PlacedStays
  <2> QED BY <2>1, <2>2 DEF Earned, InPlace, Holds
<1> QED BY <1>3, <1>4, <1>5 DEF Deployment, Sendable

LEMMA HealthDeployment ==
    ASSUME StatusInv, Deployment, faults' = 0,
           SkipHealthCheck \/ CheckHealth \/ WaitForSet \/ WaitForSetFails \/ ReportHealth
    PROVE  Deployment'
<1>0. /\ pc \in HealthPcs /\ pc \in RolloutPcs /\ pc \in AttemptPcs /\ pc \in ShownPcs
      /\ pc \in LatePcs /\ TypeInv /\ obj \in MemoryRuns /\ cur \in Runs /\ pc # "idle"
      /\ obj.conds.ready = "Unknown" /\ rev \in Revisions
      /\ UNCHANGED <<cache, cluster, source, queue, cur, rev>>
  <2>1. /\ pc \in {"checkHealth", "waitForSet", "reportHealth"}
        /\ UNCHANGED <<cache, cluster, source, queue, cur, rev>>
    BY DEF SkipHealthCheck, CheckHealth, WaitForSet, WaitForSetFails, ReportHealth, environment
  <2>2. pc \in HealthPcs /\ pc \in RolloutPcs
    BY <2>1 DEF HealthPcs, RolloutPcs
  <2>3. pc \in AttemptPcs /\ pc \in ShownPcs /\ rev \in Revisions
    BY <2>2, RolloutFacts
  <2> QED BY <2>1, <2>2, <2>3, FaultlessAttempt
             DEF LatePcs, StatusInv, ProgressInv, Shown
<1>1. ASSUME NEW o \in MemoryRuns
      PROVE  /\ MarkReady(o, "False").conds.ready = "False"
             /\ Succeeded(o).conds.ready = "True" /\ Succeeded(o).status.lastApplied = rev
  <2>1. MarkReady(o, "True") \in MemoryRuns /\ MarkReady(o, "True").conds.ready = "True"
    BY MarkKeeps DEF KeepsClaim, ConditionStatus
  <2>2. \A m \in MemoryRuns : \A r : [m EXCEPT !.status.lastApplied = r].conds = m.conds
    BY DEF MemoryRuns, KCLRuns
  <2>3. Succeeded(o).conds = MarkReady(o, "True").conds
    BY <2>1, <2>2 DEF Succeeded
  <2>4. Succeeded(o).status.lastApplied = rev
    BY <1>0, UpdateSame
  <2>5. MarkReady(o, "False").conds.ready = "False"
    BY MarkKeeps DEF ConditionStatus
  <2> QED BY <2>1, <2>3, <2>4, <2>5
<1>2. /\ \A s \in ConditionStatus : MarkHealthy(obj, s) \in MemoryRuns
      /\ MarkHealthy(obj, "True").conds.ready = "Unknown"
      /\ Waiting(obj) \in MemoryRuns /\ Waiting(obj).conds.ready = "Unknown"
      /\ ~Refused(Waiting(obj)) /\ ~Refused(obj)
  BY <1>0, MarkKeeps, UpdateKeeps DEF KeepsClaim, Refused, ConditionStatus
<1>3. CASE SkipHealthCheck
  <2>1. /\ obj' = Succeeded(MarkHealthy(obj, "Absent")) /\ pc' = "finalizeStatus"
        /\ UNCHANGED <<store, before>>
    BY <1>3 DEF SkipHealthCheck, Succeed, Return, environment
  <2>2. InStep'
    BY <1>0, <2>1 DEF Deployment, InStep
  <2> QED BY <1>0, <1>1, <1>2, <2>1, <2>2, HealthEnds DEF ConditionStatus
<1>4. CASE WaitForSet
  <2>1. /\ obj' = MarkHealthy(obj, "True") /\ pc' = "reportHealth"
        /\ UNCHANGED <<store, before>>
    BY <1>4 DEF WaitForSet, Continue, environment
  <2>2. pc' \in ShownPcs /\ RanksBefore(pc)' = RanksBefore(pc)
    BY <1>0, <2>1 DEF ShownPcs, RolloutPcs, HealthPcs, RanksBefore
  <2>3. Placements' = Placements
    BY <1>0, <2>2, DeliveryGoesOn
  <2> QED BY <1>0, <1>2, <2>1, <2>3, QuietDeployment
<1>5. CASE WaitForSetFails
  <2>1. /\ obj' = MarkReady(MarkHealthy(obj, "False"), "False") /\ pc' = "finalizeStatus"
        /\ UNCHANGED <<store, before>>
    BY <1>5 DEF WaitForSetFails, Return, environment
  <2>2. InStep'
    BY <1>0, <2>1 DEF Deployment, InStep
  <2> QED BY <1>0, <1>1, <1>2, <2>1, <2>2, HealthEnds DEF ConditionStatus
<1>6. CASE CheckHealth
  <2>1. PICK lost : /\ Patch(Waiting(obj), lost)
                    /\ IF WriteFails(Waiting(obj), lost)
                       THEN Return(MarkReady(Waiting(obj), "False"), "error")
                       ELSE Continue(Waiting(obj), "waitForSet")
    BY <1>6 DEF CheckHealth
  <2>2. lost = {}
    BY <1>0, <2>1, WriteUnlost DEF Patch
  <2>3. /\ ~WriteFails(Waiting(obj), {}) /\ InStep'
        /\ \A k \in Runs \ {cur} : store'[k] = store[k]
    BY <1>0, <1>2, <2>1, <2>2, PatchDeployment DEF Deployment
  <2>4. obj' = Waiting(obj) /\ pc' = "waitForSet"
    BY <2>1, <2>2, <2>3 DEF Continue
  <2>5. pc' \in ShownPcs /\ RanksBefore(pc)' = RanksBefore(pc)
    BY <1>0, <2>4 DEF ShownPcs, RolloutPcs, HealthPcs, RanksBefore
  <2>6. Placements' = Placements
    BY <1>0, <2>5, DeliveryGoesOn
  <2>7. LatestRevision' /\ PromisesKept'
    BY <1>0, <2>3, <2>4, OthersKept DEF Deployment, Holds
  <2>8. PlacedStays'
    BY <1>0, <2>6 DEF Deployment, PlacedStays, Holds
  <2> QED BY <1>2, <2>3, <2>4, <2>7, <2>8 DEF Deployment, Sendable, Earned
<1>7. CASE ReportHealth
  <2>1. PICK lost : /\ Patch(obj, lost)
                    /\ IF WriteFails(obj, lost)
                       THEN Return(MarkReady(obj, "False"), "error") /\ UNCHANGED completed
                       ELSE Succeed(obj)
    BY <1>7 DEF ReportHealth
  <2>2. lost = {}
    BY <1>0, <2>1, WriteUnlost DEF Patch
  <2>3. InStep' /\ \A k \in Runs \ {cur} : store'[k] = store[k]
    BY <1>0, <1>2, <2>1, <2>2, PatchDeployment DEF Deployment
  <2>4. obj' \in {MarkReady(obj, "False"), Succeeded(obj)} /\ pc' = "finalizeStatus"
    BY <2>1 DEF Return, Succeed
  <2> QED BY <1>0, <1>1, <2>3, <2>4, HealthEnds
<1> QED BY <1>3, <1>4, <1>5, <1>6, <1>7

\* A Ready that is reported speaks of the generation in memory.
LEMMA ReadyIsStamped ==
    ASSUME NEW o \in MemoryRuns, o.conds.ready = "True"
    PROVE  FinalStatus(o).status.observedGeneration = o.generation
<1> DEFINE h == HandleRequest(o)
<1>1. h \in MemoryRuns /\ h.conds.ready = "True" /\ h.generation = o.generation
  BY DEF HandleRequest, MemoryRuns, KCLRuns, Statuses
<1>2. FinalStatus(o) = CASE h.conds.ready = "True" ->
                              [MarkReconciling(h, "Absent")
                                 EXCEPT !.status.observedGeneration = h.generation]
                         [] IsReadyFalse(h) /\ h.conds.reconciling # "Absent" ->
                              MarkReconciling(h, "ProgressingWithRetry")
                         [] OTHER -> h
  BY DEF FinalStatus
<1> HIDE DEF h
<1>3. MarkReconciling(h, "Absent") \in MemoryRuns
  BY <1>1, MarkType
<1>4. ASSUME NEW m \in MemoryRuns, NEW n
      PROVE  [m EXCEPT !.status.observedGeneration = n].status.observedGeneration = n
  BY DEF MemoryRuns, KCLRuns, Statuses
<1>5. [MarkReconciling(h, "Absent")
          EXCEPT !.status.observedGeneration = h.generation].status.observedGeneration
        = h.generation
  BY <1>3, <1>4
<1>6. FinalStatus(o) = [MarkReconciling(h, "Absent")
                            EXCEPT !.status.observedGeneration = h.generation]
  BY <1>1, <1>2 DEF IsReadyFalse
<1> QED BY <1>1, <1>5, <1>6

\* What the end of a reconcile makes the status of an active run promise was earned.
LEMMA FinalPromise ==
    ASSUME StatusInv, Deployment, pc = "finalizeStatus", Write(FinalStatus(obj), {}),
           UNCHANGED <<cluster, source>>, NEW k \in Runs, k = cur, Promises(k)'
    PROVE  InPlace(k, source[SourceOf[k]])'
<1> DEFINE f == FinalStatus(obj)
<1>0. /\ TypeInv /\ obj \in MemoryRuns /\ before \in StoredRuns
      /\ store \in [Runs -> StoredRuns] /\ store[k] \in StoredRuns
  BY DEF StatusInv, TypeInv, TypeOK
<1>1. /\ f \in MemoryRuns /\ SameIntent(obj, f) /\ f.conds.ready = obj.conds.ready
      /\ f.status.lastApplied = obj.status.lastApplied
      /\ obj.conds.ready = "True" => f.status.observedGeneration = obj.generation
  BY <1>0, FinalStatusKeeps, FinalStatusSame, ReadyIsStamped DEF SameRun
<1>2. store'[k] = Patched(store[k], before, f, {})
  BY <1>0 DEF Write
<1> HIDE DEF f
<1>3. /\ store'[k].exists /\ ~store'[k].deleting /\ ~store'[k].spec.suspend
      /\ store'[k].conds.ready = "True"
      /\ store'[k].status.observedGeneration = store'[k].generation
      /\ store'[k].status.lastApplied = source[SourceOf[k]]
  BY DEF Promises, Active
<1>4. SameIntent(store[k], store'[k])
  BY <1>0, <1>1, <1>2, <1>3, PatchedIntent, AbsentIsGone
<1>5. store[k].exists /\ ~store[k].deleting /\ ~store[k].spec.suspend
  BY <1>3, <1>4 DEF SameIntent
<1>6. store'[k].status = f.status /\ store'[k].conds = f.conds
  <2>1. store[k].status = before.status /\ store[k].conds = before.conds
    BY <1>5 DEF Deployment, InStep
  <2>2. ~Refused(f) /\ f \in StoredRuns
    <3>1. f.conds.ready # "Invalid"
      BY <1>1 DEF Deployment, Sendable
    <3> QED BY <1>1, <3>1, UnrefusedIsStored DEF Refused
  <2> QED BY <1>0, <1>2, <1>3, <2>1, <2>2, PatchInStep
<1>7. obj.conds.ready = "True" /\ obj.generation = store[k].generation
  BY <1>1, <1>3, <1>4, <1>6 DEF SameIntent
<1>8. obj.spec = store[k].spec /\ obj.deleting = store[k].deleting
  BY <1>5, <1>7 DEF StatusInv, GenerationInv, Precedes
<1>9. rev \in Revisions /\ obj.status.lastApplied = rev /\ InPlace(k, rev)
  BY <1>5, <1>7, <1>8 DEF Deployment, Earned
<1>10. source[SourceOf[k]] = rev
  BY <1>1, <1>3, <1>6, <1>9
<1> QED BY <1>9, <1>10 DEF InPlace, Holds

LEMMA EndDeployment ==
    ASSUME StatusInv, Deployment, faults' = 0,
           Finalize \/ FinalizeFails \/ FinalizeUnimpersonated \/ FinalizeStatus
    PROVE  Deployment'
<1>0. /\ TypeInv /\ obj \in MemoryRuns /\ ~Fault /\ cur \in Runs
      /\ store \in [Runs -> StoredRuns]
  BY NoFaultYet DEF StatusInv, TypeInv, TypeOK
<1>1. CASE FinalizeFails \/ FinalizeUnimpersonated
  BY <1>0, <1>1 DEF FinalizeFails, FinalizeUnimpersonated
<1>2. CASE Finalize
  <2>1. /\ cluster' = Deleted(Deletable(obj.status.inventory))
        /\ obj' = RemoveFinalizer(obj)
        /\ UNCHANGED <<store, cache, source, queue, cur, before>>
        /\ pc = "finalize" /\ pc' = "finalizeStatus" /\ pc # "idle"
    BY <1>2 DEF Finalize, Return, environment
  <2>2. pc' \notin ShownPcs /\ pc' \notin LatePcs
    BY <2>1, ShownArePcs DEF LatePcs
  <2>3. obj'.deleting /\ obj'.conds = obj.conds
    <3>1. obj.deleting
      BY <2>1 DEF StatusInv, FinalizerInv
    <3> QED BY <1>0, <2>1, <3>1 DEF RemoveFinalizer, MemoryRuns, KCLRuns
  <2>4. ASSUME NEW k \in Runs \ {cur}, Promises(k), k \notin queue,
               NEW o \in Manifest[k][source[SourceOf[k]]], Holds(k, o)
        PROVE  cluster'[o] \in {k, Drifted}
    <3>1. o \in Objects
      BY <2>4, ControllerAssumption DEF Promises, Active
    <3>2. o \notin Deletable(obj.status.inventory)
      BY <1>0, <2>4, ControllerAssumption DEF Deletable, Holds
    <3> QED BY <2>1, <2>4, <3>1, <3>2 DEF Deleted, Holds
  <2>5. LatestRevision' /\ PromisesKept'
    BY <2>1, <2>2, <2>4, OthersKept DEF Deployment
  <2>6. PlacedStays'
    BY <2>2, NothingPlaced DEF PlacedStays
  <2> QED BY <2>1, <2>3, <2>5, <2>6 DEF Deployment, InStep, Sendable, Earned
<1>3. CASE FinalizeStatus
  <2>1. PICK lost : Write(FinalStatus(obj), lost)
    BY <1>3 DEF FinalizeStatus
  <2>2. /\ lost = {} /\ pc = "finalizeStatus" /\ pc' = "idle"
        /\ UNCHANGED <<cache, cluster, source, queue>>
    BY <1>0, <1>3, <2>1, WriteUnlost DEF FinalizeStatus, Rest
  <2>3. \A k \in Runs \ {cur} : store'[k] = store[k]
    BY <1>0, <2>1 DEF Write
  <2>4. ASSUME NEW k \in Runs, Promises(k)', Waits(k)'
        PROVE  InPlace(k, source[SourceOf[k]])'
    <3>1. CASE k = cur
      BY <2>1, <2>2, <2>4, <3>1, FinalPromise
    <3>2. CASE k # cur
      <4>1. Promises(k) /\ Waits(k)
        BY <2>2, <2>3, <2>4, <3>2 DEF Promises, Active, Waits, InFlight
      <4>2. InPlace(k, source[SourceOf[k]])
        BY <4>1 DEF Deployment, PromisesKept
      <4> QED BY <2>2, <4>2 DEF InPlace, Holds
    <3> QED BY <3>1, <3>2
  <2>5. pc' \notin ShownPcs /\ pc' \notin LatePcs
    BY <2>2, ShownArePcs DEF LatePcs
  <2>6. PlacedStays'
    BY <2>5, NothingPlaced DEF PlacedStays
  <2>7. PromisesKept'
    BY <2>4 DEF PromisesKept
  <2> QED BY <2>2, <2>5, <2>6, <2>7 DEF Deployment, InStep, Sendable, Earned, LatestRevision
<1> QED BY <1>1, <1>2, <1>3

\* A fresh copy is in step; and a reconcile that starts with its end is one of a
\* run that is deleted, suspended, or has never been begun with.
LEMMA StartDeployment ==
    ASSUME StatusInv, Deployment, faults' = 0, NEW j \in Runs, Start(j)
    PROVE  Deployment'
<1>0. /\ TypeInv /\ ~Fault /\ cache[j] \in StoredRuns
      /\ StartEffect(j) /\ pc = "idle"
      /\ UNCHANGED <<store, cache, cluster, source>> /\ queue' = queue \ {j}
  <2>1. source' = source
    BY DEF Start, ReconcileNotFound, ReconcileDeleted, AddFinalizer, ReconcileSuspended,
           ReconcileActive, Load, Get
  <2> QED BY <2>1, NoFaultYet, EveryStartEffect DEF StatusInv, TypeInv, TypeOK, StartEffect
<1>1. cache[j] = store[j]
  BY <1>0 DEF Start, ReconcileNotFound, ReconcileDeleted, AddFinalizer, ReconcileSuspended,
              ReconcileActive, Load, Get
<1>2. /\ pc' \in {"idle", "finalize", "finalizeStatus", "getSource"}
      /\ pc' # "idle" => /\ cache[j].exists /\ cur' = j /\ before' = cache[j]
                         /\ obj'.conds = cache[j].conds
                         /\ obj'.deleting = cache[j].deleting /\ obj'.spec = cache[j].spec
      /\ pc' = "idle" => ~cache[j].exists
      /\ pc' = "finalizeStatus" => \/ cache[j].deleting \/ cache[j].spec.suspend
                                   \/ ~cache[j].deleting /\ ~cache[j].finalizer
  BY <1>0 DEF StartEffect, workerVars, RemoveFinalizer, StoredRuns, KCLRuns
<1>3. pc' \notin ShownPcs /\ pc' \notin LatePcs
  BY <1>2, ShownArePcs DEF LatePcs
<1>4. PlacedStays' /\ LatestRevision'
  BY <1>3, NothingPlaced DEF PlacedStays, LatestRevision
<1>5. InStep' /\ Sendable'
  <2>1. cache[j].conds.ready # "Invalid"
    BY <1>0 DEF StoredRuns, KCLRuns, Conditions, ConditionStatus
  <2> QED BY <1>0, <1>1, <1>2, <2>1 DEF InStep, Sendable
<1>6. Earned'
  <2>1. ~cache[j].deleting /\ ~cache[j].finalizer /\ cache[j].exists =>
            cache[j].conds.ready # "True"
    BY DEF StatusInv, ClaimInv, Unclaimed, New
  <2> QED BY <1>2, <2>1 DEF Earned
<1>7. ASSUME NEW k \in Runs, Promises(k)', Waits(k)'
      PROVE  InPlace(k, source[SourceOf[k]])'
  <2>1. Promises(k)
    BY <1>0, <1>7 DEF Promises, Active
  <2>2. k # j
    BY <1>0, <1>1, <1>2, <1>7, <2>1 DEF Waits, InFlight, Promises, Active
  <2>3. Waits(k)
    BY <1>0, <1>7, <2>2 DEF Waits, InFlight
  <2>4. InPlace(k, source[SourceOf[k]])
    BY <2>1, <2>3 DEF Deployment, PromisesKept
  <2> QED BY <1>0, <2>4 DEF InPlace, Holds
<1>8. PromisesKept'
  BY <1>7 DEF PromisesKept
<1> QED BY <1>4, <1>5, <1>6, <1>8 DEF Deployment

\* What is promised after a step of the environment was promised before it, or the
\* run is in the queue: an edit leaves the generation behind that was observed, and
\* a new revision requests every run that the controller knows of.
LEMMA EnvironmentPromises ==
    ASSUME StatusInv, AllRequested, Environment, ~Fault,
           NEW k \in Runs, Promises(k)', k \notin queue'
    PROVE  Promises(k) /\ k \notin queue /\ source'[SourceOf[k]] = source[SourceOf[k]]
<1>0. /\ TypeInv /\ store \in [Runs -> StoredRuns] /\ store[k] \in StoredRuns
      /\ SourceOf \in [Runs -> Sources] /\ source \in [Sources -> Artifacts]
      /\ store'[k].exists /\ ~store'[k].deleting
      /\ store'[k].status.observedGeneration = store'[k].generation
  BY ControllerAssumption DEF StatusInv, TypeInv, TypeOK, Promises, Active
<1>1. CASE \E s \in Sources, a \in Artifacts : Publish(s, a)
  <2>1. PICK s \in Sources, a \in Artifacts : Publish(s, a)
    BY <1>1
  <2>2. /\ UNCHANGED <<store, cache>> /\ queue \subseteq queue'
        /\ source' = [source EXCEPT ![s] = a]
        /\ a \in Revisions => Requests(s, a) \subseteq queue'
    BY <2>1 DEF Publish
  <2>3. SourceOf[k] # s
    <3> SUFFICES ASSUME SourceOf[k] = s PROVE FALSE
      OBVIOUS
    <3>1. a \in Revisions
      BY <1>0, <2>2 DEF Promises, Active
    <3>2. k \in Requests(s, a)
      <4>1. s \in GitRepositories
        BY DEF AllRequested
      <4>2. cache[k].exists
        BY <1>0, <2>2 DEF StatusInv, FinalizerInv, CacheBehind
      <4>3. k \in RequestsForRevisionChange(s, a)
        BY <4>2 DEF RequestsForRevisionChange, AllRequested
      <4> QED BY <3>1, <4>1, <4>3 DEF Requests
    <3> QED BY <2>2, <3>1, <3>2
  <2>4. source'[SourceOf[k]] = source[SourceOf[k]]
    BY <1>0, <2>2, <2>3
  <2> QED BY <2>2, <2>4 DEF Promises, Active
<1>2. CASE \E o \in Objects : Drift(o)
  BY <1>2 DEF Drift, Promises, Active
<1>3. CASE \E j \in Runs : CacheSync(j) \/ TimerFires(j)
  BY <1>3 DEF CacheSync, TimerFires, Promises, Active
<1>4. CASE \E j \in Runs : Delete(j)
  <2>1. PICK j \in Runs : Delete(j)
    BY <1>4
  <2>2. j # k
    BY <1>0, <2>1, AbsentIsGone DEF Delete, Terminating, StoredRuns, KCLRuns
  <2>3. store'[k] = store[k]
    BY <1>0, <2>1, <2>2 DEF Delete
  <2> QED BY <2>1, <2>3 DEF Delete, Promises, Active
<1>5. CASE \E j \in Runs : Request(j)
  <2>1. PICK j \in Runs : Request(j)
    BY <1>5
  <2>2. UNCHANGED <<cache, source, queue>>
    BY <2>1 DEF Request
  <2>3. /\ store'[k].exists = store[k].exists /\ store'[k].deleting = store[k].deleting
        /\ store'[k].spec = store[k].spec /\ store'[k].conds = store[k].conds
        /\ store'[k].status = store[k].status /\ store'[k].generation = store[k].generation
    BY <1>0, <2>1 DEF Request, StoredRuns, KCLRuns
  <2> QED BY <2>2, <2>3 DEF Promises, Active
<1>6. CASE \E j \in Runs, s \in SpecChoices : EditSpec(j, s)
  <2>1. PICK j \in Runs, s \in SpecChoices : EditSpec(j, s)
    BY <1>6
  <2>2. j # k
    <3> SUFFICES ASSUME j = k PROVE FALSE
      OBVIOUS
    <3>1. store[k].exists /\ store[k].status.observedGeneration <= store[k].generation
      BY <2>1 DEF EditSpec, StatusInv, ClaimInv, Claim
    <3>2. /\ store'[k].generation = store[k].generation + 1
          /\ store'[k].status = store[k].status
      BY <1>0, <2>1 DEF EditSpec, StoredRuns, KCLRuns
    <3>3. store[k].generation \in Nat /\ store[k].status.observedGeneration \in Int
      BY <1>0 DEF StoredRuns, KCLRuns, Statuses
    <3> QED BY <1>0, <3>1, <3>2, <3>3
  <2>3. store'[k] = store[k]
    BY <1>0, <2>1, <2>2 DEF EditSpec
  <2> QED BY <2>1, <2>3 DEF EditSpec, Promises, Active
<1> QED BY <1>1, <1>2, <1>3, <1>4, <1>5, <1>6 DEF Environment, Crash

\* The same of what is said of an attempt that its source has not overtaken.
LEMMA EnvironmentRevision ==
    ASSUME StatusInv, AllRequested, LatestRevision, Environment, ~Fault
    PROVE  LatestRevision'
<1>0. /\ SourceOf \in [Runs -> Sources] /\ source \in [Sources -> Artifacts] /\ cur \in Runs
      /\ cache \in [Runs -> StoredRuns]
      /\ UNCHANGED <<pc, cur, rev>>
  <2>1. UNCHANGED workerVars
    BY DEF Environment, CacheSync, TimerFires, Delete, Request, EditSpec, Publish, Drift, Crash
  <2> QED BY <2>1, ControllerAssumption DEF StatusInv, TypeInv, TypeOK, workerVars
<1>1. CASE \E s \in Sources, a \in Artifacts : Publish(s, a)
  <2>1. PICK s \in Sources, a \in Artifacts : Publish(s, a)
    BY <1>1
  <2>2. /\ cache' = cache /\ queue \subseteq queue'
        /\ source' = [source EXCEPT ![s] = a]
        /\ a \in Revisions => Requests(s, a) \subseteq queue'
    BY <2>1 DEF Publish
  <2>3. CASE SourceOf[cur] = s /\ a \in Revisions
    <3>1. \A k \in Runs : cache[k].exists => k \in RequestsForRevisionChange(s, a)
      BY DEF RequestsForRevisionChange, AllRequested
    <3>2. s \in GitRepositories
      BY <1>0, <2>3 DEF AllRequested
    <3>3. \A k \in Runs : cache[k].exists => k \in queue'
      BY <2>2, <2>3, <3>1, <3>2 DEF Requests
    <3> QED BY <2>2, <3>3 DEF LatestRevision
  <2>4. CASE SourceOf[cur] = s /\ a \notin Revisions
    <3>1. source'[SourceOf[cur]] \notin Revisions
      BY <1>0, <2>2, <2>4
    <3> QED BY <1>0, <3>1 DEF LatestRevision
  <2>5. CASE SourceOf[cur] # s
    <3>1. source'[SourceOf[cur]] = source[SourceOf[cur]]
      BY <1>0, <2>2, <2>5
    <3> QED BY <1>0, <2>2, <3>1 DEF LatestRevision
  <2> QED BY <2>3, <2>4, <2>5
<1>2. CASE \E j \in Runs : CacheSync(j)
  <2>1. PICK j \in Runs : CacheSync(j)
    BY <1>2
  <2>2. /\ cache' = [cache EXCEPT ![j] = store[j]] /\ source' = source
        /\ queue \subseteq queue'
    BY <2>1 DEF CacheSync
  <2>3. \A k \in Runs : cache'[k].exists => cache[k].exists
    BY <1>0, <2>2 DEF StatusInv, FinalizerInv, CacheBehind
  <2> QED BY <1>0, <2>2, <2>3 DEF LatestRevision
<1>3. CASE \/ \E j \in Runs : TimerFires(j) \/ Delete(j) \/ Request(j)
           \/ \E j \in Runs, s \in SpecChoices : EditSpec(j, s)
           \/ \E o \in Objects : Drift(o)
  <2>1. UNCHANGED <<cache, source>> /\ queue \subseteq queue'
    BY <1>3 DEF TimerFires, Delete, Request, EditSpec, Drift
  <2> QED BY <1>0, <2>1 DEF LatestRevision
<1> QED BY <1>1, <1>2, <1>3 DEF Environment, Crash

LEMMA EnvironmentDeployment ==
    ASSUME StatusInv, AllRequested, Deployment, faults' = 0, Environment
    PROVE  Deployment'
<1>0. /\ TypeInv /\ ~Fault /\ EnvironmentEffect /\ cur \in Runs
      /\ UNCHANGED workerVars
  <2>1. ~Fault
    BY NoFaultYet DEF StatusInv
  <2> QED BY <2>1, EveryEnvironmentEffect
          DEF StatusInv, TypeInv, TypeOK, Environment, CacheSync, TimerFires, Delete, Request,
              EditSpec, Publish, Drift, Crash
<1>1. UNCHANGED <<pc, cur, obj, before, rev>>
  BY <1>0 DEF workerVars
<1>2. \A k \in Runs, o \in Objects : Holds(k, o) => Holds(k, o)'
  BY <1>0 DEF EnvironmentEffect, Holds
<1>3. LatestRevision'
  BY <1>0, EnvironmentRevision DEF Deployment
<1>4. InStep' /\ Sendable'
  <2>1. \A k \in Runs : store'[k].exists =>
            /\ store[k].exists
            /\ store'[k].status = store[k].status /\ store'[k].conds = store[k].conds
    BY <1>0, AbsentIsGone DEF EnvironmentEffect, Undisturbed, Restarted, Edited
  <2> QED BY <1>0, <1>1, <2>1 DEF Deployment, InStep, Sendable
<1>5. PlacedStays'
  <2>1. Placements' = Placements
    BY <1>1 DEF Placements, Delivering, Desired
  <2>2. \A k \in Runs : Placements[k] \subseteq Objects
    <3>1. pc \in ShownPcs => rev \in Revisions
      BY ShownArePcs DEF StatusInv, TypeInv, RevisionKnown, ShownPcs
    <3> QED BY <1>0, <3>1, ControllerAssumption DEF Placements, Delivering, Desired, ShownPcs
  <2> QED BY <1>2, <2>1, <2>2 DEF Deployment, PlacedStays
<1>6. Earned'
  <2>1. rev \in Revisions => Manifest[cur][rev] \subseteq Objects
    BY <1>0, ControllerAssumption
  <2>2. rev \in Revisions /\ InPlace(cur, rev) => InPlace(cur, rev)'
    BY <1>0, <1>1, <1>2, <2>1 DEF InPlace, Holds
  <2> QED BY <1>1, <2>2 DEF Deployment, Earned
<1>7. ASSUME NEW k \in Runs, Promises(k)', Waits(k)'
      PROVE  InPlace(k, source[SourceOf[k]])'
  <2>1. Promises(k) /\ k \notin queue /\ source'[SourceOf[k]] = source[SourceOf[k]]
    BY <1>0, <1>7, EnvironmentPromises DEF Waits
  <2>2. Waits(k)
    BY <1>1, <1>7, <2>1 DEF Waits, InFlight
  <2>3. InPlace(k, source[SourceOf[k]])
    BY <2>1, <2>2 DEF Deployment, PromisesKept
  <2>4. Manifest[k][source[SourceOf[k]]] \subseteq Objects
    BY <2>1, ControllerAssumption DEF Promises, Active
  <2> QED BY <1>2, <2>1, <2>3, <2>4 DEF InPlace, Holds
<1>8. PromisesKept'
  BY <1>7 DEF PromisesKept
<1> QED BY <1>3, <1>4, <1>5, <1>6, <1>8 DEF Deployment

LEMMA DeployedStep ==
    ASSUME StatusInv, Exclusive, AllRequested, DeployedInv, [Next]_vars
    PROVE  DeployedInv'
<1> SUFFICES ASSUME faults' = 0 PROVE Deployment'
  BY DEF DeployedInv
<1>1. Deployment
  BY FaultsCount DEF DeployedInv, StatusInv
<1>2. CASE Step
  BY <1>1, <1>2, PrepareDeployment, ApplyDeployment, HealthDeployment, EndDeployment DEF Step
<1>3. CASE \E k \in Runs : Start(k)
  BY <1>1, <1>3, StartDeployment
<1>4. CASE Environment
  BY <1>1, <1>4, EnvironmentDeployment
<1>5. CASE UNCHANGED vars
  <2>1. Placements' = Placements
    BY <1>5 DEF vars, workerVars, Placements, Delivering, Desired
  <2>2. PlacedStays' /\ Earned' /\ PromisesKept'
    BY <1>1, <1>5, <2>1 DEF vars, workerVars, Deployment, PlacedStays, Earned, PromisesKept,
                            Promises, Active, Waits, InFlight, InPlace, Holds
  <2> QED BY <1>1, <1>5, <2>2 DEF vars, workerVars, Deployment, InStep, Sendable, LatestRevision
<1> QED BY <1>2, <1>3, <1>4, <1>5 DEF Next

\* As long as no call has failed, a status that says Ready, of the current
\* generation and at the revision that the source has now, is never a promise that
\* another run has broken, by pruning what it had before or by applying late, when
\* no two runs want the same object at the same time and every revision requests
\* every run.
THEOREM SettledIsDeployed ==
    ASSUME Exclusive, AllRequested
    PROVE  Spec => []SettledDeployed
<1>1. Init => DeployedInv
  BY DeployedInit
<1>2. StatusInv /\ DeployedInv /\ [Next]_vars => DeployedInv'
  BY DeployedStep
<1>3. DeployedInv => SettledDeployed
  <2> SUFFICES ASSUME Deployment, NEW k \in Runs, Active(k), ShowsSettled(k),
                      k \notin queue, ~InFlight(k),
                      NEW o \in Manifest[k][source[SourceOf[k]]]
               PROVE  cluster[o] \in {k, Drifted}
    BY DEF DeployedInv, SettledDeployed
  <2>1. Promises(k) /\ Waits(k)
    BY DEF Promises, Waits, ShowsSettled, IsReady
  <2>2. InPlace(k, source[SourceOf[k]])
    BY <2>1 DEF Deployment, PromisesKept
  <2> QED BY <2>2 DEF InPlace, Holds
<1> QED BY <1>1, <1>2, <1>3, StatusInvariant, PTL DEF Spec
=============================================================================
