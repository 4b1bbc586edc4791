--------------------------- MODULE KCLRunOwnership ---------------------------
(***************************************************************************)
(* Who keeps track of what was applied: the controller of KCLRunController *)
(* with a history of the runs for which a step lost track of an object.    *)
(***************************************************************************)
EXTENDS KCLRunDelivery

VARIABLE lapsed   \* history: the runs for which such a step was taken

\* What has been applied for the run under way and is in no inventory yet.
Placing == IF pc \in {"applyClasses", "applyResources", "prune"} THEN Desired ELSE {}

\* A stage is applied in part, or not ready in time, and its change set is lost.
StageAbandoned == ApplyStageFails

\* What is stale is not collected: some deletion fails, or the spec does not prune.
StaleLeft ==
    \/ PruneFails
    \/ Prune /\ ~obj.spec.prune /\ Deletable(Stale(obj.status.inventory, Desired)) # {}

\* The process dies, or the last patch loses its status, before the API server has
\* the inventory of the attempt.
InventoryLost ==
    /\ pc # "idle" /\ pc' = "idle"
    /\ \/ Placing # {}
       \/ store'[cur].exists /\ store'[cur].status.inventory # obj.status.inventory

\* Reconcile starts from a cached copy without the inventory stored last.
InventoryStale ==
    \E k \in Runs :
        /\ Start(k) /\ cur' = k
        /\ cache[k].status.inventory # store[k].status.inventory

\* A deleted run is let go unpruned: its spec, as cached, says so, or the account to
\* impersonate is gone.
LeftUnpruned ==
    \/ FinalizeUnimpersonated
    \/ \E k \in Runs : ReconcileDeleted(k) /\ (~cache[k].spec.prune \/ cache[k].spec.suspend)

Lapse == StageAbandoned \/ StaleLeft \/ InventoryLost \/ InventoryStale \/ LeftUnpruned

\* The run a step of the worker is taken for.
Concerned == IF pc = "idle" THEN cur' ELSE cur

OwnershipNext ==
    /\ Next
    /\ lapsed' = IF Lapse THEN lapsed \cup {Concerned} ELSE lapsed

OwnershipSpec == Init /\ lapsed = {} /\ [][OwnershipNext]_<<vars, lapsed>>

-----------------------------------------------------------------------------
(* Properties. *)

\* Between reconciles every object that carries a run's owner labels is in the
\* run's stored inventory, and the run is still there to prune it one day, unless
\* one of the five lapses above befell that run.  Nothing else leaves an object that
\* nobody will ever collect: no order of edits, suspensions, publications and
\* deletions, no take-over between runs nor a lapse of another run, no other failing
\* call, no lost request, no crash at another time, and no copy that is behind in
\* its spec, its conditions or its deletion.
NoOrphans ==
    \A o \in Objects \ PruneDisabled, k \in Runs \ lapsed :
        cluster[o] = k /\ ~InFlight(k) =>
            store[k].exists /\ o \in store[k].status.inventory
=============================================================================
