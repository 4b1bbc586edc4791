-------------------------- MODULE KCLRunProperties --------------------------
(***************************************************************************)
(* What the KCLRun controller promises: the safety and liveness properties *)
(* that hold, and what the repository says of it that does not.            *)
(***************************************************************************)
EXTENDS KCLRunController

\* The worker is in the middle of an attempt to roll out a revision.
AttemptPcs == Pcs \ {"idle", "finalize", "finalizeStatus"}

InFlight(k) == pc # "idle" /\ cur = k

\* Run k was rolled out in full at revision r, at one generation or another.
RolledOut(k, r) == \E attempt \in completed[k] : attempt[2] = r

-----------------------------------------------------------------------------
(* Safety. *)

\* Nothing is applied for a run whose deletion the controller could miss: while
\* an attempt is under way the run is in the API server and has the finalizer,
\* however old the cached copy the attempt started from ("to avoid the race
\* condition between init and delete", Reconcile).
FinalizerBeforeApply ==
    pc \in AttemptPcs => store[cur].exists /\ store[cur].finalizer

\* A run that shows Ready for its current generation was rolled out in full at
\* that generation: a failed, lost or interrupted attempt, a stale read or a
\* restart never leaves Ready=True behind for a spec nobody rolled out.
ReadyIsCurrent ==
    \A k \in Runs :
        LET o == store[k]
        IN  /\ o.exists
            /\ ~o.deleting
            /\ ~o.spec.suspend
            /\ o.conds.ready = "True"
            /\ o.status.observedGeneration = o.generation
            => \E r \in Revisions : <<o.generation, r>> \in completed[k]

\* lastAppliedRevision, which dependents read, only ever names a revision whose
\* roll-out ended well: applied, pruned and, if asked for, healthy.
LastAppliedSound ==
    \A k \in Runs :
        store[k].status.lastApplied # NoRevision =>
            RolledOut(k, store[k].status.lastApplied)

\* While objects are being applied, pruned or waited for, the API server already
\* shows Ready=Unknown and the revision of this attempt: nobody who reads the
\* status takes the half-rolled-out revision for the previous, ready one, although
\* requests of the patch may have been lost.  (Of an attempt that started from an
\* up-to-date copy of the run: one that started from an older copy patches only what
\* differs from that.)
ProgressReported ==
    pc \in RolloutPcs /\ fresh =>
        /\ store[cur].conds.ready = "Unknown"
        /\ store[cur].status.lastAttempted = rev

\* A run attempts a revision only after every run it depends on that has the
\* same source was rolled out in full at that revision.
DependencyOrder ==
    \A k \in Runs :
        LET r == store[k].status.lastAttempted
        IN  r # NoRevision =>
                \A d \in DependsOn[k] :
                    SourceOf[d] = SourceOf[k] => RolledOut(d, r)

Active(k) ==
    /\ store[k].exists
    /\ ~store[k].deleting
    /\ ~store[k].spec.suspend
    /\ source[SourceOf[k]] \in Revisions

\* The status of run k says that all there is to roll out is rolled out: the
\* current generation, at the revision that its source has now.
ShowsSettled(k) ==
    /\ IsReady(store[k])
    /\ store[k].status.observedGeneration = store[k].generation
    /\ store[k].status.lastApplied = source[SourceOf[k]]

\* When an active run shows that it is settled, and neither waits in the queue
\* nor is being reconciled, then every object of that revision is its own, unless
\* a third party deleted it: what another run that had the same object before
\* prunes, or applies late, never leaves a hole behind a status that says Ready.
\* (While no call has failed, no run was read from a cached copy that is behind, and
\* the process did not die; and when every revision requests every run, as those of
\* GitRepositories do of runs whose sourceRef leaves out the namespace.)
SettledDeployed ==
    faults = 0 =>
        \A k \in Runs :
            Active(k) /\ ShowsSettled(k) /\ k \notin queue /\ ~InFlight(k) =>
                \A o \in Manifest[k][source[SourceOf[k]]] : cluster[o] \in {k, Drifted}

\* The queue, its delayed items, the worker, or a watch event still to come.
Scheduled(k) ==
    \/ k \in queue \cup timer
    \/ InFlight(k)
    \/ Noticed(cache[k], store[k])

\* No run that there is something to do for drops out of the schedule: whichever
\* way a reconcile ends, whatever was lost, stale or suspended on the way, an
\* active run comes up again, and so does a deleted one until it is gone.
NeverForgotten ==
    \A k \in Runs :
        /\ store[k].exists
        /\ store[k].deleting \/ ~store[k].spec.suspend
        => Scheduled(k)

-----------------------------------------------------------------------------
(* Action properties. *)

\* A run with pruning enabled leaves the API server only when nothing that it
\* had in its inventory is still there under its owner labels, the objects that
\* opt out of pruning apart; an attempt to prune that fails keeps the finalizer.
\* (Unless the service account is gone, or the reconciler acted on a stale copy.)
DeletionPrunes ==
    [][\A k \in Runs :
        /\ store[k].exists /\ ~store'[k].exists
        /\ store[k].finalizer
        /\ store[k].spec.prune /\ ~store[k].spec.suspend
        /\ fresh /\ result # "noAccount"
        => \A o \in store[k].status.inventory \ PruneDisabled : cluster[o] # k]_vars

-----------------------------------------------------------------------------
(* Liveness. *)

\* Its dependencies are active with it (chains of one link).
Sustained(k) == \A d \in DependsOn[k] \cup {k} : Active(d)

Settled(k) ==
    /\ ShowsSettled(k)
    /\ \A o \in Manifest[k][source[SourceOf[k]]] : cluster[o] = k

\* A run that stays active, whose source keeps an artifact, is ready at the
\* current generation and revision with all its objects in place again and
\* again: failures are retried, drift is undone, a run whose health checks name
\* itself does not wait on itself, and a dependent gets past its dependencies: it
\* never looks at one in the middle of an attempt, since there is one worker.
Converges == \A k \in Runs : <>[]Sustained(k) => []<>Settled(k)

\* A requested reconciliation is acknowledged in the status, suspended or not,
\* whether the attempt succeeds or not, unless the run goes away.
RequestHandled ==
    \A k \in Runs :
        []<>(store[k].exists => store[k].status.handledAt = store[k].requestedAt)

\* A deleted run goes away: its finalizer is removed after all retries.
DeletionCompletes ==
    \A k \in Runs : store[k].deleting ~> ~store[k].exists

-----------------------------------------------------------------------------
(* What the repository says and the code does not do. *)

\* "Set the Reconciling reason to ProgressingWithRetry if the reconciliation has
\* failed" (finalizeStatus), of an attempt that has not got its artifact or its
\* arguments, when no call to the API server is lost.
FailuresReported ==
    [][pc = "finalizeStatus" /\ pc' = "idle" /\ faults' = faults
         /\ result \in {"fetchError", "argumentError"}
         => store'[cur].conds.reconciling = "ProgressingWithRetry"]_vars

\* Runs are indexed "by the OCIRepository references they (may) point at"
\* (SetupWithManager), so that a new revision of one requests their reconciliation.
OCIRevisionRequests ==
    [][\A s \in Sources \ GitRepositories, k \in Runs :
        /\ source'[s] # source[s] /\ source'[s] \in Revisions
        /\ SourceOf[k] = s
        /\ cache[k].exists /\ ~InFlight(k)
        /\ cache[k].status.lastAttempted # source'[s]
        => k \in queue']_vars

\* "Prune managed resources if the object is under deletion" (Reconcile): no
\* object in the inventory that the API server holds is left behind, also when
\* the copy that finalize works on is an older one.
DeletedRunsArePruned ==
    [][\A k \in Runs :
        /\ store[k].exists /\ ~store'[k].exists
        /\ store[k].spec.prune /\ ~store[k].spec.suspend
        /\ result # "noAccount"
        => \A o \in store[k].status.inventory \ PruneDisabled : cluster[o] # k]_vars
=============================================================================
