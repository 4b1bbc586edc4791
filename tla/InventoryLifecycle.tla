------------------------- MODULE InventoryLifecycle -------------------------
(***************************************************************************)
(* A KCLRun's inventory from attempt to attempt, entry by entry: how       *)
(* Reconcile, prune and finalize use the functions of Inventory while the  *)
(* program changes, changes the API version of an object or lists one      *)
(* twice, while the API server stops to serve a version, when an           *)
(* identifier cannot be read back, when users switch pruning off or        *)
(* suspend the run, and when the cached copy is behind.  The run has its   *)
(* finalizer.  KCLRunController has the rest of Reconcile, and sees sets   *)
(* of objects only.                                                        *)
(***************************************************************************)
EXTENDS Inventory

CONSTANTS Programs,      \* the change sets that the programs' manifests yield
          PruneDisabled, \* objects labelled or annotated prune: disabled
          MaxChanges     \* bounds edits and retired versions

ASSUME LifecycleAssumption ==
    /\ Programs \subseteq Inventories /\ Programs # {}
    /\ PruneDisabled \subseteq Ids
    /\ MaxChanges \in Nat

VARIABLES
    store,     \* the run in the API server
    cached,    \* the same as the manager's cache has it
    program,   \* what it would apply now
    live,      \* the objects in the cluster under its owner labels
    served,    \* the versions the API server serves
    phase,     \* where Reconcile is
    prunes,    \* spec.prune in the copy that the attempt works on
    old, new,  \* oldInventory and newInventory
    appliedAt, \* history: the versions each object was last applied at
    left,      \* history: the objects that a step let go of
    mishap,    \* history: a step failed, a process died, a copy was behind
    changes    \* counter that bounds the exploration

attemptVars == <<phase, prunes, old, new>>
clusterVars == <<live, served, appliedAt>>
vars == <<store, cached, program, clusterVars, attemptVars, left, mishap, changes>>

Copies == [exists    : BOOLEAN,
           deleting  : BOOLEAN,
           prune     : BOOLEAN,
           suspend   : BOOLEAN,
           inventory : Inventories]

TypeOK ==
    /\ store \in Copies /\ cached \in Copies
    /\ program \in Programs
    /\ live \subseteq Ids
    /\ served \subseteq Versions
    /\ phase \in {"idle", "collect", "report"}
    /\ prunes \in BOOLEAN
    /\ old \in Inventories /\ new \in Inventories
    /\ appliedAt \in [Ids -> SUBSET Versions]
    /\ left \subseteq Ids
    /\ mishap \in BOOLEAN
    /\ changes \in Nat
    /\ phase = "idle" => old = New /\ new = New

Init ==
    /\ store \in {[exists |-> TRUE, deleting |-> FALSE, prune |-> p,
                   suspend |-> FALSE, inventory |-> New] : p \in BOOLEAN}
    /\ cached = store
    /\ program \in Programs
    /\ live = {}
    /\ served = Versions
    /\ phase = "idle" /\ prunes = FALSE /\ old = New /\ new = New
    /\ appliedAt = [i \in Ids |-> {}]
    /\ left = {}
    /\ mishap = FALSE
    /\ changes = 0

-----------------------------------------------------------------------------
(* Reconcile: from the cached copy to the change set. *)

VersionsIn(inv, id) == {inv[i].version : i \in {j \in DOMAIN inv : inv[j].id = id}}

\* What the API server has of the program, which is all of it unless some version
\* is not served any more.
Appliable == {program[i].id : i \in {j \in DOMAIN program : program[j].version \in served}}

Attempting ==
    /\ phase = "idle"
    /\ cached.exists /\ ~cached.deleting /\ ~cached.suspend

Outdated == cached.inventory # store.inventory

\* What the copy does not list although the API server has it.
Unseen == IdsOf(store.inventory) \ IdsOf(cached.inventory)

PutInPlace(ids) ==
    /\ live' = live \cup ids
    /\ appliedAt' = [i \in Ids |-> IF i \in ids THEN VersionsIn(program, i) ELSE appliedAt[i]]

\* Snapshot the inventory, apply the manifests and list the change set.
Apply ==
    /\ Attempting
    /\ \A i \in DOMAIN program : program[i].version \in served
    /\ phase' = "collect"
    /\ prunes' = cached.prune
    /\ old' = cached.inventory
    /\ new' = AddChangeSet(New, program)
    /\ PutInPlace(IdsOf(program))
    /\ left' = (left \cup Unseen) \ IdsOf(program)
    /\ mishap' = (mishap \/ Outdated)
    /\ UNCHANGED <<store, cached, program, served, changes>>

\* Some objects are applied, and their change set is thrown away.
ApplyFails ==
    /\ Attempting
    /\ \E done \in SUBSET Appliable \ {{}} :
        /\ PutInPlace(done)
        /\ left' = left \cup (done \ IdsOf(store.inventory))
    /\ mishap' = TRUE
    /\ UNCHANGED <<store, cached, program, served, attemptVars, changes>>

-----------------------------------------------------------------------------
(* Reconcile: prune, and the patch of the status. *)

NamesOf(objects) == {o.id : o \in objects}

\* DeleteAll goes on after an error, one for every version nobody serves; the
\* exclusions spare what has pruning disabled.
Failures(objects) ==
    {failed \in SUBSET objects : {o \in objects : o.version \notin served} \subseteq failed}

DeleteAll(objects, failed) ==
    live' = live \ (NamesOf(objects \ failed) \ PruneDisabled)

\* (Mutant: the errors of DeleteAll are ignored.)
ErrsNever(failed) == FALSE

Errs(failed) == failed # {}

Diffed == phase = "collect" /\ Parses(old) /\ Parses(new)

\* The new inventory is in the status already when Diff and prune are called.
Collect ==
    /\ Diffed /\ prunes
    /\ \E failed \in Failures(Diff(old, new)) :
        /\ DeleteAll(Diff(old, new), failed)
        /\ left' = left \cup NamesOf(failed)
                        \cup (NamesOf(Diff(old, new)) \cap PruneDisabled)
        /\ mishap' = (mishap \/ Errs(failed))
    /\ phase' = "report"
    /\ UNCHANGED <<store, cached, program, served, appliedAt, prunes, old, new, changes>>

\* The spec says not to prune.
KeepStale ==
    /\ Diffed /\ ~prunes
    /\ phase' = "report"
    /\ left' = left \cup NamesOf(Diff(old, new))
    /\ UNCHANGED <<store, cached, program, clusterVars, prunes, old, new, mishap, changes>>

\* ListMetadata fails for the old inventory or for the new one.
DiffFails ==
    /\ phase = "collect" /\ ~(Parses(old) /\ Parses(new))
    /\ phase' = "report"
    /\ left' = left \cup (IdsOf(old) \ IdsOf(new))
    /\ mishap' = TRUE
    /\ UNCHANGED <<store, cached, program, clusterVars, prunes, old, new, changes>>

\* (Mutant: the snapshot outlives the attempt.)
IdleWithSnapshot == phase' = "idle" /\ prunes' = FALSE /\ UNCHANGED old /\ new' = New

Idle == phase' = "idle" /\ prunes' = FALSE /\ old' = New /\ new' = New

\* The patch sends the inventory only if it is not the one that was read.
Report ==
    /\ phase = "report"
    /\ store' = [store EXCEPT !.inventory = IF new = old THEN @ ELSE new]
    /\ left' = left \cup (IdsOf(new) \ IdsOf(store'.inventory))
    /\ Idle
    /\ UNCHANGED <<cached, program, clusterVars, mishap, changes>>

\* The process dies, or the patch of the status is lost.
Interrupt ==
    /\ phase # "idle"
    /\ Idle
    /\ left' = left \cup (IdsOf(new) \ IdsOf(store.inventory))
    /\ mishap' = TRUE
    /\ UNCHANGED <<store, cached, program, clusterVars, changes>>

-----------------------------------------------------------------------------
(* finalize, which works on the cached copy as well. *)

Finalizing == phase = "idle" /\ cached.exists /\ cached.deleting

PrunesOnDeletion(o) == o.prune /\ ~o.suspend /\ o.inventory # New

\* The error of List is ignored, and then there is nothing to delete.
ToFinalize(inv) == IF Parses(inv) THEN List(inv) ELSE {}

LetGo == store' = [store EXCEPT !.exists = FALSE]

\* The finalizer goes if nothing failed, the patch that removes it included.
Finalize ==
    /\ Finalizing
    /\ PrunesOnDeletion(cached)
    /\ \E failed \in Failures(ToFinalize(cached.inventory)) :
        /\ DeleteAll(ToFinalize(cached.inventory), failed)
        /\ \/ UNCHANGED store
           \/ ~Errs(failed) /\ LetGo
    /\ left' = left \cup Unseen
                    \cup (IdsOf(cached.inventory) \ NamesOf(ToFinalize(cached.inventory)))
                    \cup (IdsOf(cached.inventory) \cap PruneDisabled)
    /\ UNCHANGED <<cached, attemptVars, program, served, appliedAt, mishap, changes>>

\* The spec says not to prune, the run is suspended, or there is nothing to prune.
FinalizeUnpruned ==
    /\ Finalizing
    /\ ~PrunesOnDeletion(cached)
    /\ LetGo
    /\ left' = left \cup Unseen \cup IdsOf(cached.inventory)
    /\ UNCHANGED <<cached, attemptVars, program, clusterVars, mishap, changes>>

\* The account to impersonate is gone: nothing is pruned.
FinalizeUnimpersonated ==
    /\ Finalizing
    /\ PrunesOnDeletion(cached)
    /\ LetGo
    /\ left' = left \cup Unseen \cup IdsOf(cached.inventory)
    /\ UNCHANGED <<cached, attemptVars, program, clusterVars, mishap, changes>>

-----------------------------------------------------------------------------
(* The cache, users, and upgrades of the cluster. *)

CacheSync ==
    /\ cached # store
    /\ cached' = store
    /\ UNCHANGED <<store, attemptVars, program, clusterVars, left, mishap, changes>>

Change == changes < MaxChanges /\ changes' = changes + 1

EditProgram(p) ==
    /\ Change
    /\ store.exists
    /\ program' = p
    /\ UNCHANGED <<store, cached, attemptVars, clusterVars, left, mishap>>

\* Objects survive: the API server converts them to the versions that are left.
Retire(v) ==
    /\ Change
    /\ v \in served /\ served # {v}
    /\ served' = served \ {v}
    /\ UNCHANGED <<store, cached, attemptVars, program, live, appliedAt, left, mishap>>

EditSpec(prune, suspend) ==
    /\ Change
    /\ store.exists /\ ~store.deleting
    /\ store' = [store EXCEPT !.prune = prune, !.suspend = suspend]
    /\ UNCHANGED <<cached, attemptVars, program, clusterVars, left, mishap>>

Delete ==
    /\ store.exists /\ ~store.deleting
    /\ store' = [store EXCEPT !.deleting = TRUE]
    /\ UNCHANGED <<cached, attemptVars, program, clusterVars, left, mishap, changes>>

Next ==
    \/ Apply \/ ApplyFails
    \/ Collect \/ KeepStale \/ DiffFails
    \/ Report \/ Interrupt
    \/ Finalize \/ FinalizeUnpruned \/ FinalizeUnimpersonated
    \/ CacheSync \/ Delete
    \/ \E p \in Programs : EditProgram(p)
    \/ \E v \in Versions : Retire(v)
    \/ \E prune, suspend \in BOOLEAN : EditSpec(prune, suspend)

Spec == Init /\ [][Next]_vars

-----------------------------------------------------------------------------
(* Properties. *)

\* Garbage collection never takes an object of the revision just applied, also
\* when the program moved it to another API version or lists it twice.
KeepsDesired == phase # "idle" => IdsOf(new) \subseteq live

\* Every object of the run is in its stored inventory, or in the one of the attempt
\* under way, but for those that a step let go of: applied by a stage or an attempt
\* that was not reported, stale when their deletion failed, when they or the run are
\* not to be pruned or when Diff failed, or not in the outdated copy that an attempt
\* started from.  No edit of the program, no other failure and no retry leaves an
\* object behind unlisted, and one that is applied again is listed again.
Accounted == store.exists => live \subseteq IdsOf(store.inventory) \cup IdsOf(new) \cup left

\* As long as nothing went wrong, what is collected is named by a version it was
\* last applied at, so that a version retired since the object moved on does not
\* keep it from being deleted.
NamedAsApplied ==
    Diffed /\ ~mishap => \A o \in Diff(old, new) : o.version \in appliedAt[o.id]

\* "Prune managed resources if the object is under deletion" (Reconcile): a run
\* that is gone has left none of its objects behind, whatever its programs applied
\* and whichever deletions failed at first, but for those that were let go of
\* before (see Accounted) or are then: when the spec does not prune or is
\* suspended, when an object has pruning disabled, when the inventory cannot be
\* read back, when the account is gone, and what the cached copy does not list.
NothingLeft == ~store.exists => live \subseteq left
=============================================================================
