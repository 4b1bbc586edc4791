---------------------------- MODULE KCLRunObject ----------------------------
(***************************************************************************)
(* A KCLRun as the API server stores it, and how the controller writes it  *)
(* back: the serial patcher and finalizeStatus.                            *)
(*                                                                         *)
(* The controller holds an in-memory copy of the object and, inside the    *)
(* patcher, the copy it last agreed on with the API server ("before").  A  *)
(* patch sends only what differs between the two, without a resource       *)
(* version, in up to three requests: the metadata (the finalizer), the     *)
(* status fields and the status conditions.  Each can fail on its own.     *)
(***************************************************************************)
EXTENDS Integers

CONSTANTS Objects,      \* the Kubernetes objects the KCL programs can produce
          Revisions,    \* revisions of source artifacts
          NoRevision    \* the empty string in a revision field

ASSUME NoRevisionAssumption == NoRevision \notin Revisions

-----------------------------------------------------------------------------
(* Types. *)

\* The fields of KCLRunSpec the control flow branches on; "wait" is spec.wait.
Specs == [suspend : BOOLEAN, prune : BOOLEAN, wait : BOOLEAN]

\* Status of a condition; "Absent" is a condition that is not in the list.
ConditionStatus == {"Absent", "Unknown", "False", "True"}

\* In memory Ready can also be "Invalid": status False, with a reason that the
\* CRD's pattern for reasons does not match.
Conditions(readyStatus) ==
    [ready       : readyStatus,
     reconciling : {"Absent", "Progressing", "ProgressingWithRetry"},
     healthy     : ConditionStatus]

Statuses ==
    [observedGeneration : Int,
     lastAttempted      : Revisions \cup {NoRevision},
     lastApplied        : Revisions \cup {NoRevision},
     inventory          : SUBSET Objects,
     handledAt          : Nat]

KCLRuns(readyStatus) ==
    [exists      : BOOLEAN,     \* FALSE: not (or no longer) in the API server
     deleting    : BOOLEAN,     \* metadata.deletionTimestamp is set
     finalizer   : BOOLEAN,     \* metadata.finalizers holds KCLRunFinalizer
     generation  : Nat,
     requestedAt : Nat,         \* the reconcile.fluxcd.io/requestedAt annotation
     spec        : Specs,
     status      : Statuses,
     conds       : Conditions(readyStatus)]

StoredRuns == KCLRuns(ConditionStatus)
MemoryRuns == KCLRuns(ConditionStatus \cup {"Invalid"})

\* A KCLRun somebody just created: the CRD defaults observedGeneration to -1.
Created(spec) ==
    [exists      |-> TRUE,
     deleting    |-> FALSE,
     finalizer   |-> FALSE,
     generation  |-> 1,
     requestedAt |-> 0,
     spec        |-> spec,
     status      |-> [observedGeneration |-> -1,
                      lastAttempted      |-> NoRevision,
                      lastApplied        |-> NoRevision,
                      inventory          |-> {},
                      handledAt          |-> 0],
     conds       |-> [ready       |-> "Absent",
                      reconciling |-> "Absent",
                      healthy     |-> "Absent"]]

\* What is left of a KCLRun in the API server, or in idle memory: nothing.
Absent ==
    [Created([suspend |-> FALSE, prune |-> FALSE, wait |-> FALSE])
        EXCEPT !.exists = FALSE, !.generation = 0]

-----------------------------------------------------------------------------
(* Conditions. *)

MarkReady(o, status)       == [o EXCEPT !.conds.ready = status]
MarkReconciling(o, reason) == [o EXCEPT !.conds.reconciling = reason]
MarkHealthy(o, status)     == [o EXCEPT !.conds.healthy = status]

IsReadyFalse(o) == o.conds.ready \in {"False", "Invalid"}

\* conditions.IsReady: Ready is True and the object is not reconciling.
IsReady(o) == o.conds.ready = "True" /\ o.conds.reconciling = "Absent"

-----------------------------------------------------------------------------
(* The serial patcher. *)

\* The requests that a patch from "before" to "after" consists of.
Changed(before, after) ==
    (IF after.finalizer # before.finalizer THEN {"meta"} ELSE {})
      \cup (IF after.status # before.status THEN {"status"} ELSE {})
      \cup (IF after.conds # before.conds THEN {"conds"} ELSE {})

\* A field of a merge patch: untouched unless the controller changed it.
Merge(stored, before, after) == IF after = before THEN stored ELSE after

MergeStatus(s, b, a) ==
    [observedGeneration |->
        Merge(s.observedGeneration, b.observedGeneration, a.observedGeneration),
     lastAttempted |-> Merge(s.lastAttempted, b.lastAttempted, a.lastAttempted),
     lastApplied   |-> Merge(s.lastApplied, b.lastApplied, a.lastApplied),
     inventory     |-> Merge(s.inventory, b.inventory, a.inventory),
     handledAt     |-> Merge(s.handledAt, b.handledAt, a.handledAt)]

MergeConditions(s, b, a) ==
    [ready       |-> Merge(s.ready, b.ready, a.ready),
     reconciling |-> Merge(s.reconciling, b.reconciling, a.reconciling),
     healthy     |-> Merge(s.healthy, b.healthy, a.healthy)]

\* (Mutant: nothing checks the pattern.)
RefusedNever(after) == FALSE

\* The API server refuses the conditions when a reason breaks the CRD's pattern.
Refused(after) == after.conds.ready = "Invalid"

\* The stored object after the patch, when the requests in "lost" fail.  An
\* object under deletion disappears with its last finalizer.
Patched(stored, before, after, lost) ==
    LET finalizer == IF "meta" \in lost
                     THEN stored.finalizer
                     ELSE Merge(stored.finalizer, before.finalizer, after.finalizer)
        status    == IF "status" \in lost
                     THEN stored.status
                     ELSE MergeStatus(stored.status, before.status, after.status)
        conds     == IF "conds" \in lost \/ Refused(after)
                     THEN stored.conds
                     ELSE MergeConditions(stored.conds, before.conds, after.conds)
    IN  CASE ~stored.exists                     -> stored
          [] stored.exists /\ stored.deleting /\ ~finalizer -> Absent
          [] OTHER -> [stored EXCEPT !.finalizer = finalizer,
                                     !.status    = status,
                                     !.conds     = conds]

\* Whether patch() returns an error.  A patch of nothing asks nothing of the API
\* server; NotFound is filtered out when the in-memory object is under deletion.
PatchFails(stored, before, after, lost) ==
    \/ lost # {}
    \/ Changed(before, after) # {} /\ ~stored.exists /\ ~after.deleting
    \/ Refused(after)

-----------------------------------------------------------------------------
(* finalizeStatus: what the deferred function does to the in-memory object  *)
(* before it patches it.                                                    *)

\* (Mutant: only a reconciliation that succeeded acknowledges the request.)
HandleRequestWhenReady(o) ==
    IF o.requestedAt > 0 /\ o.conds.ready = "True"
    THEN [o EXCEPT !.status.handledAt = o.requestedAt]
    ELSE o

HandleRequest(o) ==
    IF o.requestedAt > 0 THEN [o EXCEPT !.status.handledAt = o.requestedAt] ELSE o

FinalStatus(o) ==
    LET h == HandleRequest(o)
    IN  CASE h.conds.ready = "True" ->
                [MarkReconciling(h, "Absent")
                    EXCEPT !.status.observedGeneration = h.generation]
          [] IsReadyFalse(h) /\ h.conds.reconciling # "Absent" ->
                MarkReconciling(h, "ProgressingWithRetry")
          [] OTHER -> h
=============================================================================
