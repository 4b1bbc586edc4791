---------------------------- MODULE SourceWatch ----------------------------
(***************************************************************************)
(* How the KCLRuns learn of a new revision: the informer's copy of each    *)
(* source, which skips states and lags behind, the predicates that filter  *)
(* its events, the two map functions that turn an event into requests, and *)
(* the delayed re-queueing behind them.  Reconcile is two steps here: it   *)
(* takes up a run, attempts the revision it finds if nothing is in the     *)
(* way, and reports; KCLRunController has the rest.  The runs are neither  *)
(* suspended nor deleted.                                                  *)
(***************************************************************************)
EXTENDS Naturals, Sequences

CONSTANTS Runs, Sources,
          SourceOf,       \* SourceOf[k]: the source of run k
          Revisions,      \* each the sequence of its parts between "@"
          Missing,        \* there is no such source
          NoArtifact,     \* there is one, without an artifact
          Nothing,        \* the empty string, or no run
          MaxEdits, MaxFaults

Kinds == {"GitRepository", "OCIRepository"}

ASSUME WatchAssumption ==
    /\ SourceOf \in [Runs -> Sources]
    /\ \A r \in Revisions : Len(r) > 0
    /\ Missing \notin Revisions /\ NoArtifact \notin Revisions /\ Missing # NoArtifact
    /\ Nothing \notin Revisions \cup Runs
    /\ MaxEdits \in Nat /\ MaxFaults \in Nat

VARIABLES
    kind,      \* of each source
    named,     \* the runs whose sourceRef spells out its namespace
    source,    \* artifact and readiness of each source
    seen,      \* the same as the informer has them
    run,       \* last attempted revision and readiness of each run
    cached,    \* the same as the cache has them
    blocked,   \* the runs that checkDependencies holds back
    queue, timer,
    working,   \* the run being reconciled, or Nothing
    passed,    \* history: the artifact in the last event of a source that passed,
               \* or that the process listed when it started and queued every run
    had,       \* history: the artifacts a source had before the one it has
    taken,     \* history: what the informer had when a run was last taken up
    cut,       \* history: the runs whose last reconcile ended before the attempt
    edits, faults

watchVars == <<kind, named, source, seen, passed, had>>
workVars == <<run, working, timer, taken, cut>>
vars == <<watchVars, workVars, cached, blocked, queue, edits, faults>>

Artifacts == Revisions \cup {NoArtifact, Missing}

SourceStates == {x \in [artifact : Artifacts, ready : BOOLEAN] :
                    x.ready => x.artifact \in Revisions}

RunStates == [attempted : Revisions \cup {Nothing}, ready : BOOLEAN]

TypeOK ==
    /\ kind \in [Sources -> Kinds]
    /\ named \subseteq Runs
    /\ source \in [Sources -> SourceStates]
    /\ seen \in [Sources -> SourceStates]
    /\ run \in [Runs -> RunStates]
    /\ cached \in [Runs -> RunStates]
    /\ blocked \subseteq Runs
    /\ queue \subseteq Runs
    /\ timer \subseteq Runs
    /\ working \in Runs \cup {Nothing}
    /\ passed \in [Sources -> Artifacts]
    /\ had \in [Sources -> SUBSET Artifacts]
    /\ taken \in [Runs -> Artifacts \cup {Nothing}]
    /\ cut \subseteq Runs
    /\ edits \in Nat /\ faults \in Nat

Init ==
    /\ kind \in [Sources -> Kinds]
    /\ named \in SUBSET Runs
    /\ source \in [Sources -> {x \in SourceStates : x.artifact \in Revisions <=> x.ready}]
    /\ seen = source
    /\ run = [k \in Runs |-> [attempted |-> Nothing, ready |-> FALSE]]
    /\ cached = run
    /\ blocked \in SUBSET Runs
    /\ queue = Runs
    /\ timer = {}
    /\ working = Nothing
    /\ passed = [s \in Sources |-> source[s].artifact]
    /\ had = [s \in Sources |-> {}]
    /\ taken = [k \in Runs |-> Nothing]
    /\ cut = {}
    /\ edits = 0 /\ faults = 0

-----------------------------------------------------------------------------
(* The predicates. *)

NewArtifact(old, new) == old.artifact = NoArtifact /\ new.artifact \in Revisions

NewRevision(old, new) ==
    /\ old.artifact \in Revisions /\ new.artifact \in Revisions
    /\ old.artifact # new.artifact

\* (Mutant: an artifact that was away and is back is no change.)
SourceRevisionChangeOnly(old, new) == NewRevision(old, new)

\* SourceRevisionChangePredicate, on updates; it drops Create and Delete.
SourceRevisionChange(old, new) ==
    /\ old.artifact # Missing /\ new.artifact # Missing
    /\ \/ NewArtifact(old, new)
       \/ NewRevision(old, new)
       \/ ~old.ready /\ new.ready

\* The predicate of source-watcher: it lets sources pass that are created with
\* an artifact.
GitRepositoryRevisionChange(old, new) ==
    \/ old.artifact = Missing /\ new.artifact \in Revisions
    \/ NewArtifact(old, new)
    \/ NewRevision(old, new)

Passes(s, old, new) == IF kind[s] = "OCIRepository"
                       THEN SourceRevisionChange(old, new)
                       ELSE GitRepositoryRevisionChange(old, new)

-----------------------------------------------------------------------------
(* The map functions. *)

\* (Mutant: whatever was attempted last, a run that is ready is left alone.)
RequestsForRunsNotReady(s, revision) == {k \in Runs : ~cached[k].ready}

\* All runs, but for those of s that are ready and attempted the revision last.
RequestsForRevisionChange(s, revision) ==
    {k \in Runs : ~ /\ cached[k].ready
                    /\ SourceOf[k] = s /\ k \in named
                    /\ cached[k].attempted = revision}

\* The fields SetupWithManager has KCLRuns indexed by, and what for.
IndexedKind == [key \in {".metadata.ociRepository", ".metadata.gitRepository"} |->
    IF key = ".metadata.ociRepository" THEN "OCIRepository" ELSE "GitRepository"]

\* indexBy: the runs that are listed under source s.
ListBy(key, s) == {k \in Runs : SourceOf[k] = s /\ kind[s] = IndexedKind[key]}

\* extractDigest: "expects a revision in the <version>@<algorithm>:<digest> format".
ExtractDigest(revision) == CASE Len(revision) = 1 -> revision[1]
                             [] Len(revision) = 2 -> revision[2]
                             [] OTHER             -> Nothing

\* "This is only set for OCIRepository sources" (KCLRunStatus): by nothing.
LastAttemptedRevisionDigest(k) == Nothing

\* A list by a field that is not indexed fails.
RequestsForOCIRepositoryChange(s, revision) ==
    IF ".metadata.source" \in DOMAIN IndexedKind
    THEN {k \in ListBy(".metadata.source", s) :
            /\ ExtractDigest(revision) # Nothing
            /\ ExtractDigest(revision) # LastAttemptedRevisionDigest(k)}
    ELSE {}

Requests(s, artifact) ==
    CASE artifact \notin Revisions      -> {}
      [] artifact \in Revisions /\ kind[s] = "GitRepository" ->
            RequestsForRevisionChange(s, artifact)
      [] OTHER -> RequestsForOCIRepositoryChange(s, artifact)

\* EnqueueRequestsFromMapFunc maps both objects of an update.
Mapped(s, old, new) ==
    Requests(s, new.artifact)
      \cup IF old.artifact = Missing THEN {} ELSE Requests(s, old.artifact)

\* The informer catches up, whatever it skipped, and the event is handled.
Watch(s) ==
    /\ seen[s] # source[s]
    /\ seen' = [seen EXCEPT ![s] = source[s]]
    /\ IF Passes(s, seen[s], source[s])
       THEN /\ queue' = queue \cup Mapped(s, seen[s], source[s])
            /\ passed' = [passed EXCEPT ![s] = source[s].artifact]
       ELSE UNCHANGED <<queue, passed>>
    /\ UNCHANGED <<kind, named, source, had, workVars, cached, blocked, edits, faults>>

-----------------------------------------------------------------------------
(* Reconcile, the cache and the timers. *)

\* (Mutant: the test for an artifact is missing.)
HasArtifactUntested(s) == TRUE

HasArtifact(s) == seen[s].artifact \in Revisions

\* Reconcile reads the source where the map function's event came from.
TakeUp(k) ==
    /\ working = Nothing
    /\ k \in queue
    /\ queue' = queue \ {k}
    /\ taken' = [taken EXCEPT ![k] = seen[SourceOf[k]].artifact]
    /\ UNCHANGED <<watchVars, cached, blocked, edits>>

\* Nothing is in the way of an attempt.
MayAttempt(k) == HasArtifact(SourceOf[k]) /\ k \notin blocked

\* A return before the attempt: after an interval, or the back-off of an error.
Return(k) ==
    /\ timer' = timer \cup {k}
    /\ cut' = cut \cup {k}
    /\ UNCHANGED working

Attempt(k) ==
    /\ TakeUp(k)
    /\ IF MayAttempt(k)
       THEN /\ run' = [run EXCEPT ![k] = [attempted |-> seen[SourceOf[k]].artifact,
                                          ready |-> FALSE]]
            /\ working' = k
            /\ cut' = cut \ {k}
            /\ UNCHANGED timer
       ELSE /\ run' = [run EXCEPT ![k].ready = FALSE]
            /\ Return(k)
    /\ UNCHANGED faults

\* What may be stored when the source cannot be read, or a request of the patches
\* of the status fails.
PartlyStored(k) ==
    [attempted : {run[k].attempted}
                   \cup IF MayAttempt(k) THEN {seen[SourceOf[k]].artifact} ELSE {},
     ready : {run[k].ready, FALSE}]

AttemptFails(k) ==
    /\ faults < MaxFaults
    /\ faults' = faults + 1
    /\ TakeUp(k)
    /\ \E state \in PartlyStored(k) : run' = [run EXCEPT ![k] = state]
    /\ Return(k)

\* (Mutant: an attempt that succeeds schedules nothing.)
ScheduleWhenFailed(ready) == IF ready THEN timer ELSE timer \cup {working}

\* After the interval, or the back-off of an error.
Schedule(ready) == timer \cup {working}

Report(ready) ==
    /\ working # Nothing
    /\ run' = [run EXCEPT ![working].ready = ready]
    /\ timer' = Schedule(ready)
    /\ working' = Nothing
    /\ UNCHANGED <<watchVars, cached, blocked, queue, edits, taken, cut>>

Finish == Report(TRUE) /\ UNCHANGED faults

Fail == Report(FALSE) /\ faults < MaxFaults /\ faults' = faults + 1

Sync(k) ==
    /\ cached[k] # run[k]
    /\ cached' = [cached EXCEPT ![k] = run[k]]
    /\ UNCHANGED <<watchVars, workVars, blocked, queue, edits, faults>>

TimerFires(k) ==
    /\ k \in timer
    /\ timer' = timer \ {k}
    /\ queue' = queue \cup {k}
    /\ UNCHANGED <<watchVars, run, working, taken, cut, cached, blocked, edits, faults>>

\* The next process lists everything; the runs' Create events are queued.
Restart ==
    /\ faults < MaxFaults
    /\ faults' = faults + 1
    /\ seen' = source
    /\ passed' = [s \in Sources |-> source[s].artifact]
    /\ cached' = run
    /\ queue' = Runs
    /\ timer' = {}
    /\ working' = Nothing
    /\ UNCHANGED <<kind, named, source, had, run, blocked, taken, cut, edits>>

-----------------------------------------------------------------------------
(* The source-controller, users who create and delete sources, and what the runs *)
(* depend on. *)

SourceChanges(s, state) ==
    /\ edits < MaxEdits
    /\ edits' = edits + 1
    /\ state # source[s]
    /\ source' = [source EXCEPT ![s] = state]
    /\ had' = [had EXCEPT ![s] = @ \cup {source[s].artifact}]
    /\ UNCHANGED <<kind, named, seen, passed, workVars, cached, blocked, queue, faults>>

\* What a run depends on becomes ready, or is so no longer.
DependenciesChange(k) ==
    /\ edits < MaxEdits
    /\ edits' = edits + 1
    /\ blocked' = IF k \in blocked THEN blocked \ {k} ELSE blocked \cup {k}
    /\ UNCHANGED <<watchVars, workVars, cached, queue, faults>>

Next ==
    \/ \E s \in Sources : Watch(s) \/ \E x \in SourceStates : SourceChanges(s, x)
    \/ \E k \in Runs : \/ Attempt(k) \/ AttemptFails(k)
                       \/ Sync(k) \/ TimerFires(k) \/ DependenciesChange(k)
    \/ Finish \/ Fail \/ Restart

Spec == Init /\ [][Next]_vars

\* Informers deliver, the worker goes on, the queue is first in, first out.
FairSpec ==
    /\ Spec
    /\ WF_vars(Finish)
    /\ \A s \in Sources : WF_vars(Watch(s))
    /\ \A k \in Runs : SF_vars(Attempt(k)) /\ WF_vars(Sync(k)) /\ WF_vars(TimerFires(k))

-----------------------------------------------------------------------------
(* Properties. *)

Idle(k) == k \notin queue /\ working # k

\* Between two looks at it no revision of a GitRepository is overlooked: once the
\* informer is up to date and nothing is queued, each of its runs was last taken up
\* with the revision it has, and has attempted it unless that reconcile returned
\* before (no such read, an unready dependency, a failed patch), to be repeated.
\* Only a run whose sourceRef spells out the namespace may overlook one, and only
\* one that the source had before it was without an artifact for a while: it is
\* then left alone on account of a cached status that an attempt has overtaken.
RevisionsNoticed ==
    \A k \in Runs :
        LET s == SourceOf[k]
        IN  /\ kind[s] = "GitRepository"
            /\ seen[s] = source[s] /\ source[s].artifact \in Revisions
            /\ Idle(k)
            => \/ /\ taken[k] = source[s].artifact
                  /\ run[k].attempted = source[s].artifact \/ k \in cut \cap timer
               \/ /\ k \in named
                  /\ source[s].artifact \in had[s]
                  /\ had[s] \cap {NoArtifact, Missing} # {}

\* Whatever states the informer skips, and whether or not a source is without an
\* artifact in between, a revision that it comes to know has passed the
\* predicate, unless the source was created with it and is not watched for that.
PredicatesDetect ==
    \A s \in Sources :
        seen[s].artifact \in Revisions =>
            \/ passed[s] = seen[s].artifact
            \/ kind[s] = "OCIRepository" /\ Missing \in had[s]

\* A source that comes to rest at a revision has all its runs attempt it whose
\* dependencies come to be ready for good, even if its watch requests nothing, or
\* asks for them while they are attempted: attempts are scheduled for ever.
CatchesUp ==
    \A k \in Runs, r \in Revisions :
        <>[](source[SourceOf[k]].artifact = r /\ k \notin blocked)
            => <>[](run[k].attempted = r)
=============================================================================
