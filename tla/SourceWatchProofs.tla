------------------------- MODULE SourceWatchProofs -------------------------
(***************************************************************************)
(* The watches of the sources: for any runs, sources and revisions, and    *)
(* whatever states the informers skip, the predicates let each revision    *)
(* pass that is new, and no revision of a GitRepository is overlooked but  *)
(* in the one way that the property names, whichever attempts are held     *)
(* back or fail.                                                           *)
(*                                                                         *)
(* The argument is about what a source was before: a revision that a run   *)
(* attempted, or the informer saw, is the one that the informer has, or    *)
(* one that the source had.                                                *)
(***************************************************************************)
EXTENDS SourceWatch, TLAPS

\* The informer has what the source has, or had.
SeenIsPast ==
    \A s \in Sources : seen[s].artifact \in had[s] \cup {source[s].artifact}

\* What a run attempted last, the informer has or the source had: so it is for the
\* status, and for the cached one.
AttemptedIsPast ==
    \A k \in Runs :
        {run[k].attempted, cached[k].attempted}
            \subseteq {Nothing, seen[SourceOf[k]].artifact} \cup had[SourceOf[k]]

\* A run's source is back at a revision that it had, and was away meanwhile.
LeftAlone(k) ==
    LET s == SourceOf[k]
    IN  /\ k \in named
        /\ seen[s].artifact \in had[s]
        /\ had[s] \cap {NoArtifact, Missing} # {}

\* Run k was last taken up with this revision, and has attempted it or returned.
TakenUpWith(k, revision) ==
    taken[k] = revision /\ (run[k].attempted = revision \/ k \in cut)

\* What returns before an attempt is repeated.
CutIsRepeated == \A k \in cut : k \in timer \cup queue

\* RevisionsNoticed, for what the informer has, be it up to date or not, and
\* for a run that is being reconciled as well.
NoticedSoFar ==
    \A k \in Runs :
        /\ kind[SourceOf[k]] = "GitRepository"
        /\ seen[SourceOf[k]].artifact \in Revisions
        /\ k \notin queue
        => TakenUpWith(k, seen[SourceOf[k]].artifact) \/ LeftAlone(k)

WatchInv ==
    /\ TypeOK
    /\ SeenIsPast
    /\ AttemptedIsPast
    /\ PredicatesDetect
    /\ CutIsRepeated
    /\ NoticedSoFar

-----------------------------------------------------------------------------
(* The map functions and the predicates. *)

\* What is requested are runs.
LEMMA RequestsAreRuns ==
    ASSUME NEW s, NEW old, NEW new
    PROVE  Mapped(s, old, new) \subseteq Runs
<1>1. \A artifact : Requests(s, artifact) \subseteq Runs
    BY DEF Requests, RequestsForRevisionChange, RequestsForOCIRepositoryChange, ListBy
<1>. QED
    BY <1>1 DEF Mapped

\* A GitRepository's change of artifact passes, if there is one now.
LEMMA ChangePasses ==
    ASSUME NEW s \in Sources, NEW old \in SourceStates, NEW new \in SourceStates,
           kind[s] = "GitRepository", new.artifact \in Revisions,
           old.artifact # new.artifact
    PROVE  Passes(s, old, new)
<1>1. old.artifact \in Artifacts
    BY DEF SourceStates
<1>. QED
    BY <1>1 DEF Passes, GitRepositoryRevisionChange, NewArtifact, NewRevision, Artifacts

\* An OCIRepository's does too, if there was one before, with an artifact or without.
LEMMA UpdatePasses ==
    ASSUME NEW s \in Sources, NEW old \in SourceStates, NEW new \in SourceStates,
           kind[s] = "OCIRepository", new.artifact \in Revisions,
           old.artifact # new.artifact, old.artifact # Missing
    PROVE  Passes(s, old, new)
<1>1. old.artifact \in Artifacts /\ new.artifact # Missing
    BY WatchAssumption DEF SourceStates
<1>. QED
    BY <1>1 DEF Passes, SourceRevisionChange, NewArtifact, NewRevision, Artifacts

\* The map function for a new revision of a GitRepository asks for each of its runs,
\* unless the run's cached status says that it attempted the revision, and the
\* source was away before.
LEMMA AskedFor ==
    ASSUME NEW k \in Runs, NEW old \in SourceStates, NEW new \in SourceStates,
           kind[SourceOf[k]] = "GitRepository", new.artifact \in Revisions,
           old.artifact # new.artifact,
           k \notin Mapped(SourceOf[k], old, new)
    PROVE  /\ k \in named
           /\ cached[k].attempted = new.artifact
           /\ old.artifact \in {NoArtifact, Missing}
<1>. DEFINE s == SourceOf[k]
<1>1. k \notin RequestsForRevisionChange(s, new.artifact)
    BY DEF Mapped, Requests
<1>2. k \in named /\ cached[k].attempted = new.artifact
    BY <1>1 DEF RequestsForRevisionChange
<1>3. ASSUME old.artifact \in Revisions PROVE FALSE
    <2>1. k \notin RequestsForRevisionChange(s, old.artifact)
        BY <1>3, WatchAssumption DEF Mapped, Requests
    <2>2. cached[k].attempted = old.artifact
        BY <2>1 DEF RequestsForRevisionChange
    <2>. QED
        BY <1>2, <2>2
<1>4. old.artifact \in Artifacts
    BY DEF SourceStates
<1>. QED
    BY <1>2, <1>3, <1>4 DEF Artifacts

-----------------------------------------------------------------------------
(* Types. *)

LEMMA WatchTypeInit == Init => TypeOK
<1>. SUFFICES ASSUME Init PROVE TypeOK
    OBVIOUS
<1>1. source \in [Sources -> SourceStates] /\ seen = source
    BY DEF Init
<1>2. run \in [Runs -> RunStates] /\ cached = run
    BY DEF Init, RunStates
<1>3. passed \in [Sources -> Artifacts]
    BY <1>1 DEF Init, SourceStates
<1>4. had \in [Sources -> SUBSET Artifacts]
    BY DEF Init
<1>. QED
    BY <1>1, <1>2, <1>3, <1>4 DEF Init, TypeOK

\* What Reconcile may leave behind as a run's status.
LEMMA LeftBehind ==
    ASSUME TypeOK, NEW k \in Runs, Attempt(k) \/ AttemptFails(k)
    PROVE  \E state \in RunStates :
              /\ run' = [run EXCEPT ![k] = state]
              /\ state.attempted \in {run[k].attempted, seen[SourceOf[k]].artifact}
              /\ k \in cut' \cap timer' \/ state.attempted = seen[SourceOf[k]].artifact
              /\ state.attempted \in Revisions \cup {Nothing}
              /\ cut' \subseteq cut \cup {k} /\ cut \subseteq cut' \cup {k}
              /\ timer' \in {timer, timer \cup {k}}
              /\ k \in cut' => k \in timer'
              /\ working' \in {working, k}
<1>1. run[k] \in RunStates
    BY DEF TypeOK
<1>2. CASE AttemptFails(k)
    <2>1. PICK state \in PartlyStored(k) : run' = [run EXCEPT ![k] = state]
        BY <1>2 DEF AttemptFails
    <2>2. state \in RunStates /\ state.attempted \in {run[k].attempted, seen[SourceOf[k]].artifact}
        BY <1>1, <2>1 DEF PartlyStored, MayAttempt, HasArtifact, RunStates
    <2>. QED
        BY <1>2, <2>1, <2>2 DEF AttemptFails, Return, RunStates
<1>3. CASE Attempt(k) /\ MayAttempt(k)
    <2>. DEFINE state == [attempted |-> seen[SourceOf[k]].artifact, ready |-> FALSE]
    <2>1. state \in RunStates
        BY <1>3 DEF MayAttempt, HasArtifact, RunStates
    <2>2. /\ run' = [run EXCEPT ![k] = state]
          /\ cut' = cut \ {k} /\ timer' = timer /\ working' = k
        BY <1>3 DEF Attempt
    <2>. QED
        BY <2>1, <2>2 DEF RunStates
<1>4. CASE Attempt(k) /\ ~MayAttempt(k)
    <2>. DEFINE state == [run[k] EXCEPT !.ready = FALSE]
    <2>1. state \in RunStates /\ state.attempted = run[k].attempted
        BY <1>1 DEF RunStates
    <2>2. run' = [run EXCEPT ![k].ready = FALSE] /\ Return(k)
        BY <1>4 DEF Attempt
    <2>3. run' = [run EXCEPT ![k] = state]
        BY <2>2
    <2>. QED
        BY <2>1, <2>2, <2>3 DEF Return, RunStates
<1>. QED
    BY <1>2, <1>3, <1>4

\* The variables keep their types.
LEMMA WatchTypeStep == TypeOK /\ [Next]_vars => TypeOK'
<1>. SUFFICES ASSUME TypeOK, [Next]_vars PROVE TypeOK'
    OBVIOUS
<1>. USE DEF TypeOK
<1>0. \A s \in Sources : source[s].artifact \in Artifacts
    BY DEF SourceStates
<1>1. ASSUME NEW s \in Sources, Watch(s) PROVE TypeOK'
    <2>1. seen' \in [Sources -> SourceStates]
        BY <1>1 DEF Watch
    <2>2. queue' \subseteq Runs /\ passed' \in [Sources -> Artifacts]
        BY <1>0, <1>1, RequestsAreRuns DEF Watch
    <2>. QED
        BY <1>1, <2>1, <2>2 DEF Watch, workVars
<1>2. ASSUME NEW s \in Sources, NEW x \in SourceStates, SourceChanges(s, x)
      PROVE  TypeOK'
    <2>1. source' \in [Sources -> SourceStates] /\ edits' \in Nat
        BY <1>2 DEF SourceChanges
    <2>2. had' \in [Sources -> SUBSET Artifacts]
        BY <1>0, <1>2 DEF SourceChanges
    <2>. QED
        BY <1>2, <2>1, <2>2 DEF SourceChanges, workVars
<1>3. ASSUME NEW k \in Runs, Attempt(k) \/ AttemptFails(k) PROVE TypeOK'
    <2>1. /\ run' \in [Runs -> RunStates]
          /\ cut' \subseteq Runs /\ timer' \subseteq Runs
          /\ working' \in Runs \cup {Nothing}
        BY <1>3, LeftBehind
    <2>2. taken' \in [Runs -> Artifacts \cup {Nothing}] /\ queue' \subseteq Runs
        <3>1. SourceOf[k] \in Sources
            BY WatchAssumption
        <3>2. TakeUp(k)
            BY <1>3 DEF Attempt, AttemptFails
        <3>. QED
            BY <1>0, <3>1, <3>2 DEF TakeUp, SourceStates
    <2>3. faults' \in Nat
        BY <1>3 DEF Attempt, AttemptFails
    <2>. QED
        BY <1>3, <2>1, <2>2, <2>3 DEF Attempt, AttemptFails, TakeUp, watchVars
<1>4. ASSUME NEW k \in Runs, Sync(k) \/ TimerFires(k) \/ DependenciesChange(k)
      PROVE  TypeOK'
    BY <1>4 DEF Sync, TimerFires, DependenciesChange, watchVars, workVars
<1>5. CASE Finish \/ Fail
    <2>1. PICK ready \in BOOLEAN : Report(ready) /\ faults' \in Nat
        <3>1. CASE Finish
            BY <3>1, Zenon DEF Finish
        <3>2. CASE Fail
            <4>1. faults' \in Nat
                BY <3>2 DEF Fail
            <4>. QED
                BY <3>2, <4>1, Zenon DEF Fail
        <3>. QED
            BY <1>5, <3>1, <3>2
    <2>2. run' \in [Runs -> RunStates] /\ working \in Runs
        BY <2>1 DEF Report, RunStates
    <2>. QED
        BY <2>1, <2>2 DEF Report, Schedule, watchVars
<1>6. CASE Restart
    BY <1>0, <1>6 DEF Restart
<1>7. CASE UNCHANGED vars
    BY <1>7 DEF vars, watchVars, workVars
<1>. QED
    BY <1>1, <1>2, <1>3, <1>4, <1>5, <1>6, <1>7 DEF Next

-----------------------------------------------------------------------------
(* The past of a source. *)

\* What the sources were only grows, and the informer keeps what it has of them or
\* goes on to what they are.
LEMMA PastGrows ==
    ASSUME TypeOK, [Next]_vars, NEW s \in Sources
    PROVE  /\ had[s] \subseteq had'[s]
           /\ seen'[s] \in {seen[s], source[s]}
           /\ \/ UNCHANGED <<source, had>>
              \/ seen' = seen /\ had[s] \cup {source[s].artifact} \subseteq
                                    had'[s] \cup {source'[s].artifact}
<1>. USE DEF TypeOK
<1>1. ASSUME NEW t \in Sources, Watch(t) \/ \E x \in SourceStates : SourceChanges(t, x)
      PROVE  /\ had[s] \subseteq had'[s]
             /\ seen'[s] \in {seen[s], source[s]}
             /\ \/ UNCHANGED <<source, had>>
                \/ seen' = seen /\ had[s] \cup {source[s].artifact} \subseteq
                                    had'[s] \cup {source'[s].artifact}
    BY <1>1 DEF Watch, SourceChanges
<1>2. CASE \/ Finish \/ Fail \/ UNCHANGED vars
           \/ \E k \in Runs : \/ Attempt(k) \/ AttemptFails(k)
                             \/ Sync(k) \/ TimerFires(k) \/ DependenciesChange(k)
    BY <1>2 DEF Finish, Fail, Report, vars, Attempt, AttemptFails, TakeUp, Sync, TimerFires,
                 DependenciesChange, watchVars
<1>3. CASE Restart
    BY <1>3 DEF Restart
<1>. QED
    BY <1>1, <1>2, <1>3 DEF Next

LEMMA SeenStep ==
    ASSUME TypeOK, SeenIsPast, [Next]_vars
    PROVE  SeenIsPast'
BY PastGrows DEF SeenIsPast

\* What a run attempts is what the informer has.
LEMMA AttemptsSeen ==
    ASSUME TypeOK, [Next]_vars, NEW k \in Runs
    PROVE  /\ run'[k].attempted \in {run[k].attempted, seen[SourceOf[k]].artifact}
           /\ cached'[k].attempted \in {run[k].attempted, cached[k].attempted}
<1>. USE DEF TypeOK
<1>1. ASSUME NEW j \in Runs, Attempt(j) \/ AttemptFails(j)
      PROVE  /\ run'[k].attempted \in {run[k].attempted, seen[SourceOf[k]].artifact}
             /\ UNCHANGED cached
    <2>1. PICK state \in RunStates :
            /\ run' = [run EXCEPT ![j] = state]
            /\ state.attempted \in {run[j].attempted, seen[SourceOf[j]].artifact}
        BY <1>1, LeftBehind
    <2>. QED
        BY <1>1, <2>1 DEF Attempt, AttemptFails, TakeUp
<1>2. ASSUME NEW j \in Runs, Sync(j) \/ TimerFires(j) \/ DependenciesChange(j)
      PROVE  /\ run'[k].attempted \in {run[k].attempted, seen[SourceOf[k]].artifact}
             /\ cached'[k].attempted \in {run[k].attempted, cached[k].attempted}
    BY <1>2 DEF Sync, TimerFires, DependenciesChange, workVars
<1>3. ASSUME NEW ready, Report(ready)
      PROVE  run'[k].attempted = run[k].attempted /\ cached'[k] = cached[k]
    <2>1. working \in Runs
        BY <1>3 DEF Report
    <2>2. run' = [run EXCEPT ![working].ready = ready] /\ cached' = cached
        BY <1>3 DEF Report
    <2>. QED
        BY <2>1, <2>2 DEF RunStates
<1>4. CASE Restart \/ UNCHANGED vars
    BY <1>4 DEF Restart, vars, workVars
<1>5. ASSUME NEW s \in Sources, Watch(s) \/ \E x \in SourceStates : SourceChanges(s, x)
      PROVE  UNCHANGED <<run, cached>>
    BY <1>5 DEF Watch, SourceChanges, workVars
<1>. QED
    BY <1>1, <1>2, <1>3, <1>4, <1>5 DEF Next, Finish, Fail

LEMMA AttemptedStep ==
    ASSUME TypeOK, SeenIsPast, AttemptedIsPast, [Next]_vars
    PROVE  AttemptedIsPast'
<1>. SUFFICES ASSUME NEW k \in Runs
              PROVE  {run'[k].attempted, cached'[k].attempted}
                        \subseteq {Nothing, seen'[SourceOf[k]].artifact} \cup had'[SourceOf[k]]
    BY DEF AttemptedIsPast
<1>1. SourceOf[k] \in Sources
    BY WatchAssumption
<1>2. {Nothing, seen[SourceOf[k]].artifact} \cup had[SourceOf[k]]
        \subseteq {Nothing, seen'[SourceOf[k]].artifact} \cup had'[SourceOf[k]]
    BY <1>1, PastGrows DEF SeenIsPast
<1>3. {run'[k].attempted, cached'[k].attempted}
        \subseteq {run[k].attempted, cached[k].attempted, seen[SourceOf[k]].artifact}
    BY AttemptsSeen
<1>. QED
    BY <1>2, <1>3 DEF AttemptedIsPast

-----------------------------------------------------------------------------
(* The properties. *)

\* A revision that the informer comes to know passes.
LEMMA DetectStep ==
    ASSUME TypeOK, SeenIsPast, PredicatesDetect, [Next]_vars
    PROVE  PredicatesDetect'
<1>. USE DEF PredicatesDetect
<1>1. ASSUME NEW s \in Sources, Watch(s) PROVE PredicatesDetect'
    <2>. SUFFICES ASSUME NEW t \in Sources, seen'[t].artifact \in Revisions
                  PROVE  \/ passed'[t] = seen'[t].artifact
                         \/ kind[t] = "OCIRepository" /\ Missing \in had[t]
        BY <1>1 DEF Watch
    <2>1. CASE t # s
        <3>1. seen'[t] = seen[t] /\ passed'[t] = passed[t]
            BY <1>1, <2>1 DEF Watch, TypeOK
        <3>. QED
            BY <3>1
    <2>2. CASE t = s /\ seen[s].artifact = source[s].artifact
        <3>1. seen'[s] = source[s] /\ passed'[s] \in {passed[s], source[s].artifact}
            BY <1>1 DEF Watch, TypeOK
        <3>. QED
            BY <2>2, <3>1
    <2>3. CASE t = s /\ seen[s].artifact # source[s].artifact
        <3>1. seen[s] \in SourceStates /\ source[s] \in SourceStates
            BY DEF TypeOK
        <3>2. seen'[s] = source[s]
            BY <1>1 DEF Watch, TypeOK
        <3>3. CASE Passes(s, seen[s], source[s])
            <4>1. passed'[s] = source[s].artifact
                BY <1>1, <3>3 DEF Watch, TypeOK
            <4>. QED
                BY <2>3, <3>2, <4>1
        <3>4. CASE ~Passes(s, seen[s], source[s])
            <4>1. kind[s] \in Kinds
                BY DEF TypeOK
            <4>2. kind[s] = "OCIRepository" /\ seen[s].artifact = Missing
                BY <2>3, <3>1, <3>2, <3>4, <4>1, ChangePasses, UpdatePasses DEF Kinds
            <4>3. Missing \in had[s]
                BY <2>3, <4>2 DEF SeenIsPast
            <4>. QED
                BY <2>3, <4>2, <4>3
        <3>. QED
            BY <3>3, <3>4
    <2>. QED
        BY <2>1, <2>2, <2>3
<1>2. ASSUME NEW s \in Sources, NEW x \in SourceStates, SourceChanges(s, x)
      PROVE  PredicatesDetect'
    BY <1>2 DEF SourceChanges, TypeOK
<1>3. CASE \/ Finish \/ Fail \/ UNCHANGED vars
           \/ \E k \in Runs : \/ Attempt(k) \/ AttemptFails(k)
                             \/ Sync(k) \/ TimerFires(k) \/ DependenciesChange(k)
    BY <1>3 DEF Finish, Fail, Report, vars, Attempt, AttemptFails, TakeUp, Sync, TimerFires,
                 DependenciesChange, watchVars
<1>4. CASE Restart
    BY <1>4 DEF Restart
<1>. QED
    BY <1>1, <1>2, <1>3, <1>4 DEF Next

\* A revision that the informer comes to know is asked for, or attempted already.
LEMMA WatchNotices ==
    ASSUME WatchInv, NEW s \in Sources, Watch(s)
    PROVE  NoticedSoFar'
<1>. USE DEF WatchInv
<1>. SUFFICES ASSUME NEW k \in Runs, kind[SourceOf[k]] = "GitRepository",
                     seen'[SourceOf[k]].artifact \in Revisions, k \notin queue'
              PROVE  TakenUpWith(k, seen'[SourceOf[k]].artifact) \/ LeftAlone(k)'
    BY DEF NoticedSoFar, TakenUpWith, Watch, workVars
<1>1. UNCHANGED <<kind, named, had>> /\ queue \subseteq queue'
    BY DEF Watch, workVars
<1>2. SourceOf[k] \in Sources
    BY WatchAssumption
<1>3. CASE seen'[SourceOf[k]].artifact = seen[SourceOf[k]].artifact
    <2>1. TakenUpWith(k, seen[SourceOf[k]].artifact) \/ LeftAlone(k)
        BY <1>1, <1>3 DEF NoticedSoFar
    <2>. QED
        BY <1>1, <1>3, <2>1 DEF LeftAlone
<1>4. CASE seen'[SourceOf[k]].artifact # seen[SourceOf[k]].artifact
    <2>1. s = SourceOf[k] /\ seen'[s] = source[s]
        BY <1>2, <1>4 DEF Watch, TypeOK
    <2>2. seen[s] \in SourceStates /\ source[s] \in SourceStates
        BY DEF TypeOK
    <2>3. k \notin Mapped(s, seen[s], source[s])
        BY <1>4, <2>1, <2>2, ChangePasses DEF Watch
    <2>4. /\ k \in named
          /\ cached[k].attempted = source[s].artifact
          /\ seen[s].artifact \in {NoArtifact, Missing}
        BY <1>4, <2>1, <2>2, <2>3, AskedFor
    <2>5. source[s].artifact \in had[s]
        BY <1>4, <2>1, <2>4, WatchAssumption DEF AttemptedIsPast
    <2>6. seen[s].artifact \in had[s]
        BY <1>4, <2>1 DEF SeenIsPast
    <2>. QED
        BY <1>1, <2>1, <2>4, <2>5, <2>6 DEF LeftAlone
<1>. QED
    BY <1>3, <1>4

\* What returns before an attempt has a timer, which queues it; a restart queues all.
LEMMA RepeatedStep ==
    ASSUME TypeOK, CutIsRepeated, [Next]_vars
    PROVE  CutIsRepeated'
<1>. USE DEF TypeOK, CutIsRepeated
<1>1. ASSUME NEW k \in Runs, Attempt(k) \/ AttemptFails(k) PROVE CutIsRepeated'
    <2>1. /\ cut' \subseteq cut \cup {k} /\ timer \subseteq timer'
          /\ k \in cut' => k \in timer'
        BY <1>1, LeftBehind
    <2>2. queue' = queue \ {k}
        BY <1>1 DEF Attempt, AttemptFails, TakeUp
    <2>. QED
        BY <2>1, <2>2
<1>2. ASSUME UNCHANGED cut, timer \cup queue \subseteq timer' \cup queue'
      PROVE  CutIsRepeated'
    BY <1>2
<1>3. ASSUME NEW s \in Sources, Watch(s) \/ \E x \in SourceStates : SourceChanges(s, x)
      PROVE  CutIsRepeated'
    BY <1>2, <1>3 DEF Watch, SourceChanges, workVars
<1>4. ASSUME NEW k \in Runs, Sync(k) \/ TimerFires(k) \/ DependenciesChange(k)
      PROVE  CutIsRepeated'
    BY <1>2, <1>4 DEF Sync, TimerFires, DependenciesChange, workVars
<1>5. ASSUME NEW ready, Report(ready) PROVE CutIsRepeated'
    BY <1>2, <1>5 DEF Report, Schedule
<1>6. CASE Restart
    BY <1>6 DEF Restart
<1>7. CASE UNCHANGED vars
    BY <1>2, <1>7 DEF vars, workVars
<1>. QED
    BY <1>1, <1>3, <1>4, <1>5, <1>6, <1>7 DEF Next, Finish, Fail

\* A run that is taken up attempts what the informer has, or returns; a run that was
\* left alone stays so.
LEMMA NoticedStep ==
    ASSUME WatchInv, [Next]_vars
    PROVE  NoticedSoFar'
<1>. USE DEF WatchInv
<1>1. ASSUME NEW s \in Sources, Watch(s) PROVE NoticedSoFar'
    BY <1>1, WatchNotices
<1>2. ASSUME NEW k \in Runs, Attempt(k) \/ AttemptFails(k) PROVE NoticedSoFar'
    <2>1. UNCHANGED <<kind, named, seen, had>> /\ queue' = queue \ {k}
        BY <1>2 DEF Attempt, AttemptFails, TakeUp, watchVars
    <2>2. taken' = [taken EXCEPT ![k] = seen[SourceOf[k]].artifact]
        BY <1>2 DEF Attempt, AttemptFails, TakeUp
    <2>3. PICK state \in RunStates :
            /\ run' = [run EXCEPT ![k] = state]
            /\ k \in cut' \cap timer' \/ state.attempted = seen[SourceOf[k]].artifact
            /\ cut \subseteq cut' \cup {k}
        BY <1>2, LeftBehind
    <2>. SUFFICES ASSUME NEW j \in Runs, kind[SourceOf[j]] = "GitRepository",
                         seen[SourceOf[j]].artifact \in Revisions, j \notin queue'
                  PROVE  TakenUpWith(j, seen[SourceOf[j]].artifact)' \/ LeftAlone(j)'
        BY <2>1 DEF NoticedSoFar, TakenUpWith
    <2>4. CASE j = k
        <3>1. run'[k] = state /\ taken'[k] = seen[SourceOf[k]].artifact
            BY <2>2, <2>3 DEF TypeOK
        <3>. QED
            BY <2>1, <2>3, <2>4, <3>1 DEF TakenUpWith
    <2>5. CASE j # k
        <3>1. TakenUpWith(j, seen[SourceOf[j]].artifact) \/ LeftAlone(j)
            BY <2>1, <2>5 DEF NoticedSoFar
        <3>. QED
            BY <2>1, <2>2, <2>3, <2>5, <3>1 DEF TakenUpWith, LeftAlone
    <2>. QED
        BY <2>4, <2>5
<1>3. ASSUME UNCHANGED <<kind, named, seen, taken, cut>>, queue \subseteq queue',
             \A s \in Sources : had[s] \subseteq had'[s],
             \A k \in Runs : run'[k].attempted = run[k].attempted
      PROVE  NoticedSoFar'
    BY <1>3, WatchAssumption DEF NoticedSoFar, TakenUpWith, LeftAlone
<1>4. ASSUME NEW s \in Sources, NEW x \in SourceStates, SourceChanges(s, x)
      PROVE  NoticedSoFar'
    BY <1>3, <1>4, PastGrows DEF SourceChanges, workVars
<1>5. ASSUME NEW ready, Report(ready) PROVE NoticedSoFar'
    <2>1. working \in Runs /\ run' = [run EXCEPT ![working].ready = ready]
        BY <1>5 DEF Report, TypeOK
    <2>2. \A k \in Runs : run'[k].attempted = run[k].attempted
        BY <2>1 DEF TypeOK, RunStates
    <2>. QED
        BY <1>3, <1>5, <2>2 DEF Report, watchVars
<1>6. ASSUME NEW k \in Runs, Sync(k) \/ TimerFires(k) \/ DependenciesChange(k)
      PROVE  NoticedSoFar'
    BY <1>3, <1>6 DEF Sync, TimerFires, DependenciesChange, watchVars, workVars
<1>7. CASE Restart
    BY <1>7 DEF Restart, NoticedSoFar
<1>8. CASE UNCHANGED vars
    BY <1>3, <1>8 DEF vars, watchVars, workVars
<1>. QED
    BY <1>1, <1>2, <1>4, <1>5, <1>6, <1>7, <1>8 DEF Next, Finish, Fail

-----------------------------------------------------------------------------
(* The theorems. *)

\* At first all is up to date, and every run is queued.
LEMMA WatchInit == Init => WatchInv
<1>. SUFFICES ASSUME Init PROVE WatchInv
    OBVIOUS
<1>1. TypeOK
    BY WatchTypeInit
<1>2. SeenIsPast /\ PredicatesDetect /\ CutIsRepeated /\ NoticedSoFar
    BY DEF Init, SeenIsPast, PredicatesDetect, CutIsRepeated, NoticedSoFar
<1>3. AttemptedIsPast
    BY DEF Init, AttemptedIsPast
<1>. QED
    BY <1>1, <1>2, <1>3 DEF WatchInv

LEMMA WatchStep == WatchInv /\ [Next]_vars => WatchInv'
BY WatchTypeStep, SeenStep, AttemptedStep, DetectStep, RepeatedStep, NoticedStep
   DEF WatchInv

\* Sources, their copies in the informer and the runs keep their types, whatever the
\* informer skips (SetupWithManager).
THEOREM WatchTypes == Spec => []TypeOK
<1>1. WatchInv => TypeOK
    BY DEF WatchInv
<1>. QED
    BY <1>1, WatchInit, WatchStep, PTL DEF Spec

\* A revision that the informer comes to know has passed the predicates, unless the
\* source is an OCIRepository that was created with it (SourceRevisionChangePredicate
\* and the predicate for GitRepositories).
THEOREM NewRevisionsPass == Spec => []PredicatesDetect
<1>1. WatchInv => PredicatesDetect
    BY DEF WatchInv
<1>. QED
    BY <1>1, WatchInit, WatchStep, PTL DEF Spec

\* No revision of a GitRepository is overlooked, but for one that the source had
\* before it was without an artifact for a while: each run of the source is taken up
\* with it, and attempts it or returns to be repeated (requestsForRevisionChangeOf,
\* Reconcile).
THEOREM NoRevisionOverlooked == Spec => []RevisionsNoticed
<1>1. WatchInv => RevisionsNoticed
    BY WatchAssumption
       DEF WatchInv, CutIsRepeated, NoticedSoFar, TakenUpWith, LeftAlone,
           RevisionsNoticed, Idle
<1>. QED
    BY <1>1, WatchInit, WatchStep, PTL DEF Spec
=============================================================================
