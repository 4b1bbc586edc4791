--------------------------- MODULE ScheduleProofs ---------------------------
(***************************************************************************)
(* The schedule, for any runs, durations, delays of the work queue and     *)
(* numbers of events: the queue holds no run twice, nor the one at work,   *)
(* no run drops out but by a delay of zero, and each is taken up again in  *)
(* a time that its own delays and the attempts of all runs bound: their    *)
(* work, which is assumed to be bounded, and their waits.                  *)
(***************************************************************************)
EXTENDS Schedule, FiniteSetTheorems, TLAPS

\* The worker waits for something if it has a run, which is then not queued.
WorkerInv ==
    /\ worker = Nobody <=> stage = "none"
    /\ worker # Nobody => ~Queued(worker)

ScheduleInv == TypeOK /\ WorkerInv /\ NeverDropped

-----------------------------------------------------------------------------
(* The queue. *)

\* What is taken from the head is queued no more.
LEMMA QueueTail ==
    ASSUME NEW q \in Seq(Runs), q # <<>>, IsInjective(q)
    PROVE  /\ Head(q) \in Runs
           /\ Tail(q) \in Seq(Runs) /\ IsInjective(Tail(q))
           /\ Range(Tail(q)) = Range(q) \ {Head(q)}
<1>1. Len(q) \in Nat /\ Len(q) > 0 /\ DOMAIN q = 1..Len(q) /\ Head(q) = q[1]
    OBVIOUS
<1>2. /\ Tail(q) \in Seq(Runs) /\ DOMAIN Tail(q) = 1..Len(q) - 1
      /\ \A i \in 1..Len(q) - 1 : Tail(q)[i] = q[i + 1]
    BY <1>1
<1>3. \A i, j \in 1..Len(q) : q[i] = q[j] => i = j
    BY <1>1 DEF IsInjective
<1>4. IsInjective(Tail(q))
    BY <1>1, <1>2, <1>3 DEF IsInjective
<1>5. ASSUME NEW x \in Range(Tail(q)) PROVE x \in Range(q) \ {Head(q)}
    <2>1. PICK i \in 1..Len(q) - 1 : x = q[i + 1]
        BY <1>2, <1>5 DEF Range
    <2>2. i + 1 \in 1..Len(q) /\ i + 1 # 1
        BY <1>1
    <2>. QED
        BY <1>1, <1>3, <2>1, <2>2 DEF Range
<1>6. ASSUME NEW x \in Range(q), x # Head(q) PROVE x \in Range(Tail(q))
    <2>1. PICK i \in 1..Len(q) : x = q[i]
        BY <1>1 DEF Range
    <2>2. i - 1 \in 1..Len(q) - 1 /\ i = (i - 1) + 1
        BY <1>1, <1>6, <2>1
    <2>3. x = Tail(q)[i - 1]
        BY <1>2, <2>1, <2>2
    <2>. QED
        BY <1>2, <2>2, <2>3 DEF Range
<1>7. Head(q) \in Runs
    BY <1>1
<1>. QED
    BY <1>2, <1>4, <1>5, <1>6, <1>7

\* A run that is not queued may be.
LEMMA QueueAppend ==
    ASSUME NEW q \in Seq(Runs), IsInjective(q), NEW k \in Runs, k \notin Range(q)
    PROVE  /\ Append(q, k) \in Seq(Runs) /\ IsInjective(Append(q, k))
           /\ Range(Append(q, k)) = Range(q) \cup {k}
<1>1. Len(q) \in Nat /\ DOMAIN q = 1..Len(q)
    OBVIOUS
<1>2. /\ Append(q, k) \in Seq(Runs) /\ DOMAIN Append(q, k) = 1..Len(q) + 1
      /\ \A i \in 1..Len(q) : Append(q, k)[i] = q[i]
      /\ Append(q, k)[Len(q) + 1] = k
    BY <1>1
<1>3. \A i \in 1..Len(q) : q[i] # k
    BY <1>1 DEF Range
<1>4. \A i, j \in 1..Len(q) : q[i] = q[j] => i = j
    BY <1>1 DEF IsInjective
<1>5. \A i \in 1..Len(q) + 1 : i \in 1..Len(q) \/ i = Len(q) + 1
    BY <1>1
<1>6. IsInjective(Append(q, k))
    BY <1>2, <1>3, <1>4, <1>5 DEF IsInjective
<1>7. Range(q) \cup {k} \subseteq Range(Append(q, k))
    <2>1. \A i \in 1..Len(q) : i \in 1..Len(q) + 1
        BY <1>1
    <2>2. Len(q) + 1 \in 1..Len(q) + 1
        BY <1>1
    <2>. QED
        BY <1>1, <1>2, <2>1, <2>2 DEF Range
<1>8. Range(Append(q, k)) \subseteq Range(q) \cup {k}
    BY <1>1, <1>2, <1>5 DEF Range
<1>. QED
    BY <1>2, <1>6, <1>7, <1>8

\* At first each run is queued.
LEMMA QueueInit ==
    ASSUME NEW q \in SetToSeqs(Runs)
    PROVE  q \in Seq(Runs) /\ IsInjective(q) /\ Range(q) = Runs
<1>. DEFINE D == 1..Cardinality(Runs)
<1>1. Cardinality(Runs) \in Nat
    BY FS_CardinalityType, ScheduleAssumption
<1>2. q \in [D -> Runs] /\ \A i, j \in D : i # j => q[i] # q[j]
    BY DEF SetToSeqs
<1>3. q \in Seq(Runs)
    BY <1>1, <1>2
<1>4. IsInjective(q)
    BY <1>2 DEF IsInjective
<1>5. q \in Injection(D, Runs)
    BY <1>2, <1>4 DEF Injection
<1>6. IsFiniteSet(D) /\ Cardinality(D) = Cardinality(Runs)
    BY <1>1, FS_Interval
<1>7. q \in Surjection(D, Runs)
    BY <1>5, <1>6, FS_Injection, ScheduleAssumption
<1>8. Range(q) = Runs
    BY <1>2, <1>7 DEF Surjection, Range
<1>. QED
    BY <1>3, <1>4, <1>8

\* Asking for a run puts it in the queue, unless it is at work.
LEMMA Enqueued ==
    ASSUME TypeOK, WorkerInv, NEW k \in Runs, Enqueue(k)
    PROVE  /\ queue' \in Seq(Runs) /\ IsInjective(queue') /\ again' \in BOOLEAN
           /\ Range(queue) \subseteq Range(queue')
           /\ k \in Range(queue') \/ k = worker
           /\ worker # Nobody => worker \notin Range(queue')
<1>. USE DEF TypeOK, WorkerInv, Queued
<1>1. CASE k = worker
    BY <1>1 DEF Enqueue
<1>2. CASE k # worker /\ Queued(k)
    BY <1>2 DEF Enqueue
<1>3. CASE k # worker /\ ~Queued(k)
    <2>1. queue' = Append(queue, k) /\ again' = again
        BY <1>3 DEF Enqueue
    <2>. QED
        BY <1>3, <2>1, QueueAppend
<1>. QED
    BY <1>1, <1>2, <1>3

-----------------------------------------------------------------------------
(* The delays. *)

\* The durations that Reconcile derives from those of the spec.
LEMMA DerivedDurations ==
    ASSUME NEW s \in DurationSpecs
    PROVE  /\ GetTimeout(s) \in Nat \ {0}
           /\ Allowance(s) \in Nat /\ GetTimeout(s) <= Allowance(s)
           /\ GetRequeueAfter(s) \in Nat /\ GetRetryInterval(s) \in Nat
           /\ GetRequeueAfter(s) = 0 => s.interval = 0
           /\ GetRetryInterval(s) = 0 => 0 \in {s.interval, s.retryInterval}
<1>1. /\ s.interval \in Nat
      /\ s.timeout = Unset \/ s.timeout \in Nat
      /\ s.retryInterval = Unset \/ s.retryInterval \in Nat
    BY DEF DurationSpecs
<1>2. /\ GetTimeout(s) \in Nat \ {0}
      /\ Allowance(s) \in Nat /\ GetTimeout(s) <= Allowance(s)
    BY <1>1 DEF GetTimeout, Allowance, Longer, HalfMinute
<1>. QED
    BY <1>1, <1>2 DEF GetRequeueAfter, GetRetryInterval

\* Only a delay of nothing at all leaves a run without a time; no run loses one.
LEMMA Delayed ==
    ASSUME TypeOK, NEW k \in Runs, NEW delay \in Nat, AddAfter(k, delay)
    PROVE  /\ due' \in [Runs -> Nat \cup {Never}]
           /\ \A j \in Runs : due[j] # Never => due'[j] # Never
           /\ delay # 0 => due'[k] # Never
<1>. DEFINE d == CASE delay = 0 -> due[k]
                   [] delay # 0 /\ due[k] = Never -> delay
                   [] OTHER -> IF delay < due[k] THEN delay ELSE due[k]
<1>1. due \in [Runs -> Nat \cup {Never}] /\ due[k] \in Nat \cup {Never}
    BY DEF TypeOK
<1>2. due' = [due EXCEPT ![k] = d]
    BY DEF AddAfter
<1>3. CASE delay = 0
    <2>1. d = due[k]
        BY <1>3
    <2>. QED
        BY <1>1, <1>2, <1>3, <2>1
<1>4. CASE delay # 0
    <2>1. d \in {delay, due[k]} \ {Never}
        BY <1>1, <1>4, ScheduleAssumption
    <2>. HIDE DEF d
    <2>. QED
        BY <1>1, <1>2, <1>4, <2>1
<1>. QED
    BY <1>3, <1>4

\* A failure always leaves a time.
LEMMA RateLimited ==
    ASSUME TypeOK, NEW k \in Runs, AddRateLimited(k)
    PROVE  /\ due' \in [Runs -> Nat \cup {Never}]
           /\ backoff' \in [Runs -> BaseBackoff..MaxBackoff]
           /\ \A j \in Runs : due[j] # Never => due'[j] # Never
           /\ due'[k] # Never
<1>1. backoff \in [Runs -> BaseBackoff..MaxBackoff] /\ backoff[k] \in Nat \ {0}
    BY ScheduleAssumption DEF TypeOK
<1>2. backoff' \in [Runs -> BaseBackoff..MaxBackoff]
    BY <1>1, ScheduleAssumption DEF AddRateLimited, Doubled
<1>. QED
    BY <1>1, <1>2, Delayed DEF AddRateLimited

\* Forget keeps the back-off in its bounds.
LEMMA Forgotten ==
    ASSUME TypeOK, NEW k \in Runs, Forget(k)
    PROVE  backoff' \in [Runs -> BaseBackoff..MaxBackoff]
BY ScheduleAssumption DEF TypeOK, Forget

-----------------------------------------------------------------------------
(* The steps. *)

\* What the queue gives to the worker.
LEMMA Taken ==
    ASSUME TypeOK, NEW k \in Runs, Take(k)
    PROVE  /\ queue' \in Seq(Runs) /\ IsInjective(queue')
           /\ Range(queue') = Range(queue) \ {k}
           /\ idle' \in [Runs -> Nat]
           /\ worker = Nobody
<1>1. queue \in Seq(Runs) /\ IsInjective(queue) /\ queue # <<>> /\ Head(queue) = k
    BY DEF TypeOK, Take
<1>2. queue' = Tail(queue)
    BY DEF Take
<1>. QED
    BY <1>1, <1>2, QueueTail DEF TypeOK, Take

\* Attempts that end at once leave the run with a time, unless the retry interval is
\* zero, and so is the interval when there is none.
LEMMA AtOnce ==
    ASSUME ScheduleInv, NEW k \in Runs,
           EndAtOnce(k) \/ SourceNotFound(k) \/ NotReady(k)
    PROVE  ScheduleInv'
<1>. USE DEF ScheduleInv
<1>1. Take(k) /\ UNCHANGED <<worker, stage, left>>
    BY DEF EndAtOnce, SourceNotFound, NotReady, Free
<1>2. /\ queue' \in Seq(Runs) /\ IsInjective(queue')
      /\ Range(queue') = Range(queue) \ {k}
      /\ idle' \in [Runs -> Nat]
      /\ worker = Nobody
    BY <1>1, Taken
<1>3. spec[k] \in DurationSpecs
    BY DEF TypeOK
<1>4. /\ due' \in [Runs -> Nat \cup {Never}]
      /\ backoff' \in [Runs -> BaseBackoff..MaxBackoff]
      /\ \A j \in Runs : due[j] # Never => due'[j] # Never
      /\ due'[k] # Never \/ 0 \in {spec[k].interval, spec[k].retryInterval}
    <2>1. CASE EndAtOnce(k)
        BY <2>1, RateLimited DEF EndAtOnce
    <2>2. CASE SourceNotFound(k)
        BY <1>3, <2>2, DerivedDurations, Delayed, Forgotten DEF SourceNotFound
    <2>3. CASE NotReady(k)
        BY <2>3, ScheduleAssumption, Delayed, Forgotten DEF NotReady
    <2>. QED
        BY <2>1, <2>2, <2>3
<1>5. TypeOK'
    BY <1>1, <1>2, <1>4 DEF TypeOK, Take
<1>6. WorkerInv'
    BY <1>1, <1>2 DEF WorkerInv
<1>7. NeverDropped'
    BY <1>1, <1>2, <1>4 DEF NeverDropped, Scheduled, Queued, Take
<1>. QED
    BY <1>5, <1>6, <1>7

\* A run that is worked on is the worker's.
LEMMA BeginKeeps ==
    ASSUME ScheduleInv, NEW k \in Runs, Begin(k)
    PROVE  ScheduleInv'
<1>. USE DEF ScheduleInv
<1>1. /\ queue' \in Seq(Runs) /\ IsInjective(queue')
      /\ Range(queue') = Range(queue) \ {k}
      /\ idle' \in [Runs -> Nat]
      /\ worker = Nobody
    BY Taken DEF Begin
<1>2. /\ worker' = k /\ stage' = "work" /\ k # Nobody
      /\ UNCHANGED <<spec, again, due, backoff, events>>
    BY ScheduleAssumption DEF Begin, Take
<1>3. left' \in Nat
    BY ScheduleAssumption DEF Begin
<1>4. TypeOK'
    BY <1>1, <1>2, <1>3 DEF TypeOK, Stages
<1>5. WorkerInv'
    BY <1>1, <1>2 DEF WorkerInv, Queued
<1>6. \A j \in Runs : worker # j
    BY <1>1, ScheduleAssumption
<1>7. NeverDropped'
    BY <1>1, <1>2, <1>6 DEF NeverDropped, Scheduled, Queued
<1>. QED
    BY <1>4, <1>5, <1>7

\* Where the worker was asked for its run meanwhile, the run is queued again.
LEMMA Released ==
    ASSUME ScheduleInv, worker # Nobody, Release
    PROVE  /\ worker \in Runs /\ worker' = Nobody /\ stage' = "none" /\ left' = 0
           /\ again' = FALSE
           /\ queue' \in Seq(Runs) /\ IsInjective(queue')
           /\ Range(queue) \subseteq Range(queue')
<1>. USE DEF ScheduleInv, TypeOK, WorkerInv, Queued
<1>1. worker \in Runs /\ worker \notin Range(queue)
    OBVIOUS
<1>2. CASE again
    BY <1>1, <1>2, QueueAppend DEF Release
<1>3. CASE ~again
    BY <1>1, <1>3 DEF Release
<1>. QED
    BY <1>1, <1>2, <1>3 DEF Release

\* An attempt that ends leaves its run with a time, unless the interval is zero.
LEMMA EndKeeps ==
    ASSUME ScheduleInv, Succeed \/ Error
    PROVE  ScheduleInv'
<1>. USE DEF ScheduleInv
<1>0. worker # Nobody /\ Release /\ UNCHANGED <<spec, idle, events>>
    BY DEF Succeed, Error
<1>1. /\ worker \in Runs /\ worker' = Nobody /\ stage' = "none" /\ left' = 0
      /\ again' = FALSE
      /\ queue' \in Seq(Runs) /\ IsInjective(queue')
      /\ Range(queue) \subseteq Range(queue')
    BY <1>0, Released
<1>2. /\ due' \in [Runs -> Nat \cup {Never}]
      /\ backoff' \in [Runs -> BaseBackoff..MaxBackoff]
      /\ \A j \in Runs : due[j] # Never => due'[j] # Never
      /\ due'[worker] # Never \/ spec[worker].interval = 0
    <2>1. CASE Error
        BY <1>1, <2>1, RateLimited DEF Error
    <2>2. CASE Succeed
        <3>1. spec[worker] \in DurationSpecs
            BY <1>1 DEF TypeOK
        <3>. QED
            BY <1>1, <2>2, <3>1, DerivedDurations, Delayed, Forgotten DEF Succeed
    <2>. QED
        BY <2>1, <2>2
<1>3. TypeOK'
    BY <1>0, <1>1, <1>2 DEF TypeOK, Stages
<1>4. WorkerInv'
    BY <1>1 DEF WorkerInv
<1>5. NeverDropped'
    BY <1>0, <1>1, <1>2 DEF NeverDropped, Scheduled, Queued
<1>. QED
    BY <1>3, <1>4, <1>5

\* Timers and events put runs into the queue and take none out of it.
LEMMA RequestKeeps ==
    ASSUME ScheduleInv, NEW k \in Runs, TimerFires(k) \/ Event(k)
    PROVE  ScheduleInv'
<1>. USE DEF ScheduleInv
<1>1. Enqueue(k) /\ UNCHANGED <<spec, backoff, worker, stage, left, idle>>
    BY DEF TimerFires, Event
<1>2. /\ queue' \in Seq(Runs) /\ IsInjective(queue') /\ again' \in BOOLEAN
      /\ Range(queue) \subseteq Range(queue')
      /\ k \in Range(queue') \/ k = worker
      /\ worker # Nobody => worker \notin Range(queue')
    BY <1>1, Enqueued
<1>3. /\ due' \in [Runs -> Nat \cup {Never}]
      /\ events' \in Nat
      /\ \A j \in Runs : j # k => due'[j] = due[j]
    <2>1. CASE TimerFires(k)
        BY <2>1 DEF TimerFires, TypeOK
    <2>2. CASE Event(k)
        BY <2>2 DEF Event, TypeOK
    <2>. QED
        BY <2>1, <2>2
<1>4. TypeOK'
    BY <1>1, <1>2, <1>3 DEF TypeOK
<1>5. WorkerInv'
    BY <1>1, <1>2 DEF WorkerInv, Queued
<1>6. NeverDropped'
    BY <1>1, <1>2, <1>3 DEF NeverDropped, Scheduled, Queued
<1>. QED
    BY <1>4, <1>5, <1>6

\* The worker goes on to the next wait.
LEMMA ProceedKeeps ==
    ASSUME ScheduleInv, Proceed
    PROVE  ScheduleInv'
<1>. USE DEF ScheduleInv
<1>1. UNCHANGED <<spec, queue, again, due, backoff, worker, idle, events>>
    BY DEF Proceed
<1>2. worker \in Runs /\ spec[worker] \in DurationSpecs
    BY DEF Proceed, TypeOK
<1>3. left' \in Nat
    BY <1>2, DerivedDurations DEF Proceed, WaitFor
<1>4. stage \in {"work", "definitions", "classes"}
    BY DEF Proceed, TypeOK, WorkerInv, Stages
<1>5. stage' \in {"definitions", "classes", "health"}
    BY <1>4 DEF Proceed, After
<1>6. TypeOK'
    BY <1>1, <1>3, <1>5 DEF TypeOK, Stages
<1>7. WorkerInv'
    BY <1>1, <1>5 DEF Proceed, WorkerInv, Queued
<1>8. NeverDropped'
    BY <1>1 DEF NeverDropped, Scheduled, Queued
<1>. QED
    BY <1>6, <1>7, <1>8

\* Time brings what is due nearer.
LEMMA TickKeeps ==
    ASSUME ScheduleInv, Tick
    PROVE  ScheduleInv'
<1>. USE DEF ScheduleInv
<1>1. UNCHANGED <<spec, queue, again, backoff, worker, stage, events>>
    BY DEF Tick
<1>2. \A k \in Runs : IF due[k] = Never THEN TRUE ELSE due[k] - 1 \in Nat
    BY DEF Tick, TypeOK
<1>3. due' = [k \in Runs |-> IF due[k] = Never THEN Never ELSE due[k] - 1]
    BY DEF Tick
<1>4. /\ due' \in [Runs -> Nat \cup {Never}]
      /\ \A k \in Runs : due[k] # Never => due'[k] # Never
    BY <1>2, <1>3, ScheduleAssumption
<1>5. left' \in Nat
    BY DEF Tick, TypeOK
<1>6. idle' \in [Runs -> Nat]
    BY DEF Tick, TypeOK
<1>7. TypeOK'
    BY <1>1, <1>4, <1>5, <1>6 DEF TypeOK
<1>8. WorkerInv'
    BY <1>1 DEF WorkerInv, Queued
<1>9. NeverDropped'
    BY <1>1, <1>4 DEF NeverDropped, Scheduled, Queued
<1>. QED
    BY <1>7, <1>8, <1>9

-----------------------------------------------------------------------------
(* The theorems. *)

\* At first each run is queued, once.
LEMMA ScheduleInit == Init => ScheduleInv
<1>. SUFFICES ASSUME Init PROVE ScheduleInv
    OBVIOUS
<1>1. queue \in Seq(Runs) /\ IsInjective(queue) /\ Range(queue) = Runs
    BY QueueInit DEF Init
<1>2. spec \in [Runs -> DurationSpecs]
    BY ScheduleAssumption DEF Init
<1>3. backoff \in [Runs -> BaseBackoff..MaxBackoff]
    BY ScheduleAssumption DEF Init
<1>4. /\ due \in [Runs -> Nat \cup {Never}] /\ idle \in [Runs -> Nat]
      /\ left \in Nat /\ events \in Nat
    BY DEF Init
<1>5. again \in BOOLEAN /\ worker = Nobody /\ stage = "none"
    BY DEF Init
<1>. QED
    BY <1>1, <1>2, <1>3, <1>4, <1>5
       DEF ScheduleInv, TypeOK, Stages, WorkerInv, NeverDropped, Scheduled, Queued

LEMMA ScheduleStep == ScheduleInv /\ [Next]_vars => ScheduleInv'
<1>. SUFFICES ASSUME ScheduleInv, [Next]_vars PROVE ScheduleInv'
    OBVIOUS
<1>1. CASE UNCHANGED vars
    BY <1>1 DEF vars, ScheduleInv, TypeOK, WorkerInv, NeverDropped, Scheduled, Queued
<1>. QED
    BY <1>1, AtOnce, BeginKeeps, EndKeeps, RequestKeeps, ProceedKeeps, TickKeeps DEF Next

\* No run is queued twice, and no delay leaves its bounds (the rate limiter, the
\* work queue).
THEOREM ScheduleTypes == Spec => []TypeOK
<1>1. ScheduleInv => TypeOK
    BY DEF ScheduleInv
<1>. QED
    BY <1>1, ScheduleInit, ScheduleStep, PTL DEF Spec

\* A run drops out of the schedule only by an interval or a retry interval of zero
\* (the results that Reconcile returns).
THEOREM NoRunDropped == Spec => []NeverDropped
<1>1. ScheduleInv => NeverDropped
    BY DEF ScheduleInv
<1>. QED
    BY <1>1, ScheduleInit, ScheduleStep, PTL DEF Spec

-----------------------------------------------------------------------------
(* Sums over sets of runs. *)

\* Induction over the natural numbers: for a set of them, because the provers
\* cannot instantiate the theorem of NaturalsInduction, which is for an operator.
LEMMA InductionOnNat ==
    ASSUME NEW P \in SUBSET Nat, 0 \in P, \A n \in P : n + 1 \in P
    PROVE  P = Nat
<1>. SUFFICES ASSUME Nat \ P # {} PROVE FALSE
    OBVIOUS
<1>1. IsWellFoundedOn(OpToRel(<, Nat), Nat)
    BY NatLessThanWellFounded
<1>2. PICK n \in Nat \ P : \A m \in Nat \ P : ~ (<<m, n>> \in OpToRel(<, Nat))
    BY <1>1, WFMin
<1>3. \A m \in Nat \ P : ~(m < n)
    BY <1>2 DEF OpToRel
<1>4. n # 0
    OBVIOUS
<1>5. n - 1 \in Nat /\ n - 1 < n /\ (n - 1) + 1 = n
    BY <1>4
<1>6. n - 1 \in P
    BY <1>3, <1>5
<1>. QED
    BY <1>5, <1>6

\* Induction over the sets of runs.
LEMMA InductionOnSets ==
    ASSUME NEW P \in SUBSET SUBSET Runs, {} \in P,
           \A s \in SUBSET Runs : s # {} /\ (\A x \in s : s \ {x} \in P) => s \in P
    PROVE  P = SUBSET Runs
<1>. DEFINE N == {n \in Nat : \A s \in SUBSET Runs : Cardinality(s) = n => s \in P}
<1>1. \A s \in SUBSET Runs : IsFiniteSet(s) /\ Cardinality(s) \in Nat
    BY FS_Subset, FS_CardinalityType, ScheduleAssumption
<1>2. 0 \in N
    BY <1>1, FS_EmptySet
<1>3. ASSUME NEW n \in N PROVE n + 1 \in N
    <2>. SUFFICES ASSUME NEW s \in SUBSET Runs, Cardinality(s) = n + 1
                  PROVE  s \in P
        OBVIOUS
    <2>1. s # {}
        BY FS_EmptySet
    <2>2. ASSUME NEW x \in s PROVE s \ {x} \in P
        <3>1. IsFiniteSet(s) /\ n \in Nat
            BY <1>1
        <3>2. Cardinality(s \ {x}) = (n + 1) - 1
            BY <3>1, FS_RemoveElement
        <3>3. s \ {x} \in SUBSET Runs /\ Cardinality(s \ {x}) = n
            BY <3>1, <3>2
        <3>. QED
            BY <3>3
    <2>. QED
        BY <2>1, <2>2
<1>4. N = Nat
    <2>. HIDE DEF N
    <2>1. N \in SUBSET Nat
        BY DEF N
    <2>. QED
        BY <1>2, <1>3, <2>1, InductionOnNat
<1>. QED
    BY <1>1, <1>4

Chosen(s) == CHOOSE x \in s : TRUE

LEMMA ChosenIsIn == \A s : s # {} => Chosen(s) \in s
BY DEF Chosen

\* What FoldSet makes of a set, when it makes f of the smaller ones.
Added(w, f, s) == IF s = {} THEN 0 ELSE w[Chosen(s)] + f[s \ {Chosen(s)}]

\* f adds up w.
AddsUp(f, w) == f = [s \in SUBSET Runs |-> Added(w, f, s)]

LEMMA AddedIsNat ==
    ASSUME NEW w \in [Runs -> Nat], NEW f \in [SUBSET Runs -> Nat], NEW s \in SUBSET Runs
    PROVE  Added(w, f, s) \in Nat
<1>1. CASE s # {}
    <2>1. Chosen(s) \in Runs /\ s \ {Chosen(s)} \in SUBSET Runs
        BY <1>1, ChosenIsIn
    <2>. QED
        BY <2>1 DEF Added
<1>2. CASE s = {}
    BY <1>2 DEF Added
<1>. QED
    BY <1>1, <1>2

LEMMA SomethingAddsUp ==
    ASSUME NEW w \in [Runs -> Nat]
    PROVE  \E f \in [SUBSET Runs -> Nat] : AddsUp(f, w)
<1>. DEFINE upTo(f, n) == \A s \in SUBSET Runs : Cardinality(s) <= n => f[s] = Added(w, f, s)
            N == {n \in Nat : \E f \in [SUBSET Runs -> Nat] : upTo(f, n)}
<1>0. \A s \in SUBSET Runs : IsFiniteSet(s) /\ Cardinality(s) \in Nat
    BY FS_Subset, FS_CardinalityType, ScheduleAssumption
<1>1. 0 \in N
    <2>1. [s \in SUBSET Runs |-> 0] \in [SUBSET Runs -> Nat]
        OBVIOUS
    <2>2. \A s \in SUBSET Runs : Cardinality(s) <= 0 => s = {}
        BY <1>0, FS_EmptySet
    <2>3. upTo([s \in SUBSET Runs |-> 0], 0)
        BY <2>2 DEF Added
    <2>. QED
        BY <2>1, <2>3
<1>2. ASSUME NEW n \in N PROVE n + 1 \in N
    <2>1. PICK f \in [SUBSET Runs -> Nat] : upTo(f, n)
        OBVIOUS
    <2>. DEFINE g == [s \in SUBSET Runs |-> Added(w, f, s)]
    <2>2. g \in [SUBSET Runs -> Nat]
        BY AddedIsNat
    <2>3. \A s \in SUBSET Runs : Cardinality(s) <= n => g[s] = f[s]
        BY <2>1
    <2>4. ASSUME NEW s \in SUBSET Runs, Cardinality(s) <= n + 1
          PROVE  g[s] = Added(w, g, s)
        <3>1. CASE s # {}
            <4>1. Chosen(s) \in s /\ s \ {Chosen(s)} \in SUBSET Runs
                BY <3>1, ChosenIsIn
            <4>2. Cardinality(s \ {Chosen(s)}) = Cardinality(s) - 1
                BY <1>0, <4>1, FS_RemoveElement
            <4>3. Cardinality(s \ {Chosen(s)}) <= n
                BY <1>0, <2>4, <4>2
            <4>4. g[s \ {Chosen(s)}] = f[s \ {Chosen(s)}]
                BY <2>3, <4>1, <4>3
            <4>5. g[s] = w[Chosen(s)] + f[s \ {Chosen(s)}]
                BY <3>1 DEF Added
            <4>. HIDE DEF g
            <4>. QED
                BY <3>1, <4>4, <4>5 DEF Added
        <3>2. CASE s = {}
            BY <3>2 DEF Added
        <3>. QED
            BY <3>1, <3>2
    <2>. HIDE DEF g
    <2>5. upTo(g, n + 1)
        BY <2>4
    <2>. QED
        BY <2>2, <2>5
<1>3. N = Nat
    <2>. HIDE DEF N
    <2>1. N \in SUBSET Nat
        BY DEF N
    <2>. QED
        BY <1>1, <1>2, <2>1, InductionOnNat
<1>4. PICK f \in [SUBSET Runs -> Nat] : upTo(f, Cardinality(Runs))
    BY <1>0, <1>3
<1>5. \A s \in SUBSET Runs : Cardinality(s) <= Cardinality(Runs)
    BY FS_Subset, ScheduleAssumption
<1>6. \A s \in SUBSET Runs : f[s] = Added(w, f, s)
    BY <1>4, <1>5
<1>7. f = [s \in SUBSET Runs |-> Added(w, f, s)]
    BY <1>6
<1>. QED
    BY <1>7 DEF AddsUp

LEMMA AddsUpOnce ==
    ASSUME NEW w \in [Runs -> Nat], NEW f, AddsUp(f, w), NEW g, AddsUp(g, w)
    PROVE  f = g
<1>. DEFINE P == {s \in SUBSET Runs : f[s] = g[s]}
<1>1. \A s \in SUBSET Runs : f[s] = Added(w, f, s) /\ g[s] = Added(w, g, s)
    BY DEF AddsUp
<1>2. {} \in P
    BY <1>1 DEF Added
<1>3. ASSUME NEW s \in SUBSET Runs, s # {}, \A x \in s : s \ {x} \in P
      PROVE  s \in P
    BY <1>1, <1>3, ChosenIsIn DEF Added
<1>4. P = SUBSET Runs
    <2>. HIDE DEF P
    <2>1. P \in SUBSET SUBSET Runs
        BY DEF P
    <2>2. \A s \in SUBSET Runs : s # {} /\ (\A x \in s : s \ {x} \in P) => s \in P
        BY <1>3
    <2>. QED
        BY <1>2, <2>1, <2>2, InductionOnSets, Zenon
<1>5. \A s \in SUBSET Runs : f[s] = g[s]
    BY <1>4
<1>6. f = [s \in SUBSET Runs |-> f[s]] /\ g = [s \in SUBSET Runs |-> g[s]]
    BY DEF AddsUp
<1>. QED
    BY <1>5, <1>6

\* The order in which it is added up does not matter.
LEMMA AnyOrder ==
    ASSUME NEW w \in [Runs -> Nat], NEW f \in [SUBSET Runs -> Nat], AddsUp(f, w)
    PROVE  \A s \in SUBSET Runs : \A x \in s : f[s] = w[x] + f[s \ {x}]
<1>. DEFINE P == {s \in SUBSET Runs : \A x \in s : f[s] = w[x] + f[s \ {x}]}
<1>1. \A s \in SUBSET Runs : s # {} => Chosen(s) \in s /\ f[s] = w[Chosen(s)] + f[s \ {Chosen(s)}]
    BY ChosenIsIn DEF AddsUp, Added
<1>2. ASSUME NEW s \in SUBSET Runs, s # {}, \A x \in s : s \ {x} \in P
      PROVE  s \in P
    <2>. SUFFICES ASSUME NEW x \in s, x # Chosen(s) PROVE f[s] = w[x] + f[s \ {x}]
        BY <1>1
    <2>. DEFINE c == Chosen(s)
    <2>1. c \in s /\ x \in s \ {c} /\ c \in s \ {x}
        BY <1>1, <1>2
    <2>. HIDE DEF c
    <2>2. f[s \ {c}] = w[x] + f[(s \ {c}) \ {x}] /\ f[s \ {x}] = w[c] + f[(s \ {x}) \ {c}]
        BY <1>2, <2>1
    <2>3. f[(s \ {c}) \ {x}] = f[(s \ {x}) \ {c}]
        <3>1. (s \ {c}) \ {x} = (s \ {x}) \ {c}
            OBVIOUS
        <3>. QED
            BY <3>1
    <2>4. f[s] = w[c] + f[s \ {c}]
        BY <1>1, <1>2 DEF c
    <2>5. /\ w[c] \in Nat /\ w[x] \in Nat /\ f[(s \ {c}) \ {x}] \in Nat
        BY <2>1
    <2>. QED
        BY <2>2, <2>3, <2>4, <2>5
<1>3. {} \in P
    OBVIOUS
<1>4. P = SUBSET Runs
    <2>. HIDE DEF P
    <2>1. P \in SUBSET SUBSET Runs
        BY DEF P
    <2>2. \A s \in SUBSET Runs : s # {} /\ (\A x \in s : s \ {x} \in P) => s \in P
        BY <1>2
    <2>. QED
        BY <1>3, <2>1, <2>2, InductionOnSets, Zenon
<1>. QED
    BY <1>4

\* More adds up to more.
LEMMA MoreIsMore ==
    ASSUME NEW w \in [Runs -> Nat], NEW f \in [SUBSET Runs -> Nat], AddsUp(f, w),
           NEW t \in SUBSET Runs, NEW u \in SUBSET t
    PROVE  f[u] <= f[t]
<1>. DEFINE P == {s \in SUBSET Runs : \A r \in SUBSET s : f[r] <= f[s]}
<1>0. \A s \in SUBSET Runs : \A x \in s : f[s] = w[x] + f[s \ {x}]
    BY AnyOrder
<1>1. {} \in P
    <2>1. f[{}] <= f[{}]
        OBVIOUS
    <2>2. \A r \in SUBSET {} : r = {}
        OBVIOUS
    <2>3. \A r \in SUBSET {} : f[r] <= f[{}]
        BY <2>1, <2>2, Zenon
    <2>. QED
        BY <2>3
<1>2. ASSUME NEW s \in SUBSET Runs, s # {}, \A x \in s : s \ {x} \in P
      PROVE  s \in P
    <2>. SUFFICES ASSUME NEW r \in SUBSET s, r # s PROVE f[r] <= f[s]
        OBVIOUS
    <2>1. PICK x \in s : x \notin r
        OBVIOUS
    <2>2. f[r] <= f[s \ {x}]
        <3>1. s \ {x} \in P /\ r \in SUBSET (s \ {x})
            BY <1>2, <2>1
        <3>. QED
            BY <3>1
    <2>3. f[s] = w[x] + f[s \ {x}]
        BY <1>0
    <2>4. w[x] \in Nat /\ f[r] \in Nat /\ f[s \ {x}] \in Nat
        OBVIOUS
    <2>. QED
        BY <2>2, <2>3, <2>4
<1>3. P = SUBSET Runs
    <2>. HIDE DEF P
    <2>1. P \in SUBSET SUBSET Runs
        BY DEF P
    <2>2. \A s \in SUBSET Runs : s # {} /\ (\A x \in s : s \ {x} \in P) => s \in P
        BY <1>2
    <2>. QED
        BY <1>1, <2>1, <2>2, InductionOnSets, Zenon
<1>. QED
    BY <1>3

\* The sum of w over a set of runs.
Total(w, runs) == (CHOOSE f : AddsUp(f, w))[runs]

LEMMA TotalFacts ==
    ASSUME NEW w \in [Runs -> Nat]
    PROVE  /\ \A runs \in SUBSET Runs : Total(w, runs) \in Nat
           /\ \A runs \in SUBSET Runs : \A j \in runs :
                Total(w, runs) = w[j] + Total(w, runs \ {j})
           /\ \A runs \in SUBSET Runs : \A some \in SUBSET runs :
                Total(w, some) <= Total(w, runs)
<1>1. PICK f \in [SUBSET Runs -> Nat] : AddsUp(f, w)
    BY SomethingAddsUp
<1>2. (CHOOSE g : AddsUp(g, w)) = f
    BY <1>1, AddsUpOnce
<1>3. \A runs : Total(w, runs) = f[runs]
    BY <1>2 DEF Total
<1>4. \A runs \in SUBSET Runs : \A j \in runs : f[runs] = w[j] + f[runs \ {j}]
    BY <1>1, AnyOrder
<1>5. \A runs \in SUBSET Runs : \A some \in SUBSET runs : f[some] <= f[runs]
    BY <1>1, MoreIsMore
<1>. QED
    BY <1>3, <1>4, <1>5

\* A run that is not among some adds to their sum.
LEMMA OneMore ==
    ASSUME NEW w \in [Runs -> Nat], NEW k \in Runs, NEW some \in SUBSET (Runs \ {k})
    PROVE  Total(w, some \cup {k}) = w[k] + Total(w, some)
<1>1. some \cup {k} \in SUBSET Runs /\ k \in some \cup {k} /\ (some \cup {k}) \ {k} = some
    OBVIOUS
<1>. QED
    BY <1>1, TotalFacts

-----------------------------------------------------------------------------
(* The time that a run is waited for. *)

Timeouts == [j \in Runs |-> GetTimeout(spec[j])]
Holds == [j \in Runs |-> Longest(j)]
Delays == [j \in Runs |-> LongestDelay(j)]

\* The runs ahead of k in the queue.
Before(q, k) == {q[i] : i \in {h \in DOMAIN q : \E j \in DOMAIN q : h < j /\ q[j] = k}}

\* The longest that the worker goes on with its run.
Rest == CASE stage = "work" -> left + Timeouts[worker] + Timeouts[worker] + Timeouts[worker]
          [] stage = "definitions" -> left + Timeouts[worker] + Timeouts[worker]
          [] stage = "classes"     -> left + Timeouts[worker]
          [] OTHER                 -> left

DueInTime == \A k \in Runs : due[k] # Never => due[k] <= Delays[k]

\* An attempt lasts for its work and three timeouts at most.
HeldInTime ==
    IF worker = Nobody THEN left = 0 ELSE idle[worker] + Rest <= Holds[worker]

\* Between its attempts a run waits for its delay, or drops out.
DelayedInTime ==
    \A k \in Runs : ~Queued(k) /\ worker # k =>
        IF due[k] = Never THEN idle[k] <= Holds[k]
                          ELSE idle[k] + due[k] <= Delays[k] + Holds[k]

\* In the queue it waits for the run at work and for those ahead.
QueuedInTime ==
    \A k \in Runs : Queued(k) =>
        idle[k] + Rest + Total(Holds, Before(queue, k)) <= Delays[k] + Total(Holds, Runs)

TimeInv == DueInTime /\ HeldInTime /\ DelayedInTime /\ QueuedInTime

LEMMA TimeBounds ==
    ASSUME TypeOK
    PROVE  /\ Timeouts \in [Runs -> Nat] /\ Holds \in [Runs -> Nat] /\ Delays \in [Runs -> Nat]
           /\ \A k \in Runs :
                /\ Timeouts[k] = GetTimeout(spec[k])
                /\ MaxWork + Timeouts[k] + Timeouts[k] + Timeouts[k] <= Holds[k]
                /\ GetRequeueAfter(spec[k]) <= Delays[k]
                /\ GetRetryInterval(spec[k]) <= Delays[k]
                /\ RequeueDependency <= Delays[k]
                /\ MaxBackoff <= Delays[k]
<1>1. \A k \in Runs :
        /\ GetTimeout(spec[k]) \in Nat
        /\ GetRequeueAfter(spec[k]) \in Nat /\ GetRetryInterval(spec[k]) \in Nat
    BY DerivedDurations DEF TypeOK
<1>2. \A k \in Runs :
        /\ LongestDelay(k) \in Nat
        /\ GetRequeueAfter(spec[k]) <= LongestDelay(k)
        /\ GetRetryInterval(spec[k]) <= LongestDelay(k)
        /\ RequeueDependency <= LongestDelay(k)
        /\ MaxBackoff <= LongestDelay(k)
    BY <1>1, ScheduleAssumption DEF LongestDelay, Longer
<1>3. \A k \in Runs :
        /\ Longest(k) \in Nat
        /\ MaxWork + GetTimeout(spec[k]) + GetTimeout(spec[k]) + GetTimeout(spec[k])
              <= Longest(k)
    <2>1. \A k \in Runs : Allowance(spec[k]) \in Nat /\ GetTimeout(spec[k]) <= Allowance(spec[k])
        BY DerivedDurations DEF TypeOK
    <2>. QED
        BY <1>1, <2>1, ScheduleAssumption DEF Longest
<1>. QED
    BY <1>1, <1>2, <1>3 DEF Timeouts, Holds, Delays

LEMMA BoundsStay ==
    ASSUME UNCHANGED spec
    PROVE  UNCHANGED <<Timeouts, Holds, Delays>>
BY DEF Timeouts, Holds, Delays, Longest, LongestDelay

\* The worker is held for some time, or none.
LEMMA RestType ==
    ASSUME ScheduleInv, HeldInTime
    PROVE  Rest \in Nat
<1>1. CASE worker = Nobody
    BY <1>1 DEF Rest, HeldInTime, ScheduleInv, WorkerInv
<1>2. CASE worker # Nobody
    <2>1. left \in Nat /\ worker \in Runs
        BY <1>2 DEF ScheduleInv, TypeOK
    <2>2. Timeouts[worker] \in Nat
        BY <2>1, TimeBounds DEF ScheduleInv
    <2>. QED
        BY <2>1, <2>2 DEF Rest
<1>. QED
    BY <1>1, <1>2

\* Who comes to the end of the line waits for no more than all runs.
LEMMA LastInLine ==
    ASSUME ScheduleInv, HeldInTime, NEW k \in Runs, k # worker, ~Queued(k)
    PROVE  Rest + Total(Holds, Range(queue)) + Holds[k] <= Total(Holds, Runs)
<1>. USE DEF ScheduleInv
<1>. DEFINE ahead == Range(queue)
<1>1. Holds \in [Runs -> Nat] /\ Timeouts \in [Runs -> Nat]
    BY TimeBounds
<1>2. ahead \in SUBSET (Runs \ {k})
    BY DEF TypeOK, Queued, Range
<1>3. Total(Holds, ahead \cup {k}) = Holds[k] + Total(Holds, ahead)
    BY <1>1, <1>2, OneMore
<1>4. CASE worker = Nobody
    <2>1. Rest = 0
        BY <1>4 DEF Rest, HeldInTime, WorkerInv
    <2>2. Total(Holds, ahead \cup {k}) <= Total(Holds, Runs)
        BY <1>1, <1>2, TotalFacts
    <2>3. Total(Holds, ahead) \in Nat /\ Holds[k] \in Nat /\ Total(Holds, Runs) \in Nat
        BY <1>1, <1>2, TotalFacts
    <2>. HIDE DEF ahead
    <2>4. Rest + Total(Holds, ahead) + Holds[k] <= Total(Holds, Runs)
        BY <1>3, <2>1, <2>2, <2>3
    <2>. QED
        BY <2>4 DEF ahead
<1>5. CASE worker # Nobody
    <2>1. worker \in Runs /\ ahead \cup {k} \in SUBSET (Runs \ {worker})
        BY <1>2, <1>5 DEF TypeOK, WorkerInv, Queued
    <2>2. Total(Holds, (ahead \cup {k}) \cup {worker}) =
            Holds[worker] + Total(Holds, ahead \cup {k})
        BY <1>1, <2>1, OneMore
    <2>3. Total(Holds, (ahead \cup {k}) \cup {worker}) <= Total(Holds, Runs)
        BY <1>1, <2>1, TotalFacts
    <2>4. /\ Total(Holds, ahead) \in Nat /\ Holds[k] \in Nat /\ Total(Holds, Runs) \in Nat
          /\ Holds[worker] \in Nat /\ idle[worker] \in Nat
        BY <1>1, <1>2, <2>1, TotalFacts DEF TypeOK
    <2>5. Rest \in Nat /\ idle[worker] + Rest <= Holds[worker]
        BY <1>5, RestType DEF HeldInTime
    <2>. HIDE DEF ahead
    <2>6. Rest + Total(Holds, ahead) + Holds[k] <= Total(Holds, Runs)
        BY <1>3, <2>2, <2>3, <2>4, <2>5
    <2>. QED
        BY <2>6 DEF ahead
<1>. QED
    BY <1>4, <1>5

\* The runs ahead are queued.
LEMMA BeforeIsQueued ==
    ASSUME NEW q \in Seq(Runs), NEW k
    PROVE  Before(q, k) \subseteq Range(q) /\ Range(q) \subseteq Runs
BY DEF Before, Range

\* When the head is taken, it is no longer ahead of the others.
LEMMA BeforeTail ==
    ASSUME NEW q \in Seq(Runs), q # <<>>, IsInjective(q), NEW k \in Range(Tail(q))
    PROVE  Head(q) \in Before(q, k) /\ Before(Tail(q), k) \subseteq Before(q, k) \ {Head(q)}
<1>1. Len(q) \in Nat /\ Len(q) > 0 /\ DOMAIN q = 1..Len(q) /\ Head(q) = q[1]
    OBVIOUS
<1>2. /\ DOMAIN Tail(q) = 1..Len(q) - 1
      /\ \A i \in 1..Len(q) - 1 : Tail(q)[i] = q[i + 1]
    BY <1>1
<1>3. \A i, j \in 1..Len(q) : q[i] = q[j] => i = j
    BY <1>1 DEF IsInjective
<1>4. PICK p \in 1..Len(q) - 1 : Tail(q)[p] = k
    BY <1>2 DEF Range
<1>5. p + 1 \in DOMAIN q /\ 1 < p + 1 /\ q[p + 1] = k /\ 1 \in DOMAIN q
    BY <1>1, <1>2, <1>4
<1>6. Head(q) \in Before(q, k)
    BY <1>1, <1>5 DEF Before
<1>7. ASSUME NEW x \in Before(Tail(q), k) PROVE x \in Before(q, k) \ {Head(q)}
    <2>1. PICK h \in 1..Len(q) - 1, j \in 1..Len(q) - 1 :
                x = Tail(q)[h] /\ h < j /\ Tail(q)[j] = k
        BY <1>2 DEF Before
    <2>2. /\ h + 1 \in DOMAIN q /\ j + 1 \in DOMAIN q /\ h + 1 < j + 1
          /\ x = q[h + 1] /\ q[j + 1] = k
        BY <1>1, <1>2, <2>1
    <2>3. x \in Before(q, k)
        BY <2>2 DEF Before
    <2>4. x # q[1]
        BY <1>1, <1>3, <2>2
    <2>. QED
        BY <1>1, <2>3, <2>4
<1>. QED
    BY <1>6, <1>7

\* Who is appended comes after all, and gets ahead of nobody.
LEMMA BeforeAppend ==
    ASSUME NEW q \in Seq(Runs), NEW x \in Runs, x \notin Range(q)
    PROVE  /\ \A k \in Range(q) : Before(Append(q, x), k) = Before(q, k)
           /\ Before(Append(q, x), x) \subseteq Range(q)
<1>1. Len(q) \in Nat /\ DOMAIN q = 1..Len(q)
    OBVIOUS
<1>2. /\ DOMAIN Append(q, x) = 1..Len(q) + 1
      /\ \A i \in 1..Len(q) : Append(q, x)[i] = q[i]
      /\ Append(q, x)[Len(q) + 1] = x
    BY <1>1
<1>3. \A i \in 1..Len(q) + 1, j \in 1..Len(q) + 1 : i < j => i \in 1..Len(q)
    BY <1>1
<1>4. ASSUME NEW k \in Range(q), NEW i \in 1..Len(q) + 1, Append(q, x)[i] = k
      PROVE  i \in 1..Len(q)
    BY <1>1, <1>2, <1>4
<1>5. \A i \in 1..Len(q) : i \in 1..Len(q) + 1
    BY <1>1
<1>6. ASSUME NEW k \in Range(q) PROVE Before(Append(q, x), k) = Before(q, k)
    <2>1. ASSUME NEW y \in Before(q, k) PROVE y \in Before(Append(q, x), k)
        <3>1. PICK h \in 1..Len(q), j \in 1..Len(q) : y = q[h] /\ h < j /\ q[j] = k
            BY <1>1 DEF Before
        <3>2. /\ h \in DOMAIN Append(q, x) /\ j \in DOMAIN Append(q, x)
              /\ y = Append(q, x)[h] /\ Append(q, x)[j] = k
            BY <1>2, <1>5, <3>1
        <3>. QED
            BY <3>1, <3>2 DEF Before
    <2>2. ASSUME NEW y \in Before(Append(q, x), k) PROVE y \in Before(q, k)
        <3>1. PICK h \in 1..Len(q) + 1, j \in 1..Len(q) + 1 :
                    y = Append(q, x)[h] /\ h < j /\ Append(q, x)[j] = k
            BY <1>2 DEF Before
        <3>2. h \in 1..Len(q) /\ j \in 1..Len(q)
            BY <1>3, <1>4, <3>1
        <3>. QED
            BY <1>1, <1>2, <3>1, <3>2 DEF Before
    <2>. QED
        BY <2>1, <2>2
<1>7. ASSUME NEW y \in Before(Append(q, x), x) PROVE y \in Range(q)
    <2>1. PICK h \in 1..Len(q) + 1, j \in 1..Len(q) + 1 : y = Append(q, x)[h] /\ h < j
        BY <1>2, <1>7 DEF Before
    <2>. QED
        BY <1>1, <1>2, <1>3, <2>1 DEF Range
<1>. QED
    BY <1>6, <1>7

\* Those who stay in the queue wait no longer than before if no more is ahead.
LEMMA QueuedStays ==
    ASSUME ScheduleInv, ScheduleInv', TimeInv, UNCHANGED <<Holds, Delays>>,
           NEW k \in Runs, Queued(k), Queued(k)', Rest' \in Nat,
           idle'[k] + Rest' <= idle[k] + Rest,
           Before(queue', k) \subseteq Before(queue, k)
    PROVE  idle'[k] + Rest' + Total(Holds, Before(queue', k)) <= Delays[k] + Total(Holds, Runs)
<1>1. Holds \in [Runs -> Nat] /\ Delays \in [Runs -> Nat]
    BY TimeBounds DEF ScheduleInv
<1>2. Before(queue, k) \in SUBSET Runs /\ Before(queue', k) \in SUBSET Runs
    BY BeforeIsQueued DEF ScheduleInv, TypeOK
<1>3. /\ Total(Holds, Before(queue', k)) <= Total(Holds, Before(queue, k))
      /\ Total(Holds, Before(queue', k)) \in Nat /\ Total(Holds, Before(queue, k)) \in Nat
      /\ Total(Holds, Runs) \in Nat
    BY <1>1, <1>2, TotalFacts
<1>4. /\ idle[k] \in Nat /\ idle'[k] \in Nat /\ Rest \in Nat /\ Delays[k] \in Nat
    BY <1>1, RestType DEF TimeInv, ScheduleInv, TypeOK
<1>5. idle[k] + Rest + Total(Holds, Before(queue, k)) <= Delays[k] + Total(Holds, Runs)
    BY DEF TimeInv, QueuedInTime
<1>. QED
    BY <1>3, <1>4, <1>5

-----------------------------------------------------------------------------
(* The steps, in time. *)

\* No delay is longer than the longest.
LEMMA DelayedInBounds ==
    ASSUME TypeOK, DueInTime, NEW k \in Runs, NEW delay \in Nat, AddAfter(k, delay),
           delay <= Delays[k]
    PROVE  /\ due'[k] # Never => due'[k] \in Nat /\ due'[k] <= Delays[k]
           /\ \A j \in Runs : j # k => due'[j] = due[j]
<1>1. due \in [Runs -> Nat \cup {Never}] /\ due[k] \in Nat \cup {Never}
    BY DEF TypeOK
<1>2. due'[k] \in {delay, due[k]}
    BY <1>1 DEF AddAfter
<1>. QED
    BY <1>1, <1>2 DEF AddAfter, DueInTime

\* An attempt leaves its run with a time in these bounds.
LEMMA LeftWithDelay ==
    ASSUME TypeOK, DueInTime, NEW k \in Runs,
           \/ AddRateLimited(k)
           \/ AddAfter(k, GetRetryInterval(spec[k]))
           \/ AddAfter(k, RequeueDependency)
           \/ AddAfter(k, GetRequeueAfter(spec[k]))
    PROVE  /\ due'[k] # Never => due'[k] \in Nat /\ due'[k] <= Delays[k]
           /\ \A j \in Runs : j # k => due'[j] = due[j]
<1>1. PICK delay \in {backoff[k], GetRetryInterval(spec[k]), RequeueDependency,
                     GetRequeueAfter(spec[k])} : AddAfter(k, delay)
    BY DEF AddRateLimited
<1>2. backoff[k] \in Nat /\ backoff[k] <= MaxBackoff
    BY ScheduleAssumption DEF TypeOK
<1>3. GetRetryInterval(spec[k]) \in Nat /\ GetRequeueAfter(spec[k]) \in Nat
    BY DerivedDurations DEF TypeOK
<1>4. Delays[k] \in Nat /\ MaxBackoff \in Nat /\ RequeueDependency \in Nat
    BY TimeBounds, ScheduleAssumption
<1>5. delay \in Nat /\ delay <= Delays[k]
    BY <1>2, <1>3, <1>4, TimeBounds
<1>. QED
    BY <1>1, <1>5, DelayedInBounds

\* What follows for a run that is taken up, and for those that go on waiting.
LEMMA TakenInTime ==
    ASSUME ScheduleInv, NEW k \in Runs, Take(k)
    PROVE  /\ worker = Nobody /\ UNCHANGED spec
           /\ idle'[k] = 0 /\ ~Queued(k)'
           /\ \A j \in Runs : j # k => idle'[j] = idle[j] /\ (Queued(j)' <=> Queued(j))
           /\ \A j \in Runs : Queued(j)' =>
                k \in Before(queue, j) /\ Before(queue', j) \subseteq Before(queue, j) \ {k}
<1>. USE DEF ScheduleInv
<1>1. /\ Range(queue') = Range(queue) \ {k}
      /\ worker = Nobody
    BY Taken
<1>2. /\ queue \in Seq(Runs) /\ IsInjective(queue) /\ queue # <<>> /\ Head(queue) = k
      /\ queue' = Tail(queue)
      /\ idle' = [idle EXCEPT ![k] = 0]
      /\ UNCHANGED spec
    BY DEF TypeOK, Take
<1>3. \A j \in Runs : Queued(j)' =>
        k \in Before(queue, j) /\ Before(queue', j) \subseteq Before(queue, j) \ {k}
    BY <1>2, BeforeTail DEF Queued
<1>4. idle'[k] = 0 /\ \A j \in Runs : j # k => idle'[j] = idle[j]
    BY <1>2 DEF TypeOK
<1>. QED
    BY <1>1, <1>2, <1>3, <1>4 DEF Queued

\* Nothing is left of the time of an attempt when there is none.
LEMMA TakenRest ==
    ASSUME ScheduleInv, HeldInTime, worker = Nobody
    PROVE  Rest = 0 /\ stage = "none" /\ left = 0
BY DEF ScheduleInv, WorkerInv, HeldInTime, Rest

\* An attempt that ends at once is over in no time.
LEMMA AtOnceInTime ==
    ASSUME ScheduleInv, ScheduleInv', TimeInv, NEW k \in Runs,
           EndAtOnce(k) \/ SourceNotFound(k) \/ NotReady(k)
    PROVE  TimeInv'
<1>. USE DEF TimeInv
<1>1. Take(k) /\ UNCHANGED <<worker, stage, left>>
    BY DEF EndAtOnce, SourceNotFound, NotReady, Free
<1>2. /\ worker = Nobody /\ UNCHANGED spec
      /\ idle'[k] = 0 /\ ~Queued(k)'
      /\ \A j \in Runs : j # k => idle'[j] = idle[j] /\ (Queued(j)' <=> Queued(j))
      /\ \A j \in Runs : Queued(j)' => Before(queue', j) \subseteq Before(queue, j)
    BY <1>1, TakenInTime
<1>3. UNCHANGED <<Timeouts, Holds, Delays>>
    BY <1>2, BoundsStay
<1>4. /\ due'[k] # Never => due'[k] \in Nat /\ due'[k] <= Delays[k]
      /\ \A j \in Runs : j # k => due'[j] = due[j]
    BY LeftWithDelay DEF EndAtOnce, SourceNotFound, NotReady, ScheduleInv
<1>5. Holds[k] \in Nat /\ Delays[k] \in Nat
    BY TimeBounds DEF ScheduleInv
<1>6. Rest = 0 /\ Rest' = 0 /\ HeldInTime'
    BY <1>1, <1>2, TakenRest DEF HeldInTime, Rest
<1>7. DueInTime'
    BY <1>3, <1>4 DEF DueInTime
<1>8. DelayedInTime'
    <2>. SUFFICES ASSUME NEW j \in Runs, ~Queued(j)'
                  PROVE  IF due'[j] = Never THEN idle'[j] <= Holds[j]
                                            ELSE idle'[j] + due'[j] <= Delays[j] + Holds[j]
        BY <1>3 DEF DelayedInTime
    <2>1. CASE j = k
        BY <1>2, <1>4, <1>5, <2>1
    <2>2. CASE j # k
        <3>1. worker # j /\ ~Queued(j) /\ idle'[j] = idle[j] /\ due'[j] = due[j]
            BY <1>2, <1>4, <2>2, ScheduleAssumption
        <3>. QED
            BY <3>1 DEF DelayedInTime
    <2>. QED
        BY <2>1, <2>2
<1>9. QueuedInTime'
    <2>. SUFFICES ASSUME NEW j \in Runs, Queued(j)'
                  PROVE  idle'[j] + Rest' + Total(Holds, Before(queue', j))
                            <= Delays[j] + Total(Holds, Runs)
        BY <1>3 DEF QueuedInTime
    <2>1. Queued(j) /\ idle'[j] = idle[j] /\ Before(queue', j) \subseteq Before(queue, j)
        BY <1>2
    <2>2. idle'[j] + Rest' <= idle[j] + Rest /\ Rest' \in Nat
        BY <1>6, <2>1 DEF ScheduleInv, TypeOK
    <2>. QED
        BY <1>3, <2>1, <2>2, QueuedStays
<1>. QED
    BY <1>6, <1>7, <1>8, <1>9

\* The attempt begins where the wait in the queue ends.
LEMMA BeginInTime ==
    ASSUME ScheduleInv, ScheduleInv', TimeInv, NEW k \in Runs, Begin(k)
    PROVE  TimeInv'
<1>. USE DEF TimeInv
<1>1. /\ worker = Nobody /\ UNCHANGED spec
      /\ idle'[k] = 0 /\ ~Queued(k)'
      /\ \A j \in Runs : j # k => idle'[j] = idle[j] /\ (Queued(j)' <=> Queued(j))
      /\ \A j \in Runs : Queued(j)' =>
            k \in Before(queue, j) /\ Before(queue', j) \subseteq Before(queue, j) \ {k}
    BY TakenInTime DEF Begin
<1>2. worker' = k /\ k # Nobody /\ stage' = "work" /\ UNCHANGED due
    BY ScheduleAssumption DEF Begin
<1>3. UNCHANGED <<Timeouts, Holds, Delays>>
    BY <1>1, BoundsStay
<1>4. /\ Holds \in [Runs -> Nat] /\ Delays \in [Runs -> Nat] /\ Timeouts[k] \in Nat
      /\ MaxWork + Timeouts[k] + Timeouts[k] + Timeouts[k] <= Holds[k]
      /\ left' = MaxWork /\ MaxWork \in Nat
    BY TimeBounds, ScheduleAssumption DEF Begin, ScheduleInv
<1>5. Rest = 0 /\ Rest' \in Nat /\ Rest' <= Holds[k]
    BY <1>1, <1>2, <1>3, <1>4, TakenRest DEF Rest
<1>6. HeldInTime'
    BY <1>1, <1>2, <1>3, <1>4, <1>5 DEF HeldInTime
<1>7. DueInTime'
    BY <1>2, <1>3 DEF DueInTime
<1>8. DelayedInTime'
    <2>. SUFFICES ASSUME NEW j \in Runs, ~Queued(j)', j # k
                  PROVE  IF due[j] = Never THEN idle'[j] <= Holds[j]
                                           ELSE idle'[j] + due[j] <= Delays[j] + Holds[j]
        BY <1>2, <1>3 DEF DelayedInTime
    <2>1. worker # j /\ ~Queued(j) /\ idle'[j] = idle[j]
        BY <1>1, ScheduleAssumption
    <2>. QED
        BY <2>1 DEF DelayedInTime
<1>9. QueuedInTime'
    <2>. SUFFICES ASSUME NEW j \in Runs, Queued(j)'
                  PROVE  idle'[j] + Rest' + Total(Holds, Before(queue', j))
                            <= Delays[j] + Total(Holds, Runs)
        BY <1>3 DEF QueuedInTime
    <2>. DEFINE b == Before(queue, j)
                c == Before(queue', j)
    <2>1. /\ Queued(j) /\ idle'[j] = idle[j]
          /\ k \in b /\ c \subseteq b \ {k} /\ b \subseteq Runs
        BY <1>1, BeforeIsQueued DEF ScheduleInv, TypeOK
    <2>2. /\ Total(Holds, b) = Holds[k] + Total(Holds, b \ {k})
          /\ Total(Holds, c) <= Total(Holds, b \ {k})
          /\ Total(Holds, b) \in Nat /\ Total(Holds, c) \in Nat /\ Total(Holds, b \ {k}) \in Nat
          /\ Total(Holds, Runs) \in Nat
        BY <1>4, <2>1, TotalFacts
    <2>3. idle[j] + Rest + Total(Holds, b) <= Delays[j] + Total(Holds, Runs)
        BY <2>1 DEF QueuedInTime
    <2>4. idle[j] \in Nat /\ Holds[k] \in Nat /\ Delays[j] \in Nat
        BY <1>4 DEF ScheduleInv, TypeOK
    <2>. HIDE DEF b, c
    <2>5. idle[j] + Rest' + Total(Holds, c) <= Delays[j] + Total(Holds, Runs)
        BY <1>5, <2>2, <2>3, <2>4
    <2>. QED
        BY <2>1, <2>5 DEF c
<1>. QED
    BY <1>6, <1>7, <1>8, <1>9

\* The queue stays in time when it does not change and the worker holds on no longer.
LEMMA SameQueueInTime ==
    ASSUME ScheduleInv, ScheduleInv', TimeInv, UNCHANGED <<spec, queue, idle>>,
           Rest' \in Nat, Rest' <= Rest
    PROVE  QueuedInTime'
<1>1. UNCHANGED <<Timeouts, Holds, Delays>>
    BY BoundsStay
<1>. SUFFICES ASSUME NEW j \in Runs, Queued(j)'
              PROVE  idle'[j] + Rest' + Total(Holds, Before(queue', j))
                        <= Delays[j] + Total(Holds, Runs)
    BY <1>1 DEF QueuedInTime
<1>2. Queued(j) /\ Before(queue', j) = Before(queue, j)
    BY DEF Queued
<1>3. idle'[j] + Rest' <= idle[j] + Rest
    BY RestType DEF ScheduleInv, TypeOK, TimeInv
<1>. QED
    BY <1>1, <1>2, <1>3, QueuedStays

\* So it does when a run comes last that is in time behind all the others.
LEMMA AppendedInTime ==
    ASSUME ScheduleInv, ScheduleInv', TimeInv, UNCHANGED <<spec, idle>>,
           Rest' \in Nat, Rest' <= Rest,
           NEW k \in Runs, ~Queued(k), queue' = Append(queue, k),
           idle[k] + Rest' + Total(Holds, Range(queue)) <= Delays[k] + Total(Holds, Runs)
    PROVE  QueuedInTime'
<1>1. UNCHANGED <<Timeouts, Holds, Delays>>
    BY BoundsStay
<1>2. queue \in Seq(Runs) /\ k \notin Range(queue) /\ IsInjective(queue)
    BY DEF ScheduleInv, TypeOK, Queued
<1>3. /\ \A j \in Range(queue) : Before(queue', j) = Before(queue, j)
      /\ Before(queue', k) \subseteq Range(queue)
      /\ Range(queue') = Range(queue) \cup {k}
      /\ Range(queue) \subseteq Runs
    BY <1>2, BeforeAppend, QueueAppend DEF Range
<1>. SUFFICES ASSUME NEW j \in Runs, Queued(j)'
              PROVE  idle'[j] + Rest' + Total(Holds, Before(queue', j))
                        <= Delays[j] + Total(Holds, Runs)
    BY <1>1 DEF QueuedInTime
<1>4. CASE j # k
    <2>1. Queued(j) /\ Before(queue', j) \subseteq Before(queue, j)
        BY <1>3, <1>4 DEF Queued
    <2>2. idle'[j] + Rest' <= idle[j] + Rest
        BY RestType DEF ScheduleInv, TypeOK, TimeInv
    <2>. QED
        BY <1>1, <2>1, <2>2, QueuedStays
<1>5. CASE j = k
    <2>. DEFINE b == Before(queue', k)
                r == Range(queue)
    <2>1. Holds \in [Runs -> Nat] /\ Delays \in [Runs -> Nat] /\ idle[k] \in Nat
        BY TimeBounds DEF ScheduleInv, TypeOK
    <2>2. /\ Total(Holds, b) <= Total(Holds, r)
          /\ Total(Holds, b) \in Nat /\ Total(Holds, r) \in Nat /\ Total(Holds, Runs) \in Nat
        BY <1>3, <2>1, TotalFacts
    <2>3. Delays[k] \in Nat
        BY <2>1
    <2>. HIDE DEF b, r
    <2>4. idle[k] + Rest' + Total(Holds, r) <= Delays[k] + Total(Holds, Runs)
        BY DEF r
    <2>5. idle[k] + Rest' + Total(Holds, b) <= Delays[k] + Total(Holds, Runs)
        BY <2>1, <2>2, <2>3, <2>4
    <2>. QED
        BY <1>5, <2>5 DEF b
<1>. QED
    BY <1>4, <1>5

\* The next wait begins early, or at the time the last one had to end.
LEMMA ProceedInTime ==
    ASSUME ScheduleInv, ScheduleInv', TimeInv, Proceed
    PROVE  TimeInv'
<1>. USE DEF TimeInv
<1>1. UNCHANGED <<spec, queue, due, worker, idle>> /\ worker # Nobody
    BY DEF Proceed
<1>2. UNCHANGED <<Timeouts, Holds, Delays>>
    BY <1>1, BoundsStay
<1>3. PICK k \in Runs : k = worker
    BY <1>1 DEF ScheduleInv, TypeOK
<1>4. /\ Holds[k] \in Nat /\ Timeouts[k] \in Nat /\ idle[k] \in Nat /\ left \in Nat
      /\ left' = Timeouts[k]
    BY <1>3, TimeBounds DEF ScheduleInv, TypeOK, Proceed, WaitFor
<1>5. stage \in {"work", "definitions", "classes"} /\ stage' = After(stage)
    BY DEF Proceed, ScheduleInv, WorkerInv, TypeOK, Stages
<1>6. Rest \in Nat /\ Rest' \in Nat /\ Rest' <= Rest
    <2>0. CASE stage = "work"
        <3>1. stage' = "definitions"
            BY <1>5, <2>0 DEF After
        <3>. QED
            BY <1>1, <1>2, <1>3, <1>4, <2>0, <3>1 DEF Rest
    <2>1. CASE stage = "definitions"
        <3>1. stage' = "classes"
            BY <1>5, <2>1 DEF After
        <3>. QED
            BY <1>1, <1>2, <1>3, <1>4, <2>1, <3>1 DEF Rest
    <2>2. CASE stage = "classes"
        <3>1. stage' = "health"
            BY <1>5, <2>2 DEF After
        <3>. QED
            BY <1>1, <1>2, <1>3, <1>4, <2>2, <3>1 DEF Rest
    <2>. QED
        BY <1>5, <2>0, <2>1, <2>2
<1>7. HeldInTime'
    BY <1>1, <1>2, <1>3, <1>4, <1>6 DEF HeldInTime
<1>8. DueInTime' /\ DelayedInTime'
    BY <1>1, <1>2 DEF DueInTime, DelayedInTime, Queued
<1>9. QueuedInTime'
    BY <1>1, <1>6, SameQueueInTime
<1>. QED
    BY <1>7, <1>8, <1>9

\* An attempt that ends leaves its run with a delay, or in the queue behind the others.
LEMMA EndInTime ==
    ASSUME ScheduleInv, ScheduleInv', TimeInv, Succeed \/ Error
    PROVE  TimeInv'
<1>. USE DEF TimeInv
<1>1. worker # Nobody /\ Release /\ UNCHANGED <<spec, idle>>
    BY DEF Succeed, Error
<1>2. PICK k \in Runs : k = worker
    BY <1>1 DEF ScheduleInv, TypeOK
<1>3. worker' = Nobody /\ stage' = "none" /\ left' = 0
    BY <1>1 DEF Release
<1>4. UNCHANGED <<Timeouts, Holds, Delays>>
    BY <1>1, BoundsStay
<1>5. Holds \in [Runs -> Nat] /\ Delays \in [Runs -> Nat]
    BY TimeBounds DEF ScheduleInv
<1>6. /\ due'[k] # Never => due'[k] \in Nat /\ due'[k] <= Delays[k]
      /\ \A j \in Runs : j # k => due'[j] = due[j]
    BY <1>2, LeftWithDelay DEF Succeed, Error, ScheduleInv
<1>7. Rest' = 0 /\ Rest \in Nat /\ idle[k] + Rest <= Holds[k] /\ idle[k] \in Nat
    <2>1. Rest' = 0
        BY <1>3 DEF Rest
    <2>. QED
        BY <1>1, <1>2, <2>1, RestType DEF HeldInTime, ScheduleInv, TypeOK
<1>8. HeldInTime'
    BY <1>3 DEF HeldInTime
<1>9. DueInTime'
    BY <1>4, <1>6 DEF DueInTime
<1>10. ~Queued(k) /\ (Queued(k)' \/ queue' = queue)
       /\ \A j \in Runs : j # k => (Queued(j)' <=> Queued(j))
    <2>1. ~Queued(k) /\ queue \in Seq(Runs) /\ IsInjective(queue)
        BY <1>1, <1>2 DEF ScheduleInv, WorkerInv, TypeOK
    <2>2. queue' = queue \/ Range(queue') = Range(queue) \cup {k}
        BY <1>1, <1>2, <2>1, QueueAppend DEF Release, Queued
    <2>. QED
        BY <2>1, <2>2 DEF Queued
<1>11. DelayedInTime'
    <2>. SUFFICES ASSUME NEW j \in Runs, ~Queued(j)'
                  PROVE  IF due'[j] = Never THEN idle[j] <= Holds[j]
                                            ELSE idle[j] + due'[j] <= Delays[j] + Holds[j]
        BY <1>1, <1>4 DEF DelayedInTime
    <2>1. CASE j = k
        <3>1. idle[k] <= Holds[k] /\ Holds[k] \in Nat /\ Delays[k] \in Nat
            BY <1>5, <1>7
        <3>. QED
            BY <1>6, <1>7, <2>1, <3>1
    <2>2. CASE j # k
        <3>1. worker # j /\ ~Queued(j) /\ due'[j] = due[j]
            BY <1>2, <1>6, <1>10, <2>2
        <3>. QED
            BY <3>1 DEF DelayedInTime
    <2>. QED
        BY <2>1, <2>2
<1>12. QueuedInTime'
    <2>0. Rest' \in Nat /\ Rest' <= Rest
        BY <1>7
    <2>1. CASE queue' = queue
        BY <1>1, <2>0, <2>1, SameQueueInTime
    <2>2. CASE queue' # queue
        <3>. DEFINE r == Range(queue)
        <3>1. r \in SUBSET (Runs \ {k})
            BY <1>10 DEF ScheduleInv, TypeOK, Queued, Range
        <3>2. Total(Holds, r \cup {k}) = Holds[k] + Total(Holds, r)
            BY <1>5, <3>1, OneMore
        <3>3. /\ Total(Holds, r \cup {k}) <= Total(Holds, Runs)
              /\ Total(Holds, r) \in Nat /\ Total(Holds, Runs) \in Nat
            BY <1>5, <3>1, TotalFacts
        <3>4. Holds[k] \in Nat /\ Delays[k] \in Nat
            BY <1>5
        <3>5. queue' = Append(queue, k)
            BY <1>1, <1>2, <2>2 DEF Release
        <3>. HIDE DEF r
        <3>6. idle[k] + Rest' + Total(Holds, r) <= Delays[k] + Total(Holds, Runs)
            BY <1>7, <3>2, <3>3, <3>4
        <3>. QED
            BY <1>1, <1>10, <2>0, <3>5, <3>6, AppendedInTime DEF r
    <2>. QED
        BY <2>1, <2>2
<1>. QED
    BY <1>8, <1>9, <1>11, <1>12

\* A run that is asked for comes behind the others, when it is neither in the queue
\* nor at work.
LEMMA RequestInTime ==
    ASSUME ScheduleInv, ScheduleInv', TimeInv, NEW k \in Runs, TimerFires(k) \/ Event(k)
    PROVE  TimeInv'
<1>. USE DEF TimeInv
<1>1. Enqueue(k) /\ UNCHANGED <<spec, worker, stage, left, idle>>
    BY DEF TimerFires, Event
<1>2. UNCHANGED <<Timeouts, Holds, Delays>> /\ Rest' = Rest /\ Rest \in Nat
    BY <1>1, BoundsStay, RestType DEF Rest
<1>3. Holds \in [Runs -> Nat] /\ Delays \in [Runs -> Nat] /\ idle[k] \in Nat
    BY TimeBounds DEF ScheduleInv, TypeOK
<1>4. /\ due' = due \/ due'[k] = Never
      /\ \A j \in Runs : j # k => due'[j] = due[j]
    BY DEF TimerFires, Event, ScheduleInv, TypeOK
<1>5. HeldInTime'
    BY <1>1, <1>2 DEF HeldInTime
<1>6. DueInTime'
    BY <1>2, <1>4 DEF DueInTime
<1>7. /\ Queued(k)' \/ k = worker
      /\ \A j \in Runs : Queued(j) => Queued(j)'
    BY <1>1, Enqueued DEF ScheduleInv, Queued
<1>8. DelayedInTime'
    <2>. SUFFICES ASSUME NEW j \in Runs, ~Queued(j)', worker # j
                  PROVE  IF due'[j] = Never THEN idle[j] <= Holds[j]
                                            ELSE idle[j] + due'[j] <= Delays[j] + Holds[j]
        BY <1>1, <1>2 DEF DelayedInTime
    <2>1. j # k /\ ~Queued(j) /\ due'[j] = due[j]
        BY <1>4, <1>7
    <2>. QED
        BY <2>1 DEF DelayedInTime
<1>9. QueuedInTime'
    <2>0. Rest' \in Nat /\ Rest' <= Rest
        BY <1>2
    <2>1. CASE queue' = queue
        BY <1>1, <2>0, <2>1, SameQueueInTime
    <2>2. CASE queue' # queue
        <3>1. k # worker /\ ~Queued(k) /\ queue' = Append(queue, k)
            BY <1>1, <2>2 DEF Enqueue
        <3>. DEFINE r == Range(queue)
        <3>2. r \in SUBSET Runs
            BY DEF ScheduleInv, TypeOK, Range
        <3>3. Total(Holds, r) \in Nat /\ Total(Holds, Runs) \in Nat
            BY <1>3, <3>2, TotalFacts
        <3>4. Holds[k] \in Nat /\ Delays[k] \in Nat
            BY <1>3
        <3>5. Rest + Total(Holds, r) + Holds[k] <= Total(Holds, Runs)
            BY <3>1, LastInLine
        <3>6. idle[k] <= Delays[k] + Holds[k]
            <4>1. due[k] = Never \/ due[k] \in Nat
                BY DEF ScheduleInv, TypeOK
            <4>. QED
                BY <1>3, <3>1, <3>4, <4>1 DEF DelayedInTime
        <3>. HIDE DEF r
        <3>7. idle[k] + Rest' + Total(Holds, r) <= Delays[k] + Total(Holds, Runs)
            BY <1>2, <1>3, <3>3, <3>4, <3>5, <3>6
        <3>. QED
            BY <1>1, <2>0, <3>1, <3>7, AppendedInTime DEF r
    <2>. QED
        BY <2>1, <2>2
<1>. QED
    BY <1>5, <1>6, <1>8, <1>9

\* Time that passes is time of the worker's, or of the delays.
LEMMA TickInTime ==
    ASSUME ScheduleInv, ScheduleInv', TimeInv, Tick
    PROVE  TimeInv'
<1>. USE DEF TimeInv
<1>1. UNCHANGED <<spec, queue, worker, stage>>
    BY DEF Tick
<1>2. UNCHANGED <<Timeouts, Holds, Delays>>
    BY <1>1, BoundsStay
<1>3. Holds \in [Runs -> Nat] /\ Delays \in [Runs -> Nat]
    BY TimeBounds DEF ScheduleInv
<1>4. \A j \in Runs :
        /\ due[j] = Never => due'[j] = Never
        /\ due[j] # Never => due[j] \in Nat \ {0} /\ due'[j] = due[j] - 1
    BY DEF Tick, ScheduleInv, TypeOK
<1>5. \A j \in Runs :
        /\ idle[j] \in Nat
        /\ Scheduled(j) => idle'[j] = idle[j] + 1
        /\ ~Scheduled(j) => idle'[j] = 0
    BY DEF Tick, ScheduleInv, TypeOK
<1>6. DueInTime'
    <2>. SUFFICES ASSUME NEW j \in Runs, due'[j] # Never PROVE due'[j] <= Delays[j]
        BY <1>2 DEF DueInTime
    <2>1. due[j] \in Nat /\ due'[j] = due[j] - 1 /\ due[j] <= Delays[j] /\ Delays[j] \in Nat
        BY <1>3, <1>4 DEF DueInTime
    <2>. QED
        BY <2>1
<1>7. DelayedInTime'
    <2>. SUFFICES ASSUME NEW j \in Runs, ~Queued(j), worker # j
                  PROVE  IF due'[j] = Never THEN idle'[j] <= Holds[j]
                                            ELSE idle'[j] + due'[j] <= Delays[j] + Holds[j]
        BY <1>1, <1>2 DEF DelayedInTime, Queued
    <2>1. Holds[j] \in Nat /\ Delays[j] \in Nat
        BY <1>3
    <2>2. CASE due[j] = Never
        <3>1. idle'[j] = 0 /\ due'[j] = Never
            BY <1>4, <1>5, <2>2 DEF Scheduled
        <3>. QED
            BY <2>1, <3>1
    <2>3. CASE due[j] # Never
        <3>1. idle'[j] = idle[j] + 1 /\ due[j] \in Nat /\ due'[j] = due[j] - 1 /\ idle[j] \in Nat
            BY <1>4, <1>5, <2>3 DEF Scheduled
        <3>2. idle[j] + due[j] <= Delays[j] + Holds[j]
            BY <2>3 DEF DelayedInTime
        <3>3. due'[j] # Never
            BY <1>4, <2>3, ScheduleAssumption
        <3>. QED
            BY <2>1, <3>1, <3>2, <3>3
    <2>. QED
        BY <2>2, <2>3
<1>8. CASE worker = Nobody
    <2>1. left' = 0 /\ worker' = Nobody /\ queue' = <<>>
        BY <1>1, <1>8 DEF Tick
    <2>2. HeldInTime'
        BY <2>1 DEF HeldInTime
    <2>3. QueuedInTime'
        BY <2>1 DEF QueuedInTime, Queued, Range
    <2>. QED
        BY <1>6, <1>7, <2>2, <2>3
<1>9. CASE worker # Nobody
    <2>1. PICK k \in Runs : k = worker
        BY <1>9 DEF ScheduleInv, TypeOK
    <2>2. left \in Nat /\ left > 0 /\ left' = left - 1
        BY <1>9 DEF Tick, ScheduleInv, TypeOK
    <2>3. Holds[k] \in Nat /\ Timeouts[k] \in Nat /\ idle[k] \in Nat /\ idle'[k] = idle[k] + 1
        BY <1>5, <2>1, TimeBounds DEF ScheduleInv, Scheduled
    <2>4. Rest \in Nat /\ Rest' \in Nat /\ Rest' = Rest - 1
        <3>1. Rest \in Nat
            BY RestType
        <3>0. CASE stage = "work"
            BY <1>1, <1>2, <2>1, <2>2, <2>3, <3>0 DEF Rest
        <3>2. CASE stage = "definitions"
            BY <1>1, <1>2, <2>1, <2>2, <2>3, <3>2 DEF Rest
        <3>3. CASE stage = "classes"
            BY <1>1, <1>2, <2>1, <2>2, <2>3, <3>3 DEF Rest
        <3>4. CASE stage \notin {"work", "definitions", "classes"}
            BY <1>1, <2>2, <3>4 DEF Rest
        <3>. QED
            BY <3>0, <3>1, <3>2, <3>3, <3>4
    <2>5. HeldInTime'
        BY <1>1, <1>2, <1>9, <2>1, <2>2, <2>3, <2>4 DEF HeldInTime
    <2>6. QueuedInTime'
        <3>. SUFFICES ASSUME NEW j \in Runs, Queued(j)'
                      PROVE  idle'[j] + Rest' + Total(Holds, Before(queue', j))
                                <= Delays[j] + Total(Holds, Runs)
            BY <1>2 DEF QueuedInTime
        <3>1. Queued(j) /\ Before(queue', j) = Before(queue, j)
            BY <1>1 DEF Queued
        <3>2. idle'[j] = idle[j] + 1 /\ idle[j] \in Nat
            BY <1>5, <3>1 DEF Scheduled
        <3>3. idle'[j] + Rest' <= idle[j] + Rest
            BY <2>4, <3>2
        <3>. QED
            BY <1>2, <2>4, <3>1, <3>3, QueuedStays
    <2>. QED
        BY <1>6, <1>7, <2>5, <2>6
<1>. QED
    BY <1>8, <1>9

LEMMA TimeInit == Init => TimeInv
<1>. SUFFICES ASSUME Init, ScheduleInv PROVE TimeInv
    BY ScheduleInit
<1>1. /\ worker = Nobody /\ stage = "none" /\ left = 0
      /\ \A k \in Runs : due[k] = Never /\ idle[k] = 0
    BY DEF Init
<1>2. Rest = 0
    BY <1>1 DEF Rest
<1>3. Holds \in [Runs -> Nat] /\ Delays \in [Runs -> Nat]
    BY TimeBounds DEF ScheduleInv
<1>4. DueInTime /\ HeldInTime /\ DelayedInTime
    BY <1>1, <1>3 DEF DueInTime, HeldInTime, DelayedInTime
<1>5. ASSUME NEW k \in Runs
      PROVE  idle[k] + Rest + Total(Holds, Before(queue, k)) <= Delays[k] + Total(Holds, Runs)
    <2>. DEFINE b == Before(queue, k)
    <2>1. b \in SUBSET Runs
        BY BeforeIsQueued DEF ScheduleInv, TypeOK
    <2>2. /\ Total(Holds, b) <= Total(Holds, Runs)
          /\ Total(Holds, b) \in Nat /\ Total(Holds, Runs) \in Nat
        BY <1>3, <2>1, TotalFacts
    <2>3. idle[k] = 0 /\ Delays[k] \in Nat
        BY <1>1, <1>3
    <2>. HIDE DEF b
    <2>4. idle[k] + Rest + Total(Holds, b) <= Delays[k] + Total(Holds, Runs)
        BY <1>2, <2>2, <2>3
    <2>. QED
        BY <2>4 DEF b
<1>. QED
    BY <1>4, <1>5 DEF TimeInv, QueuedInTime

LEMMA TimeStep == ScheduleInv /\ TimeInv /\ [Next]_vars => TimeInv'
<1>. SUFFICES ASSUME ScheduleInv, TimeInv, [Next]_vars PROVE TimeInv'
    OBVIOUS
<1>1. ScheduleInv'
    BY ScheduleStep
<1>2. CASE UNCHANGED vars
    <2>1. UNCHANGED <<spec, queue, due, worker, stage, left, idle>>
        BY <1>2 DEF vars
    <2>2. UNCHANGED <<Timeouts, Holds, Delays>> /\ Rest' = Rest /\ Rest \in Nat
        BY <2>1, BoundsStay, RestType DEF Rest, TimeInv
    <2>3. QueuedInTime'
        BY <1>1, <2>1, <2>2, SameQueueInTime, RestType DEF TimeInv, ScheduleInv, TypeOK
    <2>4. DueInTime' /\ HeldInTime' /\ DelayedInTime'
        BY <2>1, <2>2 DEF TimeInv, DueInTime, HeldInTime, DelayedInTime, Queued
    <2>. QED
        BY <2>3, <2>4 DEF TimeInv
<1>. QED
    BY <1>1, <1>2, AtOnceInTime, BeginInTime, EndInTime, RequestInTime, ProceedInTime, TickInTime
       DEF Next

\* The sum that bounds the wait is the one that FoldSet computes.
LEMMA TotalIsFolded ==
    ASSUME TypeOK
    PROVE  Total(Holds, Runs) = FoldSet(LAMBDA j, sum : Longest(j) + sum, 0, Runs)
<1>. DEFINE iter == CHOOSE g : g = [s \in SUBSET Runs |->
                        IF s = {} THEN 0
                        ELSE Longest(CHOOSE x \in s : TRUE) + g[s \ {CHOOSE x \in s : TRUE}]]
<1>1. Holds \in [Runs -> Nat]
    BY TimeBounds
<1>2. PICK f \in [SUBSET Runs -> Nat] : AddsUp(f, Holds)
    BY <1>1, SomethingAddsUp
<1>3. (CHOOSE g : AddsUp(g, Holds)) = f
    BY <1>1, <1>2, AddsUpOnce
<1>4. FoldSet(LAMBDA j, sum : Longest(j) + sum, 0, Runs) = iter[Runs]
    BY DEF FoldSet, MapThenFoldSet
<1>5. ASSUME NEW h
      PROVE  AddsUp(h, Holds) <=>
                h = [s \in SUBSET Runs |->
                        IF s = {} THEN 0
                        ELSE Longest(CHOOSE x \in s : TRUE) + h[s \ {CHOOSE x \in s : TRUE}]]
    <2>1. ASSUME NEW s \in SUBSET Runs
          PROVE  Added(Holds, h, s) =
                        IF s = {} THEN 0
                        ELSE Longest(CHOOSE x \in s : TRUE) + h[s \ {CHOOSE x \in s : TRUE}]
        <3>1. CASE s # {}
            <4>1. Chosen(s) \in Runs
                BY <3>1, ChosenIsIn
            <4>2. Holds[Chosen(s)] = Longest(Chosen(s))
                BY <4>1 DEF Holds
            <4>. QED
                BY <3>1, <4>2 DEF Added, Chosen
        <3>2. CASE s = {}
            BY <3>2 DEF Added
        <3>. QED
            BY <3>1, <3>2
    <2>. QED
        BY <2>1, Zenon DEF AddsUp
<1>6. iter = f
    <2>1. AddsUp(iter, Holds)
        BY <1>2, <1>5
    <2>. QED
        BY <1>1, <1>2, <2>1, AddsUpOnce
<1>. QED
    BY <1>3, <1>4, <1>6, Zenon DEF Total

\* Each run on the schedule is taken up again within its longest delay and the
\* longest attempt of every run, whatever becomes of the attempts and however often
\* watches ask for others (the work queue, one worker, the timeouts of WaitForSet), if
\* the fetch with its retries, the compilation and the calls take MaxWork at most.
THEOREM TakenUpInTime == Spec => []AttemptedInTime
<1>1. ASSUME ScheduleInv, TimeInv, NEW k \in Runs, Scheduled(k)
      PROVE  idle[k] <= Delays[k] + Total(Holds, Runs)
    <2>1. /\ Holds \in [Runs -> Nat] /\ Delays \in [Runs -> Nat]
          /\ idle[k] \in Nat /\ due[k] \in Nat \cup {Never}
        BY <1>1, TimeBounds DEF ScheduleInv, TypeOK
    <2>2. Holds[k] \in Nat /\ Delays[k] \in Nat /\ Rest \in Nat
        BY <1>1, <2>1, RestType DEF TimeInv
    <2>3. Holds[k] <= Total(Holds, Runs) /\ Total(Holds, Runs) \in Nat
        <3>1. Total(Holds, Runs) = Holds[k] + Total(Holds, Runs \ {k})
            BY <2>1, TotalFacts
        <3>2. Total(Holds, Runs \ {k}) \in Nat
            BY <2>1, TotalFacts
        <3>. QED
            BY <2>2, <3>1, <3>2
    <2>4. CASE Queued(k)
        <3>1. Total(Holds, Before(queue, k)) \in Nat
            BY <1>1, <2>1, BeforeIsQueued, TotalFacts DEF ScheduleInv, TypeOK
        <3>2. idle[k] + Rest + Total(Holds, Before(queue, k)) <= Delays[k] + Total(Holds, Runs)
            BY <1>1, <2>4 DEF TimeInv, QueuedInTime
        <3>. QED
            BY <2>1, <2>2, <2>3, <3>1, <3>2
    <2>5. CASE worker = k
        <3>1. k # Nobody
            BY ScheduleAssumption
        <3>2. idle[k] + Rest <= Holds[k]
            BY <1>1, <2>5, <3>1 DEF TimeInv, HeldInTime
        <3>. QED
            BY <2>1, <2>2, <2>3, <3>2
    <2>6. CASE ~Queued(k) /\ worker # k
        <3>1. due[k] # Never /\ due[k] \in Nat
            BY <1>1, <2>1, <2>6 DEF Scheduled
        <3>2. idle[k] + due[k] <= Delays[k] + Holds[k]
            BY <1>1, <2>6, <3>1 DEF TimeInv, DelayedInTime
        <3>. QED
            BY <2>1, <2>2, <2>3, <3>1, <3>2
    <2>. QED
        BY <2>4, <2>5, <2>6
<1>2. \A k \in Runs : Delays[k] = LongestDelay(k)
    BY DEF Delays
<1>3. ScheduleInv /\ TimeInv => AttemptedInTime
    <2>. SUFFICES ASSUME ScheduleInv, TimeInv, NEW k \in Runs, Scheduled(k)
                  PROVE  idle[k] <= LongestDelay(k)
                            + FoldSet(LAMBDA j, sum : Longest(j) + sum, 0, Runs)
        BY DEF AttemptedInTime
    <2>1. idle[k] <= LongestDelay(k) + Total(Holds, Runs)
        BY <1>1, <1>2
    <2>. QED
        BY <2>1, TotalIsFolded, Zenon DEF ScheduleInv
<1>. QED
    BY <1>3, ScheduleInit, ScheduleStep, TimeInit, TimeStep, PTL DEF Spec
=============================================================================
