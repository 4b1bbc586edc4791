------------------------------ MODULE Schedule ------------------------------
(***************************************************************************)
(* When KCLRuns are reconciled: the delays that Reconcile asks for, the    *)
(* delayed queue and the back-off of the work queue, and the one worker,   *)
(* which an attempt holds for as long as it fetches, compiles, applies and *)
(* waits for what it applied.                                              *)
(*                                                                         *)
(* Time is discrete.  An attempt takes time at its waits, which have a     *)
(* timeout, and for all its other work: that is counted in one piece,      *)
(* ahead of the first wait, and for no longer than MaxWork, since nothing  *)
(* in this code bounds it.  A reconcile that returns before the fetch      *)
(* takes no time.                                                          *)
(***************************************************************************)
EXTENDS Durations, FiniteSets, SequencesExt

CONSTANTS Runs, DurationChoices,   \* the durations users may configure
          RequeueDependency,       \* --requeue-dependency
          BaseBackoff, MaxBackoff, \* of the work queue's rate limiter
          MaxWork,                 \* the longest that the fetch with its retries, the
                                   \* compilation and the calls of an attempt take
          Never,                   \* no delayed item
          Nobody,                  \* the worker has nothing to do
          MaxEvents                \* bounds watch events

ASSUME ScheduleAssumption ==
    /\ Runs # {} /\ IsFiniteSet(Runs)
    /\ DurationChoices \subseteq DurationSpecs
    /\ RequeueDependency \in Nat \ {0}
    /\ BaseBackoff \in Nat \ {0} /\ MaxBackoff \in Nat /\ BaseBackoff <= MaxBackoff
    /\ MaxWork \in Nat
    /\ Never \notin Nat /\ Nobody \notin Runs
    /\ MaxEvents \in Nat

VARIABLES
    spec,     \* the durations of each run
    queue,    \* first in, first out, no run twice
    again,    \* the worker's run was asked for meanwhile
    due,      \* the time after which a delayed run is queued, or Never
    backoff,  \* the next delay of the rate limiter
    worker,   \* the run being reconciled, or Nobody
    stage,    \* its work, or what it waits for
    left,     \* the time it goes on with that at most
    idle,     \* history: how long each run has been waited for since it was last
              \* taken up; 0 while it is not on the schedule
    events

vars == <<spec, queue, again, due, backoff, worker, stage, left, idle, events>>

Stages == {"none", "work", "definitions", "classes", "health"}

TypeOK ==
    /\ spec \in [Runs -> DurationSpecs]
    /\ queue \in Seq(Runs) /\ IsInjective(queue)
    /\ again \in BOOLEAN
    /\ due \in [Runs -> Nat \cup {Never}]
    /\ backoff \in [Runs -> BaseBackoff..MaxBackoff]
    /\ worker \in Runs \cup {Nobody}
    /\ stage \in Stages
    /\ left \in Nat
    /\ idle \in [Runs -> Nat]
    /\ events \in Nat

Init ==
    /\ spec \in [Runs -> DurationChoices]
    /\ queue \in SetToSeqs(Runs)
    /\ again = FALSE
    /\ due = [k \in Runs |-> Never]
    /\ backoff = [k \in Runs |-> BaseBackoff]
    /\ worker = Nobody /\ stage = "none" /\ left = 0
    /\ idle = [k \in Runs |-> 0]
    /\ events = 0

-----------------------------------------------------------------------------
(* The work queue. *)

Queued(k) == k \in Range(queue)

Scheduled(k) == Queued(k) \/ due[k] # Never \/ worker = k

\* A run is queued once; the one being reconciled, when that is done.
Enqueue(k) ==
    IF k = worker THEN again' = TRUE /\ UNCHANGED queue
    ELSE /\ queue' = IF Queued(k) THEN queue ELSE Append(queue, k)
         /\ UNCHANGED again

\* The delayed queue keeps the earlier of two times for the same run; a delay of
\* nothing at all queues nothing.
AddAfter(k, delay) ==
    due' = [due EXCEPT ![k] = CASE delay = 0 -> @
                                [] delay # 0 /\ @ = Never -> delay
                                [] OTHER -> IF delay < @ THEN delay ELSE @]

Forget(k) == backoff' = [backoff EXCEPT ![k] = BaseBackoff]

\* (Mutant: without a limit.)
DoubledWithoutLimit(delay) == 2 * delay

Doubled(delay) == IF 2 * delay > MaxBackoff THEN MaxBackoff ELSE 2 * delay

\* Each failure in a row doubles the delay.
AddRateLimited(k) ==
    /\ AddAfter(k, backoff[k])
    /\ backoff' = [backoff EXCEPT ![k] = Doubled(@)]

-----------------------------------------------------------------------------
(* Reconcile, by the ways it returns. *)

Take(k) ==
    /\ worker = Nobody
    /\ queue # <<>> /\ Head(queue) = k
    /\ queue' = Tail(queue)
    /\ idle' = [idle EXCEPT ![k] = 0]
    /\ UNCHANGED <<spec, again, events>>

Free == UNCHANGED <<worker, stage, left>>

\* The finalizer has been added, or an error comes before the fetch: the source
\* cannot be read, the status cannot be patched.
EndAtOnce(k) ==
    /\ Take(k)
    /\ AddRateLimited(k)
    /\ Free

\* The source is not there, or access to it is denied.
SourceNotFound(k) ==
    /\ Take(k)
    /\ AddAfter(k, GetRetryInterval(spec[k])) /\ Forget(k)
    /\ Free

\* The source has no artifact, or a dependency is not ready.
NotReady(k) ==
    /\ Take(k)
    /\ AddAfter(k, RequeueDependency) /\ Forget(k)
    /\ Free

\* (Mutant: a wait lasts for the whole interval.)
WaitForInterval(k) == spec[k].interval

\* The timeout that apply and checkHealth give WaitForSet.
WaitFor(k) == GetTimeout(spec[k])

\* The artifact is fetched and compiled.
Begin(k) ==
    /\ Take(k)
    /\ worker' = k /\ stage' = "work" /\ left' = MaxWork
    /\ UNCHANGED <<due, backoff>>

After(s) == CASE s = "work" -> "definitions"
              [] s = "definitions" -> "classes"
              [] s = "classes" -> "health"

\* The work is done, or what is waited for is ready; the next is waited for in turn.
Proceed ==
    /\ worker # Nobody /\ stage # "health"
    /\ stage' = After(stage) /\ left' = WaitFor(worker)
    /\ UNCHANGED <<spec, queue, again, due, backoff, worker, idle, events>>

Release ==
    /\ worker' = Nobody /\ stage' = "none" /\ left' = 0
    /\ queue' = IF again THEN Append(queue, worker) ELSE queue
    /\ again' = FALSE

Succeed ==
    /\ worker # Nobody /\ stage = "health"
    /\ AddAfter(worker, GetRequeueAfter(spec[worker])) /\ Forget(worker)
    /\ Release
    /\ UNCHANGED <<spec, idle, events>>

\* The wait times out, or the fetch, the compilation or any call fails.
Error ==
    /\ worker # Nobody
    /\ AddRateLimited(worker)
    /\ Release
    /\ UNCHANGED <<spec, idle, events>>

-----------------------------------------------------------------------------
(* Time and events. *)

TimerFires(k) ==
    /\ due[k] = 0
    /\ due' = [due EXCEPT ![k] = Never]
    /\ Enqueue(k)
    /\ UNCHANGED <<spec, backoff, worker, stage, left, idle, events>>

\* Time passes while the worker has nothing to do, works or waits.
Tick ==
    /\ IF worker = Nobody THEN queue = <<>> ELSE left > 0
    /\ \A k \in Runs : due[k] # 0
    /\ due' = [k \in Runs |-> IF due[k] = Never THEN Never ELSE due[k] - 1]
    /\ left' = IF worker = Nobody THEN 0 ELSE left - 1
    /\ idle' = [k \in Runs |-> IF Scheduled(k) THEN idle[k] + 1 ELSE 0]
    /\ UNCHANGED <<spec, queue, again, backoff, worker, stage, events>>

\* A watch asks for a run.
Event(k) ==
    /\ events < MaxEvents
    /\ events' = events + 1
    /\ Enqueue(k)
    /\ UNCHANGED <<spec, due, backoff, worker, stage, left, idle>>

Next ==
    \/ \E k \in Runs : \/ EndAtOnce(k) \/ SourceNotFound(k) \/ NotReady(k) \/ Begin(k)
                       \/ TimerFires(k) \/ Event(k)
    \/ Proceed \/ Succeed \/ Error
    \/ Tick

Spec == Init /\ [][Next]_vars

-----------------------------------------------------------------------------
(* Properties. *)

\* The longest that a run's spec lets a single wait last: its timeout, or the interval
\* where it has none ("a default timeout of 30sec shorter than the reconciliation
\* interval", checkHealth), and half a minute at least.
Allowance(durations) ==
    Longer(IF durations.timeout = Unset THEN durations.interval ELSE durations.timeout,
           HalfMinute)

\* The longest that one attempt holds the worker: its work and three waits, of as
\* long as the run's spec allows.
Longest(k) == MaxWork + 3 * Allowance(spec[k])

\* The longest delay that Reconcile or the work queue asks for.
LongestDelay(k) ==
    Longer(Longer(GetRequeueAfter(spec[k]), GetRetryInterval(spec[k])),
           Longer(RequeueDependency, MaxBackoff))

\* A run drops out of the schedule only if its interval or its retry interval is
\* zero, which Reconcile passes on as a request for no requeueing at all: no
\* combination of events, timers that are pending already, failures and other runs
\* loses one.
NeverDropped ==
    \A k \in Runs : Scheduled(k) \/ 0 \in {spec[k].interval, spec[k].retryInterval}

\* Whatever becomes of the attempts, and however often watches ask for other
\* runs, each run on the schedule is taken up again within the longest delay and
\* the longest attempt of every run, its own included.  If fetching, compiling and
\* applying take MaxWork at most, a run that waits for objects which never get ready
\* holds the others up for that and three times what its spec allows, no more.
AttemptedInTime ==
    \A k \in Runs :
        Scheduled(k) =>
            idle[k] <= LongestDelay(k)
                        + FoldSet(LAMBDA j, sum : Longest(j) + sum, 0, Runs)
=============================================================================
