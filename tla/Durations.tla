----------------------------- MODULE Durations -----------------------------
(***************************************************************************)
(* The durations of a KCLRunSpec, and those derived from it, in units of   *)
(* half a minute.                                                          *)
(***************************************************************************)
EXTENDS Integers

CONSTANTS Unset   \* an optional duration that the spec leaves out

ASSUME UnsetAssumption == Unset \notin Nat

HalfMinute == 1

DurationSpecs == [interval      : Nat,
                  timeout       : Nat \cup {Unset},
                  retryInterval : Nat \cup {Unset}]

Longer(d, e) == IF d < e THEN e ELSE d

\* How long Reconcile waits for what it has applied, each time it waits.
GetTimeout(spec) ==
    Longer(IF spec.timeout = Unset THEN spec.interval - HalfMinute ELSE spec.timeout,
           HalfMinute)

GetRequeueAfter(spec) == spec.interval

\* (Mutant: an interval that is left out is nothing.)
RetryIntervalWithoutDefault(spec) ==
    IF spec.retryInterval = Unset THEN 0 ELSE spec.retryInterval

GetRetryInterval(spec) ==
    IF spec.retryInterval = Unset THEN GetRequeueAfter(spec) ELSE spec.retryInterval
=============================================================================
