----------------------------- MODULE MCSchedule -----------------------------
(***************************************************************************)
(* Small instances of the schedule for TLC.                                *)
(***************************************************************************)
EXTENDS Schedule

CONSTANTS a, b   \* runs

Durations(interval, timeout, retryInterval) ==
    [interval |-> interval, timeout |-> timeout, retryInterval |-> retryInterval]

\* An interval as short as the timeouts it allows, a timeout much shorter than the
\* interval, a retry interval longer than the interval, and "0s", which the CRD's
\* pattern for durations allows.
EdgeDurations ==
    {Durations(1, Unset, Unset), Durations(4, 1, Unset), Durations(2, 2, 3),
     Durations(0, Unset, 1)}

=============================================================================
