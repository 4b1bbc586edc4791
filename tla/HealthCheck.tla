---------------------------- MODULE HealthCheck ----------------------------
(***************************************************************************)
(* checkHealth in detail: which objects a run waits for, how the status of *)
(* a Job is read, and the poller, which reads the objects one after the    *)
(* other while they change.                                                *)
(***************************************************************************)
EXTENDS Naturals, Sequences

CONSTANTS Objects,      \* identifiers: group, kind, namespace and name
          Self,         \* the run whose health is checked, one of them
          Applied,      \* what its program names
          HealthChecks, \* the choices for spec.healthChecks: sets of references,
                        \* of apiVersion, kind, namespace and name
          GroupOf,      \* the group of an apiVersion, or Malformed
          Preferred,    \* the apiVersion that the cluster prefers for a kind
          Malformed, Omitted,
          MaxFaults     \* bounds timeouts of sets that are ready, and failures

IsJob(x) == x.group = "batch" /\ x.kind = "Job"

ASSUME HealthAssumption ==
    /\ Self \in Objects /\ Applied \subseteq Objects \ {Self}
    /\ ~IsJob(Self)
    /\ \A x \in Objects : x.group # Malformed
    /\ \A c \in UNION HealthChecks : c.apiVersion \in DOMAIN GroupOf \cup {Omitted}
    /\ \A kind \in DOMAIN Preferred : Preferred[kind] \in DOMAIN GroupOf
    /\ MaxFaults \in Nat

VARIABLES
    present,     \* the objects there are
    conditions,  \* of each Job, in the order in which they were added
    available,   \* objects of other kinds that are current
    wait, refs,  \* spec.wait and spec.healthChecks
    toCheck,     \* what the poller reads
    last,        \* the status last read of each of these
    verdict,     \* of checkHealth: none while it waits
    completed,   \* history: Jobs that have completed since they were created
    faults

objectVars == <<present, conditions, available, completed>>
checkVars == <<wait, refs, toCheck, last, verdict>>
vars == <<objectVars, checkVars, faults>>

Jobs == {x \in Objects : IsJob(x)}

Condition == [type   : {"Suspended", "SuccessCriteriaMet", "FailureTarget", "Complete", "Failed"},
              status : {"True", "False"}]

Statuses == {"InProgress", "Failed", "Current", "NotFound"}

-----------------------------------------------------------------------------
(* The Job status reader. *)

Deciding(c) == c.type \in {"Complete", "Failed"} /\ c.status = "True"

\* The first condition that decides is of this type.
DecidedBy(conds, type) ==
    \E i \in DOMAIN conds :
        /\ Deciding(conds[i]) /\ conds[i].type = type
        /\ \A j \in 1..i - 1 : ~Deciding(conds[j])

\* (Mutant: as in cli-utils, where a Job that has started is current.)
StartedIsCurrent(conds) == IF DecidedBy(conds, "Failed") THEN "Failed" ELSE "Current"

jobConditions(conds) == IF DecidedBy(conds, "Complete") THEN "Current"
                        ELSE IF DecidedBy(conds, "Failed") THEN "Failed" ELSE "InProgress"

Supports(x) == IsJob(x)

\* What kstatus reads of an object.  The run itself gets ready after its check.
ReadStatus(x) ==
    CASE x \notin present                   -> "NotFound"
      [] x \in present /\ x = Self          -> IF verdict = "healthy" THEN "Current"
                                                                      ELSE "InProgress"
      [] x \in present /\ Supports(x)       -> jobConditions(conditions[x])
      [] OTHER                              -> IF x \in available THEN "Current"
                                                                  ELSE "InProgress"

-----------------------------------------------------------------------------
(* The objects that are checked. *)

APIVersion(c) == IF c.apiVersion = Omitted THEN "apps/v1" ELSE c.apiVersion

ParseGroupVersion(c) == GroupOf[APIVersion(c)]

\* (Mutant: a version that cannot be parsed is taken as it is.)
AnyVersion(set) == TRUE

\* One reference that cannot be parsed is an error for all.
AllParsed(set) == \A c \in set : ParseGroupVersion(c) # Malformed

ToObjMetadata(c) ==
    [group |-> ParseGroupVersion(c), kind |-> c.kind,
     namespace |-> c.namespace, name |-> c.name]

ReferenceToObjMetadataSet(set) == {ToObjMetadata(c) : c \in set}

\* (Mutant: no guard.)
WithItself(set) == set

\* Guard against deadlock: not the run itself.
WithoutItself(set) ==
    {x \in set : ~(x.kind = Self.kind /\ x.name = Self.name
                    /\ x.namespace = Self.namespace)}

Selected == IF wait THEN Applied ELSE ReferenceToObjMetadataSet(refs)

ToCheck == WithoutItself(Selected)

-----------------------------------------------------------------------------
Unread(set) == [x \in set |-> "NotFound"]

TypeOK ==
    /\ present \subseteq Objects /\ available \subseteq Objects \ Jobs
    /\ completed \subseteq Jobs
    /\ conditions \in [Jobs -> Seq(Condition)]
    /\ wait \in BOOLEAN /\ refs \in HealthChecks
    /\ \A x \in toCheck : x.group # Malformed
    /\ last \in [toCheck -> Statuses]
    /\ verdict \in {"none", "waiting", "healthy", "unhealthy"}
    /\ faults \in 0..MaxFaults

Init ==
    /\ present = Objects \ Applied
    /\ conditions = [j \in Jobs |-> <<>>]
    /\ available = {} /\ completed = {}
    /\ wait \in BOOLEAN /\ refs \in HealthChecks
    /\ toCheck = {} /\ last = Unread({})
    /\ verdict = "none"
    /\ faults = 0

Fault == faults < MaxFaults /\ faults' = faults + 1

\* Before the check, apply creates what there is not.
Apply ==
    LET created == Applied \ present
    IN  /\ present' = present \cup Applied
        /\ conditions' = [j \in Jobs |-> IF j \in created THEN <<>> ELSE conditions[j]]
        /\ completed' = completed \ created

\* There is something to wait for.
Check ==
    /\ verdict # "waiting"
    /\ wait \/ AllParsed(refs)
    /\ Selected # {}
    /\ Apply
    /\ toCheck' = ToCheck
    /\ last' = Unread(ToCheck)
    /\ verdict' = "waiting"
    /\ UNCHANGED <<available, wait, refs, faults>>

SkipCheck ==
    /\ verdict # "waiting"
    /\ wait \/ AllParsed(refs)
    /\ Selected = {}
    /\ Apply
    /\ verdict' = "healthy"
    /\ UNCHANGED <<available, wait, refs, toCheck, last, faults>>

\* A reference cannot be parsed.
CheckFails ==
    /\ verdict # "waiting"
    /\ ~wait /\ ~AllParsed(refs)
    /\ Apply
    /\ verdict' = "unhealthy"
    /\ UNCHANGED <<available, wait, refs, toCheck, last, faults>>

Poll(x) ==
    /\ verdict = "waiting"
    /\ x \in toCheck
    /\ last' = [last EXCEPT ![x] = ReadStatus(x)]
    /\ UNCHANGED <<objectVars, wait, refs, toCheck, verdict, faults>>

\* WaitForSet returns once the statuses it has read last are all current.
Pass ==
    /\ verdict = "waiting"
    /\ \A x \in toCheck : last[x] = "Current"
    /\ verdict' = "healthy"
    /\ UNCHANGED <<objectVars, wait, refs, toCheck, last, faults>>

\* The wait does not end early for an object that has failed.
TimesOut ==
    /\ verdict = "waiting"
    /\ IF \A x \in toCheck : ReadStatus(x) = "Current" THEN Fault ELSE UNCHANGED faults
    /\ verdict' = "unhealthy"
    /\ UNCHANGED <<objectVars, wait, refs, toCheck, last>>

-----------------------------------------------------------------------------
(* The Job controller, and those of other kinds. *)

Has(j, type) == \E i \in DOMAIN conditions[j] : conditions[j][i].type = type

SetCondition(j, type, status) ==
    conditions' = [conditions EXCEPT ![j] =
        IF Has(j, type)
        THEN [i \in DOMAIN @ |-> IF @[i].type = type THEN [@[i] EXCEPT !.status = status] ELSE @[i]]
        ELSE Append(@, [type |-> type, status |-> status])]

Finished(j) == Has(j, "Complete") \/ Has(j, "Failed")

\* A Job is suspended before it starts, and resumed.
Suspend(j) ==
    /\ conditions[j] = <<>> /\ SetCondition(j, "Suspended", "True")
    /\ UNCHANGED <<present, available, completed>>

Resume(j) ==
    /\ \E i \in DOMAIN conditions[j] : conditions[j][i] = [type |-> "Suspended", status |-> "True"]
    /\ SetCondition(j, "Suspended", "False")
    /\ UNCHANGED <<present, available, completed>>

Running(j) ==
    /\ ~Finished(j)
    /\ \A i \in DOMAIN conditions[j] : conditions[j][i] # [type |-> "Suspended", status |-> "True"]

\* The outcome is known before the last pod is gone.
Succeeding(j) ==
    /\ Running(j) /\ ~Has(j, "FailureTarget") /\ ~Has(j, "SuccessCriteriaMet")
    /\ SetCondition(j, "SuccessCriteriaMet", "True")
    /\ UNCHANGED <<present, available, completed>>

Complete(j) ==
    /\ Running(j) /\ Has(j, "SuccessCriteriaMet")
    /\ SetCondition(j, "Complete", "True")
    /\ completed' = completed \cup {j}
    /\ UNCHANGED <<present, available>>

Failing(j) ==
    /\ Running(j) /\ ~Has(j, "FailureTarget") /\ ~Has(j, "SuccessCriteriaMet")
    /\ SetCondition(j, "FailureTarget", "True")
    /\ UNCHANGED <<present, available, completed>>

FailJob(j) ==
    /\ Running(j) /\ Has(j, "FailureTarget")
    /\ SetCondition(j, "Failed", "True")
    /\ UNCHANGED <<present, available, completed>>

\* ttlSecondsAfterFinished.
Expire(j) ==
    /\ Finished(j)
    /\ present' = present \ {j}
    /\ UNCHANGED <<conditions, available, completed>>

JobStep(j) ==
    /\ j \in present
    /\ \/ Suspend(j) \/ Resume(j) \/ Succeeding(j) \/ Complete(j)
       \/ Failing(j) \/ FailJob(j) \/ Expire(j)
    /\ UNCHANGED <<checkVars, faults>>

RollOut(x) ==
    /\ x \in present \ (Jobs \cup {Self} \cup available)
    /\ available' = available \cup {x}
    /\ UNCHANGED <<present, conditions, completed, checkVars, faults>>

Degrade(x) ==
    /\ x \in available
    /\ Fault
    /\ available' = available \ {x}
    /\ UNCHANGED <<present, conditions, completed, checkVars>>

Next ==
    \/ Check \/ SkipCheck \/ CheckFails \/ Pass \/ TimesOut
    \/ \E x \in toCheck : Poll(x)
    \/ \E j \in Jobs : JobStep(j)
    \/ \E x \in Objects : RollOut(x) \/ Degrade(x)

Spec == Init /\ [][Next]_vars

\* A failed check is retried, a passed one repeated at each interval; the poller
\* reads every object again and again.
Fairness ==
    /\ WF_vars(Check) /\ WF_vars(SkipCheck) /\ WF_vars(CheckFails) /\ WF_vars(Pass) /\ WF_vars(TimesOut)
    /\ WF_vars(\E x \in toCheck : Poll(x) /\ last[x] # ReadStatus(x))

FairSpec == Spec /\ Fairness

-----------------------------------------------------------------------------
(* Properties. *)

\* "return Current status only when the Job has completed as opposed to when it's
\* in progress" (job.go:55): a check passes only when every Job it waited for has
\* completed since it was last created, however the reads of the poller fall
\* between the steps of the Jobs, and though a Job may expire and be created anew.
HealthyMeansCompleted ==
    [][Pass => toCheck \cap Jobs \subseteq completed']_vars

\* What the CRD says that a reference means: without an apiVersion, "the Kubernetes
\* preferred version will be used"; without a namespace, "it acts as
\* LocalObjectReference".
Meant(c) ==
    [group     |-> GroupOf[IF c.apiVersion = Omitted THEN Preferred[c.kind] ELSE c.apiVersion],
     kind      |-> c.kind,
     namespace |-> IF c.namespace = Omitted THEN Self.namespace ELSE c.namespace,
     name      |-> c.name]

MeantToCheck == IF wait THEN Applied ELSE {Meant(c) : c \in refs}

\* Once all the objects that a run is to wait for are current and stay so, its
\* checks pass: it waits for no other object, nor for itself.  The exception is a
\* reference that does not name what the CRD says it names: Reconcile takes an
\* omitted namespace to be none at all, and an omitted apiVersion to be apps/v1.
PassesOnceCurrent ==
    /\ \A c \in refs : wait \/ ToObjMetadata(c) = Meant(c)
    /\ <>[](\A x \in MeantToCheck \ {Self} : ReadStatus(x) = "Current")
    => []<>(verdict = "healthy")
=============================================================================
