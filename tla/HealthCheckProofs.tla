------------------------- MODULE HealthCheckProofs -------------------------
(***************************************************************************)
(* A health check passes only on Jobs that have completed: proved for any  *)
(* objects, any references and any number of timeouts.                     *)
(***************************************************************************)
EXTENDS HealthCheck, TLAPS

\* What the status reader looks at is a list of conditions.
ConditionsAreLists == conditions \in [Jobs -> Seq(Condition)]

\* The poller has a status for each object that it reads.
LastIsRead == last = [x \in toCheck |-> last[x]]

\* A Job that says it is complete has completed.
CompleteMeansCompleted ==
    \A j \in Jobs : \A i \in DOMAIN conditions[j] :
        conditions[j][i].type = "Complete" => j \in completed

\* What the poller last read of a Job was true, and still is.
CurrentMeansCompleted ==
    verdict = "waiting" =>
        \A j \in toCheck \cap Jobs : last[j] = "Current" => j \in completed

HealthInv ==
    /\ ConditionsAreLists
    /\ LastIsRead
    /\ CompleteMeansCompleted
    /\ CurrentMeansCompleted

\* A Job is read as current only because of a condition that says Complete.
LEMMA CurrentIsComplete ==
    ASSUME NEW j \in Jobs, ReadStatus(j) = "Current", CompleteMeansCompleted
    PROVE  j \in completed
<1>1. j # Self
    BY HealthAssumption DEF Jobs
<1>2. jobConditions(conditions[j]) = "Current"
    BY <1>1 DEF ReadStatus, Supports, Jobs
<1>3. \E i \in DOMAIN conditions[j] : conditions[j][i].type = "Complete"
    BY <1>2 DEF jobConditions, DecidedBy
<1>. QED
    BY <1>3 DEF CompleteMeansCompleted

\* Setting a condition of another type than Complete makes no Job say so.
LEMMA SetOtherCondition ==
    ASSUME HealthInv, NEW j \in Jobs, NEW type, NEW status,
           [type |-> type, status |-> status] \in Condition,
           SetCondition(j, type, status),
           completed \subseteq completed', type = "Complete" => j \in completed'
    PROVE  ConditionsAreLists' /\ CompleteMeansCompleted'
<1>. DEFINE c == conditions[j]
            new == [type |-> type, status |-> status]
            updated == [i \in DOMAIN c |-> IF c[i].type = type
                                           THEN [c[i] EXCEPT !.status = status] ELSE c[i]]
<1>1. c \in Seq(Condition) /\ conditions \in [Jobs -> Seq(Condition)]
    BY DEF HealthInv, ConditionsAreLists
<1>2. \A i \in DOMAIN c : c[i] \in Condition
    BY <1>1
<1>3. CASE Has(j, type)
    <2>1. conditions' = [conditions EXCEPT ![j] = updated]
        BY <1>3 DEF SetCondition
    <2>2. \A i \in DOMAIN c : updated[i] \in Condition /\ updated[i].type = c[i].type
        BY <1>2 DEF Condition
    <2>3. DOMAIN updated = 1..Len(c) /\ Len(c) \in Nat
        BY <1>1
    <2>4. updated \in Seq(Condition)
        BY <2>2, <2>3, <1>1
    <2>5. \A i \in DOMAIN updated : updated[i].type = "Complete" => j \in completed'
        BY <2>2 DEF HealthInv, CompleteMeansCompleted
    <2>. QED
        BY <2>1, <2>4, <2>5, <1>1 DEF HealthInv, ConditionsAreLists, CompleteMeansCompleted
<1>4. CASE ~Has(j, type)
    <2>1. conditions' = [conditions EXCEPT ![j] = Append(c, new)]
        BY <1>4 DEF SetCondition
    <2>2. Append(c, new) \in Seq(Condition)
        BY <1>1
    <2>3. \A i \in DOMAIN Append(c, new) :
                Append(c, new)[i].type = "Complete" => j \in completed'
        <3>. SUFFICES ASSUME NEW i \in DOMAIN Append(c, new),
                             Append(c, new)[i].type = "Complete"
                      PROVE  j \in completed'
            OBVIOUS
        <3>1. CASE i \in DOMAIN c
            <4>1. Append(c, new)[i] = c[i]
                BY <3>1, <1>1
            <4>. QED
                BY <4>1, <3>1 DEF HealthInv, CompleteMeansCompleted
        <3>2. CASE i \notin DOMAIN c
            <4>1. i = Len(c) + 1
                BY <3>2, <1>1
            <4>2. Append(c, new)[i] = new
                BY <4>1, <1>1
            <4>. QED
                BY <4>2
        <3>. QED
            BY <3>1, <3>2
    <2>. QED
        BY <2>1, <2>2, <2>3, <1>1 DEF HealthInv, ConditionsAreLists, CompleteMeansCompleted
<1>. QED
    BY <1>3, <1>4

\* The invariant holds before the first apply.
LEMMA HealthInit == Init => HealthInv
<1>. SUFFICES ASSUME Init PROVE HealthInv
    OBVIOUS
<1>1. ConditionsAreLists
    BY DEF Init, ConditionsAreLists
<1>2. LastIsRead
    BY DEF Init, LastIsRead, Unread
<1>3. CompleteMeansCompleted
    BY DEF Init, CompleteMeansCompleted
<1>4. CurrentMeansCompleted
    BY DEF Init, CurrentMeansCompleted
<1>. QED
    BY <1>1, <1>2, <1>3, <1>4 DEF HealthInv

\* Creating a Job anew makes it start without conditions.
LEMMA ApplyPreserves ==
    ASSUME HealthInv, Apply
    PROVE  ConditionsAreLists' /\ CompleteMeansCompleted'
BY DEF HealthInv, Apply, ConditionsAreLists, CompleteMeansCompleted

\* Every step preserves the invariant.
LEMMA HealthStep == HealthInv /\ [Next]_vars => HealthInv'
<1>. SUFFICES ASSUME HealthInv, [Next]_vars PROVE HealthInv'
    OBVIOUS
<1>. USE DEF HealthInv
<1>1. CASE Check
    <2>1. toCheck' = ToCheck /\ last' = Unread(ToCheck)
        BY <1>1 DEF Check
    <2>2. LastIsRead'
        BY <2>1 DEF LastIsRead, Unread
    <2>3. CurrentMeansCompleted'
        BY <2>1 DEF CurrentMeansCompleted, Unread
    <2>. QED
        BY <1>1, <2>2, <2>3, ApplyPreserves DEF Check
<1>2. CASE SkipCheck \/ CheckFails
    BY <1>2, ApplyPreserves DEF SkipCheck, CheckFails, LastIsRead, CurrentMeansCompleted
<1>3. CASE Pass \/ TimesOut
    BY <1>3 DEF Pass, TimesOut, objectVars, ConditionsAreLists, LastIsRead,
                CompleteMeansCompleted, CurrentMeansCompleted
<1>4. ASSUME NEW x \in toCheck, Poll(x) PROVE HealthInv'
    <2>1. UNCHANGED <<conditions, completed, toCheck, verdict>>
        BY <1>4 DEF Poll, objectVars
    <2>2. last' = [last EXCEPT ![x] = ReadStatus(x)]
        BY <1>4 DEF Poll
    <2>3. LastIsRead'
        BY <2>1, <2>2 DEF LastIsRead
    <2>4. ASSUME NEW j \in toCheck \cap Jobs, verdict = "waiting", last'[j] = "Current"
          PROVE  j \in completed
        <3>1. CASE j = x
            BY <3>1, <2>2, <2>4, CurrentIsComplete DEF LastIsRead
        <3>2. CASE j # x
            BY <3>2, <2>2, <2>4 DEF LastIsRead, CurrentMeansCompleted
        <3>. QED
            BY <3>1, <3>2
    <2>5. CurrentMeansCompleted'
        BY <2>1, <2>4 DEF CurrentMeansCompleted
    <2>6. ConditionsAreLists' /\ CompleteMeansCompleted'
        BY <2>1 DEF ConditionsAreLists, CompleteMeansCompleted
    <2>. QED
        BY <2>3, <2>5, <2>6
<1>5. ASSUME NEW j \in Jobs, JobStep(j) PROVE HealthInv'
    <2>1. UNCHANGED <<toCheck, last, verdict>>
        BY <1>5 DEF JobStep, checkVars
    <2>2. completed \subseteq completed'
        BY <1>5 DEF JobStep, Suspend, Resume, Succeeding, Complete, Failing, FailJob, Expire
    <2>3. LastIsRead' /\ CurrentMeansCompleted'
        BY <2>1, <2>2 DEF LastIsRead, CurrentMeansCompleted
    <2>4. ConditionsAreLists' /\ CompleteMeansCompleted'
        <3>1. CASE Expire(j)
            BY <3>1 DEF Expire, ConditionsAreLists, CompleteMeansCompleted
        <3>2. CASE Suspend(j) \/ Resume(j)
            BY <3>2, <2>2, SetOtherCondition DEF Suspend, Resume, Condition
        <3>3. CASE Succeeding(j) \/ Failing(j) \/ FailJob(j)
            BY <3>3, <2>2, SetOtherCondition DEF Succeeding, Failing, FailJob, Condition
        <3>4. CASE Complete(j)
            BY <3>4, <2>2, SetOtherCondition DEF Complete, Condition
        <3>. QED
            BY <1>5, <3>1, <3>2, <3>3, <3>4 DEF JobStep
    <2>. QED
        BY <2>3, <2>4
<1>6. ASSUME NEW x \in Objects, RollOut(x) \/ Degrade(x) PROVE HealthInv'
    BY <1>6 DEF RollOut, Degrade, checkVars, ConditionsAreLists, LastIsRead,
                CompleteMeansCompleted, CurrentMeansCompleted
<1>7. CASE UNCHANGED vars
    BY <1>7 DEF vars, objectVars, checkVars, ConditionsAreLists, LastIsRead,
                CompleteMeansCompleted, CurrentMeansCompleted
<1>. QED
    BY <1>1, <1>2, <1>3, <1>4, <1>5, <1>6, <1>7 DEF Next

-----------------------------------------------------------------------------
(* Types. *)

\* What is read of an object is a status.
LEMMA StatusIsRead == \A x : ReadStatus(x) \in Statuses
BY DEF ReadStatus, jobConditions, Statuses

\* Nothing that is to be checked has a group that could not be parsed.
LEMMA CheckedAreParsed ==
    ASSUME wait \/ AllParsed(refs), NEW x \in ToCheck
    PROVE  x.group # Malformed
<1>1. x \in Selected
    BY DEF ToCheck, WithoutItself
<1>2. CASE wait
    BY <1>1, <1>2, HealthAssumption DEF Selected
<1>3. CASE ~wait
    <2>1. PICK c \in refs : x = ToObjMetadata(c)
        BY <1>1, <1>3 DEF Selected, ReferenceToObjMetadataSet
    <2>2. x.group = ParseGroupVersion(c)
        BY <2>1 DEF ToObjMetadata
    <2>. QED
        BY <1>3, <2>2 DEF AllParsed
<1>. QED
    BY <1>2, <1>3

LEMMA HealthTypeInit == Init => TypeOK
<1>. SUFFICES ASSUME Init PROVE TypeOK
    OBVIOUS
<1>1. present \subseteq Objects /\ toCheck = {} /\ verdict = "none"
    BY DEF Init
<1>2. conditions \in [Jobs -> Seq(Condition)]
    BY DEF Init
<1>3. last \in [toCheck -> Statuses]
    BY DEF Init, Unread
<1>4. faults \in 0..MaxFaults
    BY HealthAssumption DEF Init
<1>. QED
    BY <1>1, <1>2, <1>3, <1>4 DEF Init, TypeOK

\* The variables keep their types; the conditions do by the invariant above.
LEMMA HealthTypeStep == TypeOK /\ ConditionsAreLists' /\ [Next]_vars => TypeOK'
<1>. SUFFICES ASSUME TypeOK, ConditionsAreLists', [Next]_vars PROVE TypeOK'
    OBVIOUS
<1>. USE DEF TypeOK, ConditionsAreLists
<1>1. CASE Check
    <2>1. \A x \in toCheck' : x.group # Malformed
        BY <1>1, CheckedAreParsed DEF Check
    <2>2. last' \in [toCheck' -> Statuses]
        BY <1>1 DEF Check, Unread, Statuses
    <2>. QED
        BY <1>1, <2>1, <2>2, HealthAssumption DEF Check, Apply
<1>2. CASE SkipCheck \/ CheckFails
    BY <1>2, HealthAssumption DEF SkipCheck, CheckFails, Apply
<1>3. CASE Pass
    BY <1>3 DEF Pass, objectVars
<1>4. CASE TimesOut
    BY <1>4, HealthAssumption DEF TimesOut, Fault, objectVars
<1>5. ASSUME NEW x \in toCheck, Poll(x) PROVE TypeOK'
    <2>1. last' \in [toCheck -> Statuses]
        BY <1>5, StatusIsRead DEF Poll
    <2>. QED
        BY <1>5, <2>1 DEF Poll, objectVars
<1>6. ASSUME NEW j \in Jobs, JobStep(j) PROVE TypeOK'
    <2>1. present' \subseteq present /\ completed' \subseteq Jobs /\ UNCHANGED available
        BY <1>6 DEF JobStep, Suspend, Resume, Succeeding, Complete, Failing, FailJob, Expire
    <2>. QED
        BY <1>6, <2>1 DEF JobStep, checkVars
<1>7. ASSUME NEW x \in Objects, RollOut(x) \/ Degrade(x) PROVE TypeOK'
    BY <1>7, HealthAssumption DEF RollOut, Degrade, Fault, checkVars
<1>8. CASE UNCHANGED vars
    BY <1>8 DEF vars, objectVars, checkVars
<1>. QED
    BY <1>1, <1>2, <1>3, <1>4, <1>5, <1>6, <1>7, <1>8 DEF Next

-----------------------------------------------------------------------------
(* The theorems. *)

\* The poller reads a status of each object that it is to check, and of nothing
\* that has a malformed group; the conditions of each Job stay a list
\* (checkHealth, the Job status reader).
THEOREM HealthTypes == Spec => []TypeOK
<1>1. HealthInv /\ TypeOK /\ [Next]_vars => (HealthInv /\ TypeOK)'
    <2>1. HealthInv /\ [Next]_vars => ConditionsAreLists'
        BY HealthStep DEF HealthInv
    <2>. QED
        BY <2>1, HealthStep, HealthTypeStep
<1>. QED
    BY <1>1, HealthInit, HealthTypeInit, PTL DEF Spec

\* A health check passes only when every Job that it waited for has completed
\* since it was created (checkHealth, with the Job status reader).
THEOREM HealthyIsCompleted == Spec => HealthyMeansCompleted
<1>1. HealthInv /\ [Next]_vars => [Pass => toCheck \cap Jobs \subseteq completed']_vars
    BY DEF HealthInv, CurrentMeansCompleted, Pass, objectVars
<1>. QED
    BY <1>1, HealthInit, HealthStep, PTL DEF Spec, HealthyMeansCompleted
=============================================================================
