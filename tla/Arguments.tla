----------------------------- MODULE Arguments -----------------------------
(***************************************************************************)
(* spec.argumentsReferences: Reconcile reads the ConfigMaps and Secrets    *)
(* one after the other, while users change them, and the KCL program is    *)
(* compiled with what they held.  Nothing watches them.                    *)
(***************************************************************************)
EXTENDS Naturals, Sequences

CONSTANTS Referents,    \* the ConfigMaps and Secrets
          References,   \* a sequence of references: name, and optional or not
          Names, Values,
          Missing,      \* there is no such ConfigMap or Secret
          MaxEdits, MaxFaults

\* Some names, each with a value.
Data == UNION {[names -> Values] : names \in SUBSET Names}

NoData == [n \in {} |-> n]

ASSUME ArgumentsAssumption ==
    /\ References \in Seq([name : Referents, optional : BOOLEAN])
    /\ Missing \notin Data
    /\ MaxEdits \in Nat /\ MaxFaults \in Nat

VARIABLES
    held,      \* what each ConfigMap or Secret holds, or Missing
    hasConfig, \* spec.config is set
    next,      \* the reference to read next, 0 between attempts
    vars,      \* what has been read
    compiled,  \* the arguments of the last compilation
    edits, faults

allVars == <<held, hasConfig, next, vars, compiled, edits, faults>>

TypeOK ==
    /\ held \in [Referents -> Data \cup {Missing}]
    /\ hasConfig \in BOOLEAN
    /\ next \in 0..Len(References) + 1
    /\ vars \in Data /\ compiled \in Data
    /\ edits \in 0..MaxEdits /\ faults \in 0..MaxFaults

Init ==
    /\ held \in [Referents -> {NoData, Missing}]
    /\ hasConfig \in BOOLEAN
    /\ next = 0 /\ vars = NoData /\ compiled = NoData
    /\ edits = 0 /\ faults = 0

-----------------------------------------------------------------------------
(* Reading the references. *)

Fault == faults < MaxFaults /\ faults' = faults + 1

\* (Mutant: a name keeps the value it was given first.)
KeepFirst(old, new) ==
    [n \in DOMAIN old \cup DOMAIN new |-> IF n \in DOMAIN old THEN old[n] ELSE new[n]]

\* A later reference overrides the earlier ones.
Override(old, new) ==
    [n \in DOMAIN old \cup DOMAIN new |-> IF n \in DOMAIN new THEN new[n] ELSE old[n]]

\* Each attempt starts with an empty map.
Start ==
    /\ next = 0
    /\ next' = 1 /\ vars' = NoData
    /\ UNCHANGED <<held, hasConfig, compiled, edits, faults>>

Reference == References[next]

Reading == next \in 1..Len(References)

Read ==
    /\ Reading /\ held[Reference.name] # Missing
    /\ vars' = Override(vars, held[Reference.name])
    /\ next' = next + 1
    /\ UNCHANGED <<held, hasConfig, compiled, edits, faults>>

\* (Mutant: a missing optional reference takes the next one with it.)
AfterTwo(i) == i + 2

AfterMissing(i) == i + 1

\* If optional, skip the not found error.
SkipMissing ==
    /\ Reading /\ held[Reference.name] = Missing /\ Reference.optional
    /\ next' = AfterMissing(next)
    /\ UNCHANGED <<held, hasConfig, vars, compiled, edits, faults>>

\* A required reference is missing, or the API server fails, optional or not.
ReadFails ==
    /\ Reading
    /\ IF held[Reference.name] = Missing /\ ~Reference.optional
       THEN UNCHANGED faults ELSE Fault
    /\ next' = 0
    /\ UNCHANGED <<held, hasConfig, vars, compiled, edits>>

-----------------------------------------------------------------------------
(* CompileKclPackage. *)

\* Without spec.config, no argument is passed on.
Compile ==
    /\ next = Len(References) + 1
    /\ compiled' = IF hasConfig THEN vars ELSE NoData
    /\ next' = 0
    /\ UNCHANGED <<held, hasConfig, vars, edits, faults>>

CompileFails ==
    /\ next = Len(References) + 1
    /\ Fault
    /\ next' = 0
    /\ UNCHANGED <<held, hasConfig, vars, compiled, edits>>

\* Users create, change and delete the ConfigMaps and Secrets.
Edit(r) ==
    /\ edits < MaxEdits /\ edits' = edits + 1
    /\ \E data \in Data \cup {Missing} :
        data # held[r] /\ held' = [held EXCEPT ![r] = data]
    /\ UNCHANGED <<hasConfig, next, vars, compiled, faults>>

Next ==
    \/ Start \/ Read \/ SkipMissing \/ ReadFails \/ Compile \/ CompileFails
    \/ \E r \in Referents : Edit(r)

Spec == Init /\ [][Next]_allVars

\* A run is attempted at every interval, and after each failure.
FairSpec ==
    /\ Spec
    /\ WF_allVars(Start) /\ WF_allVars(Read) /\ WF_allVars(SkipMissing)
    /\ WF_allVars(ReadFails) /\ WF_allVars(Compile)

-----------------------------------------------------------------------------
(* Properties. *)

Required(i) == ~References[i].optional

\* A name has its value from the last reference that holds it.
Holding(n) ==
    {i \in DOMAIN References :
        held[References[i].name] # Missing /\ n \in DOMAIN held[References[i].name]}

Expected ==
    [n \in {m \in Names : Holding(m) # {}} |->
        LET last == CHOOSE i \in Holding(n) : \A j \in Holding(n) : j <= i
        IN  held[References[last].name][n]]

NoneMissing == \A i \in DOMAIN References : Required(i) => held[References[i].name] # Missing

\* Once the ConfigMaps and Secrets have stopped changing, and those required are
\* there, the program is compiled with what they hold, whatever an attempt that was
\* under way had read of their earlier contents; names removed since are gone.
\* This is so for programs with a spec.config only.
Adopted == <>[](hasConfig /\ NoneMissing) => <>[](compiled = Expected)
=============================================================================
