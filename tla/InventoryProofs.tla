-------------------------- MODULE InventoryProofs --------------------------
(***************************************************************************)
(* Garbage collection by inventory, for any programs, objects and versions *)
(* and any number of changes and failures: it takes nothing that is        *)
(* wanted, loses sight only of what a step lets go of, and, unless         *)
(* something went wrong, names what it takes by a version it was applied   *)
(* at.                                                                     *)
(***************************************************************************)
EXTENDS InventoryLifecycle, WellFoundedInduction, TLAPS

Phases ==
    /\ phase \in {"idle", "collect", "report"}
    /\ phase = "idle" => new = New

\* A run that is gone is worked on no more, but for its deletion.
Gone == ~store.exists => phase = "idle" /\ (~cached.exists \/ cached.deleting)

\* What the run owns and no step let go of is in one inventory or the other: before
\* the collection in the snapshot or the new one, afterwards in the new one alone.
Sighted ==
    /\ Accounted /\ NothingLeft
    /\ phase = "collect" => live \subseteq IdsOf(old) \cup IdsOf(new) \cup left
    /\ phase = "report" => live \subseteq IdsOf(new) \cup left

OwnedInv == Phases /\ Gone /\ KeepsDesired /\ Sighted

LifecycleInv == TypeOK /\ OwnedInv

\* The first entry of each object with this identifier is at a version that the
\* object was last applied at.
NamedIn(inv, ids) == \A i \in ids : VersionOf(inv, i) \in appliedAt[i]

\* As long as nothing went wrong, that is so for the stored inventory between the
\* attempts; during one, for what is to be collected and for what was just applied.
Named ==
    ~mishap =>
        /\ phase = "idle" => NamedIn(store.inventory, IdsOf(store.inventory))
        /\ phase = "collect" => NamedIn(old, IdsOf(old) \ IdsOf(new))
        /\ phase # "idle" => NamedIn(new, IdsOf(new)) /\ store.inventory = old

-----------------------------------------------------------------------------
(* The functions of the inventory. *)

\* An empty inventory has no entries.
LEMMA NewIsEmpty == New \in Inventories /\ IdsOf(New) = {} /\ Parses(New)
BY DEF New, Inventories, IdsOf, Parses

\* AddChangeSet to an empty inventory lists the change set.
LEMMA ChangeSetIsListed ==
    ASSUME NEW set \in Inventories
    PROVE  AddChangeSet(New, set) \in Inventories /\ IdsOf(AddChangeSet(New, set)) = IdsOf(set)
<1>1. AddChangeSet(New, set) = set
    BY DEF AddChangeSet, New, Inventories
<1>. QED
    BY <1>1

\* An inventory lists objects, at versions.
LEMMA EntriesAreTyped ==
    ASSUME NEW inv \in Inventories
    PROVE  IdsOf(inv) \subseteq Ids /\ \A id : VersionsIn(inv, id) \subseteq Versions
<1>1. \A i \in DOMAIN inv : inv[i] \in Entries
    BY DEF Inventories
<1>2. \A i \in DOMAIN inv : inv[i].id \in Ids /\ inv[i].version \in Versions
    BY <1>1 DEF Entries
<1>. QED
    BY <1>2 DEF IdsOf, VersionsIn

\* Diff names what is in the one inventory and not in the other, each once.
LEMMA DiffIsDifference ==
    ASSUME NEW inv, NEW other
    PROVE  NamesOf(Diff(inv, other)) = IdsOf(inv) \ IdsOf(other)
<1>. DEFINE entry(i) == [id |-> i, version |-> VersionOf(inv, i)]
<1>1. Diff(inv, other) = {entry(i) : i \in IdsOf(inv) \ IdsOf(other)}
    BY DEF Diff
<1>2. \A i : entry(i).id = i
    OBVIOUS
<1>. HIDE DEF entry
<1>. QED
    BY <1>1, <1>2 DEF NamesOf

\* List names all that is in the inventory.
LEMMA ListIsAll ==
    ASSUME NEW inv
    PROVE  NamesOf(List(inv)) = IdsOf(inv)
BY DEF List, IdsOf, NamesOf

\* DeleteAll takes nothing but what it is given, and of that what neither failed nor
\* has pruning disabled.
LEMMA DeletionIsBounded ==
    ASSUME NEW objects, NEW failed, DeleteAll(objects, failed)
    PROVE  /\ live' \subseteq live
           /\ live \ NamesOf(objects) \subseteq live'
           /\ live' \cap NamesOf(objects) \subseteq NamesOf(failed) \cup PruneDisabled
BY DEF DeleteAll, NamesOf

\* Every set of indices that is not empty has a first.
LEMMA LeastIndex ==
    ASSUME NEW T \in SUBSET Nat, T # {}
    PROVE  \E i \in T : \A j \in T : i <= j
<1>1. IsWellFoundedOn(OpToRel(<, Nat), Nat)
    BY NatLessThanWellFounded
<1>2. PICK i \in T : \A j \in T : ~ (<<j, i>> \in OpToRel(<, Nat))
    BY <1>1, WFMin
<1>3. \A j \in T : ~(j < i)
    BY <1>2 DEF OpToRel
<1>. QED
    BY <1>3

\* VersionOf returns one of the versions that the object is listed at.
LEMMA VersionIsListed ==
    ASSUME NEW inv \in Inventories, NEW id \in IdsOf(inv)
    PROVE  VersionOf(inv, id) \in VersionsIn(inv, id)
<1>. DEFINE at == {i \in DOMAIN inv : inv[i].id = id}
            IsFirst(i) == /\ inv[i].id = id
                          /\ \A j \in DOMAIN inv : inv[j].id = id => i <= j
            first == CHOOSE i \in DOMAIN inv : IsFirst(i)
<1>1. at \in SUBSET Nat /\ at # {}
    BY DEF Inventories, IdsOf
<1>2. \E i \in DOMAIN inv : IsFirst(i)
    <2>1. PICK i \in at : \A j \in at : i <= j
        BY <1>1, LeastIndex
    <2>. QED
        BY <2>1
<1>3. first \in DOMAIN inv /\ IsFirst(first)
    BY <1>2
<1>4. VersionOf(inv, id) = inv[first].version
    BY DEF VersionOf
<1>. QED
    BY <1>3, <1>4 DEF VersionsIn

-----------------------------------------------------------------------------
(* Types. *)

\* At first nothing is listed.
LEMMA TypeInit == Init => TypeOK
<1>. SUFFICES ASSUME Init PROVE TypeOK
    OBVIOUS
<1>1. appliedAt \in [Ids -> SUBSET Versions]
    BY DEF Init
<1>2. store \in Copies
    <2>1. PICK p \in BOOLEAN : store = [exists |-> TRUE, deleting |-> FALSE, prune |-> p,
                                       suspend |-> FALSE, inventory |-> New]
        BY DEF Init
    <2>. QED
        BY <2>1, NewIsEmpty DEF Copies
<1>. QED
    BY <1>1, <1>2, NewIsEmpty DEF Init, TypeOK

\* What is put in place are objects of the program, at versions it has.
LEMMA PutInPlaceType ==
    ASSUME TypeOK, NEW ids \in SUBSET IdsOf(program), PutInPlace(ids)
    PROVE  live' \subseteq Ids /\ appliedAt' \in [Ids -> SUBSET Versions]
<1>1. program \in Inventories
    BY LifecycleAssumption DEF TypeOK
<1>2. IdsOf(program) \subseteq Ids /\ \A i \in Ids : VersionsIn(program, i) \subseteq Versions
    BY <1>1, EntriesAreTyped
<1>. QED
    BY <1>2 DEF TypeOK, PutInPlace

LEMMA AppliableIsProgram == Appliable \subseteq IdsOf(program)
BY DEF Appliable, IdsOf

\* What is collected or finalized are objects.
LEMMA NamesAreTyped ==
    ASSUME NEW inv \in Inventories, NEW other
    PROVE  /\ NamesOf(Diff(inv, other)) \subseteq Ids
           /\ \A failed \in SUBSET Diff(inv, other) : NamesOf(failed) \subseteq Ids
           /\ NamesOf(ToFinalize(inv)) \subseteq Ids
<1>1. IdsOf(inv) \subseteq Ids
    BY EntriesAreTyped
<1>2. NamesOf(Diff(inv, other)) \subseteq Ids
    BY <1>1, DiffIsDifference
<1>3. \A failed \in SUBSET Diff(inv, other) : NamesOf(failed) \subseteq NamesOf(Diff(inv, other))
    BY DEF NamesOf
<1>4. NamesOf(ToFinalize(inv)) \subseteq IdsOf(inv)
    BY ListIsAll DEF ToFinalize, NamesOf
<1>. QED
    BY <1>1, <1>2, <1>3, <1>4

\* The steps of an attempt keep the types.
LEMMA AttemptType ==
    ASSUME TypeOK,
           Apply \/ ApplyFails \/ Collect \/ KeepStale \/ DiffFails \/ Report \/ Interrupt
    PROVE  TypeOK'
<1>. USE DEF TypeOK
<1>0. /\ program \in Inventories /\ cached.inventory \in Inventories
      /\ store.inventory \in Inventories /\ cached.prune \in BOOLEAN
    BY LifecycleAssumption DEF Copies
<1>1. /\ IdsOf(program) \subseteq Ids /\ IdsOf(store.inventory) \subseteq Ids
      /\ IdsOf(old) \subseteq Ids /\ IdsOf(new) \subseteq Ids
    BY <1>0, EntriesAreTyped
<1>2. CASE Apply
    <2>1. new' \in Inventories
        BY <1>0, <1>2, ChangeSetIsListed DEF Apply
    <2>2. live' \subseteq Ids /\ appliedAt' \in [Ids -> SUBSET Versions]
        BY <1>2, PutInPlaceType DEF Apply
    <2>3. left' \subseteq Ids
        BY <1>1, <1>2 DEF Apply, Unseen
    <2>. QED
        BY <1>0, <1>2, <2>1, <2>2, <2>3 DEF Apply
<1>3. CASE ApplyFails
    <2>1. PICK done \in SUBSET Appliable : /\ PutInPlace(done)
                                           /\ left' = left \cup (done \ IdsOf(store.inventory))
        BY <1>3 DEF ApplyFails
    <2>2. live' \subseteq Ids /\ appliedAt' \in [Ids -> SUBSET Versions]
        BY <2>1, PutInPlaceType, AppliableIsProgram
    <2>3. left' \subseteq Ids
        BY <1>1, <2>1, AppliableIsProgram
    <2>. QED
        BY <1>3, <2>2, <2>3 DEF ApplyFails, attemptVars
<1>4. CASE Collect
    <2>1. PICK failed \in SUBSET Diff(old, new) :
            /\ DeleteAll(Diff(old, new), failed)
            /\ left' = left \cup NamesOf(failed) \cup (NamesOf(Diff(old, new)) \cap PruneDisabled)
            /\ mishap' = (mishap \/ Errs(failed))
        BY <1>4 DEF Collect, Failures
    <2>2. live' \subseteq Ids /\ left' \subseteq Ids
        BY <2>1, DeletionIsBounded, NamesAreTyped
    <2>3. mishap' \in BOOLEAN
        BY <2>1
    <2>. QED
        BY <1>4, <2>2, <2>3 DEF Collect
<1>5. CASE KeepStale \/ DiffFails
    <2>1. left' \subseteq Ids
        BY <1>1, <1>5, NamesAreTyped DEF KeepStale, DiffFails
    <2>. QED
        BY <1>5, <2>1 DEF KeepStale, DiffFails, clusterVars
<1>6. CASE Report
    <2>1. store' \in Copies
        BY <1>6 DEF Report, Copies
    <2>2. left' \subseteq Ids
        BY <1>1, <1>6 DEF Report
    <2>. QED
        BY <1>6, <2>1, <2>2, NewIsEmpty DEF Report, Idle, clusterVars
<1>7. CASE Interrupt
    <2>1. left' \subseteq Ids
        BY <1>1, <1>7 DEF Interrupt
    <2>. QED
        BY <1>7, <2>1, NewIsEmpty DEF Interrupt, Idle, clusterVars
<1>. QED
    BY <1>2, <1>3, <1>4, <1>5, <1>6, <1>7

\* The variables keep their types.
LEMMA TypeStep == TypeOK /\ [Next]_vars => TypeOK'
<1>. SUFFICES ASSUME TypeOK, [Next]_vars PROVE TypeOK'
    OBVIOUS
<1>. USE DEF TypeOK
<1>1. CASE Finalize \/ FinalizeUnpruned \/ FinalizeUnimpersonated
    <2>1. /\ cached.inventory \in Inventories
          /\ IdsOf(store.inventory) \subseteq Ids /\ IdsOf(cached.inventory) \subseteq Ids
        BY EntriesAreTyped DEF Copies
    <2>2. store' \in Copies
        BY <1>1 DEF Finalize, FinalizeUnpruned, FinalizeUnimpersonated, LetGo, Copies
    <2>3. left' \subseteq Ids
        BY <1>1, <2>1 DEF Finalize, FinalizeUnpruned, FinalizeUnimpersonated, Unseen
    <2>4. live' \subseteq Ids
        BY <1>1, DeletionIsBounded
           DEF Finalize, FinalizeUnpruned, FinalizeUnimpersonated, clusterVars
    <2>. QED
        BY <1>1, <2>2, <2>3, <2>4
           DEF Finalize, FinalizeUnpruned, FinalizeUnimpersonated, attemptVars, clusterVars
<1>2. CASE CacheSync \/ UNCHANGED vars
    BY <1>2 DEF CacheSync, vars, attemptVars, clusterVars
<1>3. CASE Delete
    <2>1. store' \in Copies
        BY <1>3 DEF Delete, Copies
    <2>. QED
        BY <1>3, <2>1 DEF Delete, attemptVars, clusterVars
<1>4. ASSUME NEW p \in Programs, EditProgram(p) PROVE TypeOK'
    BY <1>4 DEF EditProgram, Change, attemptVars, clusterVars
<1>5. ASSUME NEW v \in Versions, Retire(v) PROVE TypeOK'
    BY <1>5 DEF Retire, Change, attemptVars
<1>6. ASSUME NEW prune \in BOOLEAN, NEW suspend \in BOOLEAN, EditSpec(prune, suspend)
      PROVE  TypeOK'
    <2>1. store' \in Copies
        BY <1>6 DEF EditSpec, Copies
    <2>. QED
        BY <1>6, <2>1 DEF EditSpec, Change, attemptVars, clusterVars
<1>. QED
    BY <1>1, <1>2, <1>3, <1>4, <1>5, <1>6, AttemptType DEF Next

-----------------------------------------------------------------------------
(* Nothing wanted is taken, and nothing is lost sight of. *)

\* Before the first attempt there is nothing to lose.
LEMMA OwnedInit == Init => OwnedInv
BY DEF Init, OwnedInv, Phases, Gone, KeepsDesired, Sighted, Accounted, NothingLeft

\* An attempt that applies lists what it applies.
LEMMA ApplyPreserves == LifecycleInv /\ (Apply \/ ApplyFails) => OwnedInv'
<1>. SUFFICES ASSUME LifecycleInv, Apply \/ ApplyFails PROVE OwnedInv'
    OBVIOUS
<1>. USE DEF LifecycleInv, OwnedInv
<1>0. /\ phase = "idle" /\ store.exists /\ IdsOf(new) = {}
      /\ live \subseteq IdsOf(store.inventory) \cup left
      /\ store' = store /\ cached' = cached
    BY NewIsEmpty DEF Apply, ApplyFails, Attempting, Gone, Phases, Sighted, Accounted
<1>1. CASE Apply
    <2>1. IdsOf(new') = IdsOf(program) /\ old' = cached.inventory /\ phase' = "collect"
        BY <1>1, LifecycleAssumption, ChangeSetIsListed DEF Apply, TypeOK
    <2>2. live' = live \cup IdsOf(program) /\ left' = (left \cup Unseen) \ IdsOf(program)
        BY <1>1 DEF Apply, PutInPlace
    <2>3. Sighted'
        BY <1>0, <2>1, <2>2 DEF Unseen, Sighted, Accounted, NothingLeft
    <2>. QED
        BY <1>0, <2>1, <2>2, <2>3 DEF Phases, Gone, KeepsDesired
<1>2. CASE ApplyFails
    <2>1. PICK done : /\ live' = live \cup done
                      /\ left' = left \cup (done \ IdsOf(store.inventory))
        BY <1>2 DEF ApplyFails, PutInPlace
    <2>2. UNCHANGED <<phase, old, new>>
        BY <1>2 DEF ApplyFails, attemptVars
    <2>. QED
        BY <1>0, <2>1, <2>2 DEF Phases, Gone, KeepsDesired, Sighted, Accounted, NothingLeft
<1>. QED
    BY <1>1, <1>2

\* The collection spares what is in the new inventory, and takes the rest or lets
\* go of it.
LEMMA CollectPreserves == LifecycleInv /\ (Collect \/ KeepStale \/ DiffFails) => OwnedInv'
<1>. SUFFICES ASSUME LifecycleInv, Collect \/ KeepStale \/ DiffFails PROVE OwnedInv'
    OBVIOUS
<1>. USE DEF LifecycleInv, OwnedInv
<1>1. /\ phase = "collect" /\ phase' = "report" /\ store.exists
      /\ UNCHANGED <<store, cached, old, new>>
    BY DEF Collect, KeepStale, DiffFails, Diffed, Gone
<1>2. /\ live' \subseteq live /\ IdsOf(new) \subseteq live'
      /\ left \subseteq left'
      /\ live' \cap (IdsOf(old) \ IdsOf(new)) \subseteq left'
    <2>1. IdsOf(new) \subseteq live /\ NamesOf(Diff(old, new)) = IdsOf(old) \ IdsOf(new)
        BY <1>1, DiffIsDifference DEF KeepsDesired
    <2>2. CASE Collect
        <3>1. PICK failed :
                /\ DeleteAll(Diff(old, new), failed)
                /\ left' = left \cup NamesOf(failed)
                                \cup (NamesOf(Diff(old, new)) \cap PruneDisabled)
            BY <2>2 DEF Collect
        <3>. QED
            BY <2>1, <3>1, DeletionIsBounded
    <2>3. CASE KeepStale \/ DiffFails
        BY <2>1, <2>3 DEF KeepStale, DiffFails, clusterVars
    <2>. QED
        BY <2>2, <2>3
<1>3. live' \subseteq IdsOf(new) \cup left'
    BY <1>1, <1>2 DEF Sighted
<1>. QED
    BY <1>1, <1>2, <1>3 DEF Phases, Gone, KeepsDesired, Sighted, Accounted, NothingLeft

\* The stored inventory becomes the new one, or what is only in memory is let go of.
LEMMA ReportPreserves == LifecycleInv /\ (Report \/ Interrupt) => OwnedInv'
<1>. SUFFICES ASSUME LifecycleInv, Report \/ Interrupt PROVE OwnedInv'
    OBVIOUS
<1>. USE DEF LifecycleInv, OwnedInv
<1>1. /\ phase' = "idle" /\ new' = New /\ IdsOf(new') = {} /\ store.exists
      /\ store'.exists /\ cached' = cached /\ live' = live
    <2>1. store'.exists = store.exists
        BY DEF Report, Interrupt, TypeOK, Copies
    <2>2. store.exists
        BY DEF Report, Interrupt, Gone
    <2>. QED
        BY <2>1, <2>2, NewIsEmpty DEF Report, Interrupt, Idle, clusterVars
<1>2. live \subseteq IdsOf(store'.inventory) \cup left'
    <2>1. CASE Report
        BY <2>1 DEF Report, Sighted
    <2>2. CASE Interrupt
        BY <1>1, <2>2 DEF Interrupt, Sighted, Accounted
    <2>. QED
        BY <2>1, <2>2
<1>. QED
    BY <1>1, <1>2 DEF Phases, Gone, KeepsDesired, Sighted, Accounted, NothingLeft

\* A run goes only when all that its inventory names has gone or is let go of.
LEMMA FinalizePreserves ==
    LifecycleInv /\ (Finalize \/ FinalizeUnpruned \/ FinalizeUnimpersonated) => OwnedInv'
<1>. SUFFICES ASSUME LifecycleInv, Finalize \/ FinalizeUnpruned \/ FinalizeUnimpersonated
              PROVE  OwnedInv'
    OBVIOUS
<1>. USE DEF LifecycleInv, OwnedInv
<1>1. /\ phase = "idle" /\ phase' = "idle" /\ IdsOf(new) = {}
      /\ UNCHANGED <<cached, old, new>> /\ cached.deleting
      /\ left \cup Unseen \subseteq left'
    BY NewIsEmpty
       DEF Finalize, FinalizeUnpruned, FinalizeUnimpersonated, Finalizing, attemptVars, Phases
<1>2. store'.inventory = store.inventory /\ (store'.exists => store.exists)
    BY DEF Finalize, FinalizeUnpruned, FinalizeUnimpersonated, LetGo, TypeOK, Copies
<1>3. live' \subseteq live
    BY DeletionIsBounded
       DEF Finalize, FinalizeUnpruned, FinalizeUnimpersonated, clusterVars
<1>4. ASSUME store.exists, ~store'.exists PROVE live' \subseteq left'
    <2>1. live' \cap IdsOf(cached.inventory) \subseteq left'
        <3>1. CASE Finalize
            <4>1. PICK failed :
                    /\ DeleteAll(ToFinalize(cached.inventory), failed)
                    /\ store' = store \/ ~Errs(failed)
                BY <3>1 DEF Finalize
            <4>2. failed = {} /\ NamesOf(failed) = {}
                BY <1>4, <4>1 DEF Errs, NamesOf
            <4>3. live' \cap NamesOf(ToFinalize(cached.inventory)) \subseteq PruneDisabled
                BY <4>1, <4>2, DeletionIsBounded
            <4>. QED
                BY <3>1, <4>3 DEF Finalize
        <3>2. CASE FinalizeUnpruned \/ FinalizeUnimpersonated
            BY <3>2 DEF FinalizeUnpruned, FinalizeUnimpersonated
        <3>. QED
            BY <3>1, <3>2
    <2>2. live \subseteq IdsOf(store.inventory) \cup left
        BY <1>1, <1>4 DEF Sighted, Accounted
    <2>. QED
        BY <1>1, <1>3, <2>1, <2>2 DEF Unseen
<1>. QED
    BY <1>1, <1>2, <1>3, <1>4 DEF Phases, Gone, KeepsDesired, Sighted, Accounted, NothingLeft

\* Every step preserves the invariant.
LEMMA OwnedStep == LifecycleInv /\ [Next]_vars => OwnedInv'
<1>. SUFFICES ASSUME LifecycleInv, [Next]_vars PROVE OwnedInv'
    OBVIOUS
<1>. USE DEF LifecycleInv, OwnedInv
<1>1. ASSUME UNCHANGED <<phase, old, new, live, left>>,
             store'.exists = store.exists, store'.inventory = store.inventory,
             cached' = cached \/ cached' = store
      PROVE  OwnedInv'
    BY <1>1 DEF Phases, Gone, KeepsDesired, Sighted, Accounted, NothingLeft
<1>2. CASE CacheSync \/ UNCHANGED vars
    BY <1>1, <1>2 DEF CacheSync, vars, attemptVars, clusterVars
<1>3. CASE Delete
    BY <1>1, <1>3 DEF Delete, attemptVars, clusterVars, TypeOK, Copies
<1>4. ASSUME NEW p \in Programs, EditProgram(p) PROVE OwnedInv'
    BY <1>1, <1>4 DEF EditProgram, attemptVars, clusterVars
<1>5. ASSUME NEW v \in Versions, Retire(v) PROVE OwnedInv'
    BY <1>1, <1>5 DEF Retire, attemptVars
<1>6. ASSUME NEW prune \in BOOLEAN, NEW suspend \in BOOLEAN, EditSpec(prune, suspend)
      PROVE  OwnedInv'
    BY <1>1, <1>6 DEF EditSpec, attemptVars, clusterVars, TypeOK, Copies
<1>. QED
    BY <1>2, <1>3, <1>4, <1>5, <1>6, ApplyPreserves, CollectPreserves, ReportPreserves,
       FinalizePreserves DEF Next

LEMMA LifecycleInit == Init => LifecycleInv
BY TypeInit, OwnedInit DEF LifecycleInv

LEMMA LifecycleStep == LifecycleInv /\ [Next]_vars => LifecycleInv'
<1>1. LifecycleInv /\ [Next]_vars => TypeOK'
    BY TypeStep DEF LifecycleInv
<1>. QED
    BY <1>1, OwnedStep DEF LifecycleInv

-----------------------------------------------------------------------------
(* What is collected is named by a version it was applied at. *)

\* Before the first attempt nothing is listed.
LEMMA NamedInit == Init => Named
BY NewIsEmpty DEF Init, Named, NamedIn

\* An attempt takes up the stored inventory, and lists what it applies.
LEMMA ApplyNames == LifecycleInv /\ Named /\ Apply => Named'
<1>. SUFFICES ASSUME LifecycleInv, Named, Apply, ~mishap, ~Outdated PROVE Named'
    BY DEF Apply, Named
<1>1. new' = program /\ program \in Inventories
    BY LifecycleAssumption DEF Apply, LifecycleInv, TypeOK, AddChangeSet, New, Inventories
<1>2. /\ old' = store.inventory /\ store' = store
      /\ phase = "idle" /\ phase' = "collect"
    BY DEF Apply, Attempting, Outdated
<1>3. appliedAt' = [i \in Ids |-> IF i \in IdsOf(program)
                                  THEN VersionsIn(program, i)
                                  ELSE appliedAt[i]]
    BY DEF Apply, PutInPlace
<1>4. IdsOf(program) \subseteq Ids /\ IdsOf(store.inventory) \subseteq Ids
    BY <1>1, EntriesAreTyped DEF LifecycleInv, TypeOK, Copies
<1>5. \A i \in IdsOf(program) : VersionOf(program, i) \in appliedAt'[i]
    BY <1>1, <1>3, <1>4, VersionIsListed
<1>6. \A i \in IdsOf(store.inventory) \ IdsOf(program) :
            VersionOf(store.inventory, i) \in appliedAt'[i]
    BY <1>2, <1>3, <1>4 DEF Named, NamedIn
<1>. QED
    BY <1>1, <1>2, <1>5, <1>6 DEF Named, NamedIn

\* Every step preserves it: what is reported is what was applied.
LEMMA NamedStep == LifecycleInv /\ Named /\ [Next]_vars => Named'
<1>. SUFFICES ASSUME LifecycleInv, Named, [Next]_vars PROVE Named'
    OBVIOUS
<1>. USE DEF Named, NamedIn
<1>1. CASE Apply
    BY <1>1, ApplyNames
<1>2. CASE ApplyFails \/ DiffFails \/ Interrupt
    BY <1>2 DEF ApplyFails, DiffFails, Interrupt
<1>3. CASE Collect \/ KeepStale
    BY <1>3 DEF Collect, KeepStale, Diffed, clusterVars
<1>4. CASE Report
    <2>1. /\ phase = "report" /\ phase' = "idle" /\ UNCHANGED <<appliedAt, mishap>>
          /\ store' = [store EXCEPT !.inventory = IF new = old THEN @ ELSE new]
        BY <1>4 DEF Report, Idle, clusterVars
    <2>2. store'.inventory = IF new = old THEN store.inventory ELSE new
        BY <2>1 DEF LifecycleInv, TypeOK, Copies
    <2>. QED
        BY <2>1, <2>2
<1>5. ASSUME UNCHANGED <<phase, old, new, appliedAt, mishap>>,
             store'.inventory = store.inventory
      PROVE  Named'
    BY <1>5
<1>6. CASE Finalize \/ FinalizeUnpruned \/ FinalizeUnimpersonated
    <2>1. store'.inventory = store.inventory
        BY <1>6 DEF Finalize, FinalizeUnpruned, FinalizeUnimpersonated, LetGo,
                    LifecycleInv, TypeOK, Copies
    <2>. QED
        BY <1>5, <1>6, <2>1
           DEF Finalize, FinalizeUnpruned, FinalizeUnimpersonated, attemptVars, clusterVars
<1>7. CASE CacheSync \/ UNCHANGED vars
    BY <1>5, <1>7 DEF CacheSync, vars, attemptVars, clusterVars
<1>8. CASE Delete
    BY <1>5, <1>8 DEF Delete, attemptVars, clusterVars, LifecycleInv, TypeOK, Copies
<1>9. ASSUME NEW p \in Programs, EditProgram(p) PROVE Named'
    BY <1>5, <1>9 DEF EditProgram, attemptVars, clusterVars
<1>10. ASSUME NEW v \in Versions, Retire(v) PROVE Named'
    BY <1>5, <1>10 DEF Retire, attemptVars
<1>11. ASSUME NEW prune \in BOOLEAN, NEW suspend \in BOOLEAN, EditSpec(prune, suspend)
       PROVE  Named'
    BY <1>5, <1>11 DEF EditSpec, attemptVars, clusterVars, LifecycleInv, TypeOK, Copies
<1>. QED
    BY <1>1, <1>2, <1>3, <1>4, <1>6, <1>7, <1>8, <1>9, <1>10, <1>11 DEF Next

-----------------------------------------------------------------------------
(* The theorems. *)

\* All that is stored, listed or collected is a well-formed inventory, and between
\* two attempts there is no snapshot (Reconcile, AddChangeSet).
THEOREM TypesAreKept == Spec => []TypeOK
<1>1. LifecycleInv => TypeOK
    BY DEF LifecycleInv
<1>. QED
    BY <1>1, LifecycleInit, LifecycleStep, PTL DEF Spec

\* What is collected is named by a version it was last applied at, unless something
\* went wrong: a version retired since does not keep it from being deleted
\* (inventory.Diff).
THEOREM CollectedAsApplied == Spec => []NamedAsApplied
<1>1. LifecycleInv /\ Named => NamedAsApplied
    BY DEF Named, NamedIn, NamedAsApplied, Diffed, Diff
<1>2. Spec => [](LifecycleInv /\ Named)
    BY LifecycleInit, LifecycleStep, NamedInit, NamedStep, PTL DEF Spec
<1>. QED
    BY <1>1, <1>2, PTL

\* Garbage collection never takes an object of the revision just applied
\* (inventory.Diff and prune).
THEOREM DesiredIsKept == Spec => []KeepsDesired
<1>1. LifecycleInv => KeepsDesired
    BY DEF LifecycleInv, OwnedInv
<1>. QED
    BY <1>1, LifecycleInit, LifecycleStep, PTL DEF Spec

\* Every object of a run that no step let go of is in its stored inventory or in
\* that of the attempt under way, after whatever failures (Reconcile, prune,
\* finalizeStatus).
THEOREM OwnedIsAccounted == Spec => []Accounted
<1>1. LifecycleInv => Accounted
    BY DEF LifecycleInv, OwnedInv, Sighted
<1>. QED
    BY <1>1, LifecycleInit, LifecycleStep, PTL DEF Spec

\* A run that is gone left nothing behind but what it let go of (finalize).
THEOREM NothingIsLeft == Spec => []NothingLeft
<1>1. LifecycleInv => NothingLeft
    BY DEF LifecycleInv, OwnedInv, Sighted
<1>. QED
    BY <1>1, LifecycleInit, LifecycleStep, PTL DEF Spec
=============================================================================
