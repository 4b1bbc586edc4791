----------------------------- MODULE Inventory -----------------------------
(***************************************************************************)
(* The inventory of a KCLRun: a list of entries, each an object's          *)
(* identifier (namespace, name, group and kind) with the API version it    *)
(* was applied at.  Not every identifier that AddChangeSet writes can be   *)
(* read back: some names contain the separator.                            *)
(***************************************************************************)
EXTENDS Naturals, Sequences

CONSTANTS Ids,          \* identifiers of objects
          Unparsable,   \* those that object.ParseObjMetadata refuses
          Versions      \* API versions

ASSUME UnparsableAssumption == Unparsable \subseteq Ids

Entries == [id : Ids, version : Versions]

Inventories == Seq(Entries)

New == <<>>

\* (Mutant: what was applied first is left out.)
AddChangeSetButFirst(inv, set) == inv \o SubSeq(set, 2, Len(set))

\* AddChangeSet: one entry per entry of the change set, in its order.
AddChangeSet(inv, set) == inv \o set

IdsOf(inv) == {inv[i].id : i \in DOMAIN inv}

\* ListMetadata returns no error.
Parses(inv) == IdsOf(inv) \cap Unparsable = {}

\* What List and Diff hand to DeleteAll.
List(inv) == {inv[i] : i \in DOMAIN inv}

\* (Mutant: the identifiers are not compared.)
VersionOfAny(inv, id) == inv[1].version

\* The version of the first entry with this identifier.
VersionOf(inv, id) ==
    LET first == CHOOSE i \in DOMAIN inv :
                    /\ inv[i].id = id
                    /\ \A j \in DOMAIN inv : inv[j].id = id => i <= j
    IN  inv[first].version

\* (Mutant: entries are compared with their versions.)
DiffOfEntries(inv, target) == List(inv) \ List(target)

\* The objects in inv that are not in target, whatever their versions there.
Diff(inv, target) ==
    {[id |-> i, version |-> VersionOf(inv, i)] : i \in IdsOf(inv) \ IdsOf(target)}
=============================================================================
