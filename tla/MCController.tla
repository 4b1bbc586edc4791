---------------------------- MODULE MCController ----------------------------
(***************************************************************************)
(* Small instances of the KCLRun controller for TLC.                       *)
(***************************************************************************)
EXTENDS KCLRunDelivery

CONSTANTS a, b,               \* runs
          r1, r2,             \* revisions
          crd, class, deploy, \* objects
          git, oci            \* sources

Deployed == [suspend |-> FALSE, prune |-> TRUE, wait |-> FALSE]
Paused   == [Deployed EXCEPT !.suspend = TRUE]

\* Waits for all that was applied.
Awaited  == [Deployed EXCEPT !.wait = TRUE]

\* Never deletes anything.
Unpruned == [Deployed EXCEPT !.prune = FALSE]

StageOfKind == [o \in Objects |-> IF o = crd THEN "definition"
                                  ELSE IF o = class THEN "class"
                                  ELSE "resource"]

\* One run; its two revisions share an object.
OneManifest == [k \in Runs |-> [r \in Revisions |->
    IF r = r1 THEN {crd, deploy} ELSE {class, deploy}]]

\* Two runs: an object moves from one to the other and back.
SwapManifest == [k \in Runs |-> [r \in Revisions |->
    IF k = a
    THEN IF r = r1 THEN {class, deploy} ELSE {class}
    ELSE IF r = r1 THEN {} ELSE {deploy}]]

\* A revision that drops what the other applies first.
ShrinkManifest == [k \in Runs |-> [r \in Revisions |->
    IF r = r1 THEN {class, deploy} ELSE {deploy}]]

\* One object, whatever the run and the revision.
SameManifest == [k \in Runs |-> [r \in Revisions |-> {deploy}]]

\* Programs that yield nothing.
EmptyManifest == [k \in Runs |-> [r \in Revisions |-> {}]]

FromGit   == [k \in Runs |-> git]
FromOCI   == [k \in Runs |-> oci]
NoOne     == [k \in Runs |-> {}]
BOnA      == [k \in Runs |-> IF k = b THEN {a} ELSE {}]
OnSelf    == [k \in Runs |-> {k, deploy}]

PlainSpecs   == {Deployed}
SuspendSpecs == {Deployed, Paused}
AwaitedSpecs == {Awaited}
PruneSpecs   == {Deployed, Unpruned, Paused}
=============================================================================
