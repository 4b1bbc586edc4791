------------------------------ MODULE Delivery ------------------------------
(***************************************************************************)
(* What the controller promises to whoever writes a KCLRun and reads its   *)
(* status, without queue, caches, patches or conditions.                   *)
(*                                                                         *)
(* A delivery of a run rolls one revision out: its objects are placed rank *)
(* by rank, then what the run owned before and no longer has is collected, *)
(* then the delivery is finished.  It may be given up at any point.  The   *)
(* status makes two claims, both of which a finished delivery backs: the   *)
(* revision last applied, and that the current generation is rolled out.   *)
(***************************************************************************)
EXTENDS Naturals

CONSTANTS Runs, Objects, Revisions,
          NoRevision,   \* no delivery is under way, or no revision is claimed
          Manifest,     \* Manifest[k][r]: the objects of run k at revision r
          Rank,         \* Rank[o]: objects of a lower rank are placed first
          Upstream,     \* Upstream[k]: the runs that deliver a revision before k
          NoOwner, Drifted

VARIABLES
    life,       \* "new", "kept" (by the finalizer), "leaving" or "gone"
    generation, \* of what the user wrote last
    target,     \* the revision under way
    placed,     \* its objects that have been placed
    owner,      \* who owns each object
    delivered,  \* the <<generation, revision>> pairs delivered in full
    applied,    \* claim: the revision last applied
    current     \* claim: the current generation is rolled out

vars == <<life, generation, target, placed, owner, delivered, applied, current>>

DeliveredRevisions(k) == {d[2] : d \in delivered[k]}

DeliveredGenerations(k) == {d[1] : d \in delivered[k]}

Init ==
    /\ life = [k \in Runs |-> "new"]
    /\ generation = [k \in Runs |-> 1]
    /\ target = [k \in Runs |-> NoRevision]
    /\ placed = [k \in Runs |-> {}]
    /\ owner = [o \in Objects |-> NoOwner]
    /\ delivered = [k \in Runs |-> {}]
    /\ applied = [k \in Runs |-> NoRevision]
    /\ current = [k \in Runs |-> FALSE]

-----------------------------------------------------------------------------
(* A delivery. *)

claims == <<life, generation, applied, current>>

End(k) ==
    /\ target' = [target EXCEPT ![k] = NoRevision]
    /\ placed' = [placed EXCEPT ![k] = {}]

Begin(k, r) ==
    /\ life[k] \in {"kept", "leaving"}
    /\ target[k] = NoRevision
    /\ \A u \in Upstream[k] : r \in DeliveredRevisions(u)
    /\ target' = [target EXCEPT ![k] = r]
    /\ UNCHANGED <<claims, placed, owner, delivered>>

\* Some objects are placed, none before all of a lower rank are; what belongs to
\* another run is taken over.
Place(k, objects) ==
    /\ target[k] # NoRevision
    /\ objects \subseteq Manifest[k][target[k]]
    /\ \A o \in objects, e \in Manifest[k][target[k]] :
            Rank[e] < Rank[o] => e \in placed[k]
    /\ owner' = [o \in Objects |-> IF o \in objects THEN k ELSE owner[o]]
    /\ \/ placed' = [placed EXCEPT ![k] = @ \cup objects] /\ UNCHANGED target
       \/ End(k)
    /\ UNCHANGED <<claims, delivered>>

Free(objects) == owner' = [o \in Objects |-> IF o \in objects THEN NoOwner ELSE owner[o]]

\* Once everything is in place, objects that the run owns and no longer has go.
Collect(k, objects) ==
    /\ target[k] # NoRevision
    /\ placed[k] = Manifest[k][target[k]]
    /\ \A o \in objects : owner[o] = k /\ o \notin placed[k]
    /\ Free(objects)
    /\ UNCHANGED <<target, placed>> \/ End(k)
    /\ UNCHANGED <<claims, delivered>>

Finish(k, g) ==
    /\ target[k] # NoRevision
    /\ placed[k] = Manifest[k][target[k]]
    /\ g <= generation[k]
    /\ delivered' = [delivered EXCEPT ![k] = @ \cup {<<g, target[k]>>}]
    /\ End(k)
    /\ UNCHANGED <<claims, owner>>

GiveUp(k) ==
    /\ End(k)
    /\ UNCHANGED <<claims, owner, delivered>>

-----------------------------------------------------------------------------
(* The status, and the end of a run. *)

\* The claims change to what was delivered, or are withdrawn.
Report(k) ==
    /\ target[k] = NoRevision
    /\ \E r \in {applied[k]} \cup DeliveredRevisions(k) :
            applied' = [applied EXCEPT ![k] = r]
    /\ \E claim \in {current[k], FALSE, generation[k] \in DeliveredGenerations(k)} :
            current' = [current EXCEPT ![k] = claim]
    /\ \/ UNCHANGED life
       \/ life[k] = "new" /\ life' = [life EXCEPT ![k] = "kept"]
    /\ UNCHANGED <<generation, target, placed, owner, delivered>>

Vanish(k) ==
    /\ life' = [life EXCEPT ![k] = "gone"]
    /\ generation' = [generation EXCEPT ![k] = 0]
    /\ applied' = [applied EXCEPT ![k] = NoRevision]
    /\ current' = [current EXCEPT ![k] = FALSE]

\* A run that is leaving is cleaned up and goes.
Clean(k, objects) ==
    /\ life[k] \in {"leaving", "gone"}
    /\ target[k] = NoRevision
    /\ \A o \in objects : owner[o] = k
    /\ Free(objects)
    /\ UNCHANGED <<claims, target, placed, delivered>>

Go(k) ==
    /\ life[k] = "leaving"
    /\ target[k] = NoRevision
    /\ Vanish(k)
    /\ UNCHANGED <<target, placed, owner, delivered>>

-----------------------------------------------------------------------------
(* Users and third parties. *)

Change(k) ==
    /\ life[k] \in {"new", "kept"}
    /\ generation' = [generation EXCEPT ![k] = @ + 1]
    /\ current' = [current EXCEPT ![k] = FALSE]
    /\ UNCHANGED <<life, target, placed, owner, delivered, applied>>

Leave(k) ==
    /\ \/ /\ life[k] = "new"
          /\ Vanish(k)
       \/ /\ life[k] = "kept"
          /\ life' = [life EXCEPT ![k] = "leaving"]
          /\ generation' = [generation EXCEPT ![k] = @ + 1]
          /\ current' = [current EXCEPT ![k] = FALSE]
          /\ UNCHANGED applied
    /\ UNCHANGED <<target, placed, owner, delivered>>

Drift(o) ==
    /\ owner[o] \in Runs
    /\ owner' = [owner EXCEPT ![o] = Drifted]
    /\ UNCHANGED <<claims, target, placed, delivered>>

-----------------------------------------------------------------------------

Next ==
    \/ \E k \in Runs :
        \/ \E r \in Revisions : Begin(k, r)
        \/ \E objects \in SUBSET Objects :
                Place(k, objects) \/ Collect(k, objects) \/ Clean(k, objects)
        \/ \E d \in delivered'[k] : Finish(k, d[1])
        \/ GiveUp(k) \/ Report(k) \/ Go(k) \/ Change(k) \/ Leave(k)
    \/ \E o \in Objects : Drift(o)

Spec == Init /\ [][Next]_vars

\* Every claim is backed by a delivery.
ClaimsBacked ==
    \A k \in Runs :
        /\ applied[k] # NoRevision => applied[k] \in DeliveredRevisions(k)
        /\ current[k] => generation[k] \in DeliveredGenerations(k)

\* A revision is delivered upstream first.
UpstreamFirst ==
    \A k \in Runs : \A u \in Upstream[k] :
        DeliveredRevisions(k) \subseteq DeliveredRevisions(u)
=============================================================================
