--------------------------- MODULE DeliveryProofs ---------------------------
(***************************************************************************)
(* What the abstract delivery guarantees, for any runs, objects, revisions *)
(* and dependencies.  The specification of the controller implements it    *)
(* (KCLRunDelivery), and so has these guarantees as well.                  *)
(***************************************************************************)
EXTENDS Delivery, TLAPS

\* The dependencies are runs.
UpstreamRuns == Upstream \in [Runs -> SUBSET Runs]

\* All that is kept is kept for each run.
Types ==
    /\ generation = [k \in Runs |-> generation[k]]
    /\ target = [k \in Runs |-> target[k]]
    /\ delivered = [k \in Runs |-> delivered[k]]
    /\ applied = [k \in Runs |-> applied[k]]
    /\ current = [k \in Runs |-> current[k]]

\* What is under way may be delivered: the runs upstream were first.
TargetsUpstream ==
    \A k \in Runs : target[k] # NoRevision =>
        \A u \in Upstream[k] : target[k] \in DeliveredRevisions(u)

DeliveryInv == Types /\ ClaimsBacked /\ UpstreamFirst /\ TargetsUpstream

\* The target is given up, or stays.
Dropping == /\ UNCHANGED <<generation, delivered, applied, current>>
            /\ \/ UNCHANGED target
               \/ \E k \in Runs : target' = [target EXCEPT ![k] = NoRevision]

-----------------------------------------------------------------------------

\* At first there is neither a claim nor a delivery.
LEMMA DeliveryInit == Init => DeliveryInv
BY DEF Init, DeliveryInv, Types, ClaimsBacked, UpstreamFirst, TargetsUpstream,
       DeliveredRevisions, DeliveredGenerations

\* Giving a target up disturbs nothing.
LEMMA DroppingPreserves == DeliveryInv /\ Dropping => DeliveryInv'
BY DEF Dropping, DeliveryInv, Types, ClaimsBacked, UpstreamFirst, TargetsUpstream,
       DeliveredRevisions, DeliveredGenerations

\* Most steps at most give a target up.
LEMMA MostStepsDrop ==
    ASSUME NEW k \in Runs, NEW objects,
           \/ Place(k, objects) \/ Collect(k, objects) \/ Clean(k, objects) \/ GiveUp(k)
    PROVE  Dropping
BY DEF Place, Collect, Clean, GiveUp, End, Free, claims, Dropping

\* A delivery that begins is one that the runs upstream have finished.
LEMMA BeginPreserves ==
    ASSUME UpstreamRuns, DeliveryInv, NEW k \in Runs, NEW r \in Revisions, Begin(k, r)
    PROVE  DeliveryInv'
<1>1. UNCHANGED <<generation, delivered, applied, current>>
    BY DEF Begin, claims
<1>2. target' = [target EXCEPT ![k] = r]
    BY DEF Begin
<1>3. TargetsUpstream'
    BY <1>1, <1>2 DEF Begin, DeliveryInv, Types, TargetsUpstream, DeliveredRevisions
<1>4. Types' /\ ClaimsBacked' /\ UpstreamFirst'
    BY <1>1, <1>2 DEF DeliveryInv, Types, ClaimsBacked, UpstreamFirst,
                      DeliveredRevisions, DeliveredGenerations
<1>. QED
    BY <1>3, <1>4 DEF DeliveryInv

\* A finished delivery adds a revision that was delivered upstream.
LEMMA FinishPreserves ==
    ASSUME UpstreamRuns, DeliveryInv, NEW k \in Runs, NEW g, Finish(k, g)
    PROVE  DeliveryInv'
<1>1. UNCHANGED <<generation, applied, current>>
    BY DEF Finish, claims
<1>2. /\ delivered' = [delivered EXCEPT ![k] = @ \cup {<<g, target[k]>>}]
      /\ target' = [target EXCEPT ![k] = NoRevision]
      /\ target[k] # NoRevision
    BY DEF Finish, End
<1>3. Types'
    BY <1>1, <1>2 DEF DeliveryInv, Types
<1>4. \A j \in Runs : delivered[j] \subseteq delivered'[j]
    BY <1>2 DEF DeliveryInv, Types
<1>5. \A j \in Runs : /\ DeliveredRevisions(j) \subseteq DeliveredRevisions(j)'
                      /\ DeliveredGenerations(j) \subseteq DeliveredGenerations(j)'
    BY <1>4 DEF DeliveredRevisions, DeliveredGenerations
<1>6. \A j \in Runs : DeliveredRevisions(j)' \subseteq
                        DeliveredRevisions(j) \cup (IF j = k THEN {target[k]} ELSE {})
    BY <1>2 DEF DeliveryInv, Types, DeliveredRevisions
<1>7. ClaimsBacked'
    BY <1>1, <1>5 DEF DeliveryInv, ClaimsBacked
<1>8. TargetsUpstream'
    BY <1>2, <1>5 DEF DeliveryInv, Types, TargetsUpstream, UpstreamRuns
<1>9. UpstreamFirst'
    BY <1>2, <1>5, <1>6 DEF DeliveryInv, UpstreamFirst, TargetsUpstream, UpstreamRuns
<1>. QED
    BY <1>3, <1>7, <1>8, <1>9 DEF DeliveryInv

\* A report claims what was delivered, or what it claimed before.
LEMMA ReportPreserves ==
    ASSUME DeliveryInv, NEW k \in Runs, Report(k)
    PROVE  DeliveryInv'
<1>1. UNCHANGED <<generation, target, delivered>>
    BY DEF Report
<1>2. PICK r \in {applied[k]} \cup DeliveredRevisions(k) : applied' = [applied EXCEPT ![k] = r]
    BY DEF Report
<1>3. PICK claim \in {current[k], FALSE, generation[k] \in DeliveredGenerations(k)} :
            current' = [current EXCEPT ![k] = claim]
    BY DEF Report
<1>4. claim => current[k] \/ generation[k] \in DeliveredGenerations(k)
    BY <1>3
<1>5. Types' /\ UpstreamFirst' /\ TargetsUpstream'
    BY <1>1, <1>2, <1>3 DEF DeliveryInv, Types, UpstreamFirst, TargetsUpstream,
                            DeliveredRevisions
<1>6. ClaimsBacked'
    <2>. SUFFICES ASSUME NEW j \in Runs
                  PROVE  /\ applied'[j] # NoRevision => applied'[j] \in DeliveredRevisions(j)
                         /\ current'[j] => generation[j] \in DeliveredGenerations(j)
        BY <1>1 DEF ClaimsBacked, DeliveredRevisions, DeliveredGenerations
    <2>1. applied'[j] # NoRevision => applied'[j] \in DeliveredRevisions(j)
        BY <1>2 DEF DeliveryInv, Types, ClaimsBacked
    <2>2. current'[j] => generation[j] \in DeliveredGenerations(j)
        BY <1>3, <1>4 DEF DeliveryInv, Types, ClaimsBacked
    <2>. QED
        BY <2>1, <2>2
<1>. QED
    BY <1>5, <1>6 DEF DeliveryInv

\* A new generation, and the end of a run, withdraw claims.
LEMMA ChangePreserves ==
    ASSUME DeliveryInv, NEW k \in Runs, Go(k) \/ Change(k) \/ Leave(k)
    PROVE  DeliveryInv'
<1>1. UNCHANGED <<target, delivered>>
    BY DEF Go, Change, Leave
<1>2. current' = [current EXCEPT ![k] = FALSE]
    BY DEF Go, Change, Leave, Vanish
<1>3. \E g : generation' = [generation EXCEPT ![k] = g]
    BY DEF Go, Change, Leave, Vanish
<1>4. UNCHANGED applied \/ applied' = [applied EXCEPT ![k] = NoRevision]
    BY DEF Go, Change, Leave, Vanish
<1>. QED
    BY <1>1, <1>2, <1>3, <1>4 DEF DeliveryInv, Types, ClaimsBacked, UpstreamFirst,
        TargetsUpstream, DeliveredRevisions, DeliveredGenerations

\* Every step preserves the invariant.
LEMMA DeliveryStep ==
    ASSUME UpstreamRuns, DeliveryInv, [Next]_vars
    PROVE  DeliveryInv'
<1>1. CASE UNCHANGED vars
    BY <1>1, DroppingPreserves DEF vars, Dropping
<1>2. ASSUME NEW o \in Objects, Drift(o) PROVE DeliveryInv'
    BY <1>2, DroppingPreserves DEF Drift, claims, Dropping
<1>3. ASSUME NEW k \in Runs, NEW objects \in SUBSET Objects,
             Place(k, objects) \/ Collect(k, objects) \/ Clean(k, objects)
      PROVE  DeliveryInv'
    BY <1>3, MostStepsDrop, DroppingPreserves
<1>4. ASSUME NEW k \in Runs, GiveUp(k) PROVE DeliveryInv'
    BY <1>4, MostStepsDrop, DroppingPreserves
<1>. QED
    BY <1>1, <1>2, <1>3, <1>4, BeginPreserves, FinishPreserves, ReportPreserves,
       ChangePreserves DEF Next

-----------------------------------------------------------------------------

\* A revision is never claimed, nor a generation said to be rolled out, without a
\* delivery that finished (status.lastAppliedRevision and observedGeneration).
THEOREM DeliveriesBackClaims == ASSUME UpstreamRuns PROVE Spec => []ClaimsBacked
<1>1. DeliveryInv /\ [Next]_vars => DeliveryInv'
    BY DeliveryStep
<1>2. DeliveryInv => ClaimsBacked
    BY DEF DeliveryInv
<1>. QED
    BY <1>1, <1>2, DeliveryInit, PTL DEF Spec

\* No run delivers a revision before the runs it depends on (checkDependencies).
THEOREM DeliveriesFollowUpstream == ASSUME UpstreamRuns PROVE Spec => []UpstreamFirst
<1>1. DeliveryInv /\ [Next]_vars => DeliveryInv'
    BY DeliveryStep
<1>2. DeliveryInv => UpstreamFirst
    BY DEF DeliveryInv
<1>. QED
    BY <1>1, <1>2, DeliveryInit, PTL DEF Spec
=============================================================================
