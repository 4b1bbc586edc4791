--------------------------- MODULE KCLRunDelivery ---------------------------
(***************************************************************************)
(* The controller implements the abstract delivery: the refinement mapping. *)
(***************************************************************************)
EXTENDS KCLRunProperties

\* An attempt is a delivery from the moment its progress is reported.
Delivering(k) == cur = k /\ pc \in RolloutPcs \cup {"build"}

Life(o) == CASE ~o.exists                                -> "gone"
             [] o.exists /\ o.deleting                   -> "leaving"
             [] o.exists /\ ~o.deleting /\ o.finalizer   -> "kept"
             [] o.exists /\ ~o.deleting /\ ~o.finalizer  -> "new"

RankOf(o) == CASE StageOf[o] = "definition" -> 1
               [] StageOf[o] = "class"      -> 2
               [] StageOf[o] = "resource"   -> 3

\* The ranks whose objects are in place when the worker is at a step.
RanksBefore(step) == CASE step \in {"build", "applyDefinitions"} -> {}
                       [] step = "applyClasses"                  -> {1}
                       [] step = "applyResources"                -> {1, 2}
                       [] OTHER                                  -> {1, 2, 3}

\* The status of o says that its current generation is rolled out.
ClaimsCurrent(o) ==
    /\ o.exists
    /\ ~o.deleting
    /\ ~o.spec.suspend
    /\ o.status.observedGeneration = o.generation

-----------------------------------------------------------------------------
(* The mapping. *)

Ranks       == [o \in Objects |-> RankOf(o)]
Upstreams   == [k \in Runs |-> {d \in DependsOn[k] : SourceOf[d] = SourceOf[k]}]

Lives       == [k \in Runs |-> Life(store[k])]
Generations == [k \in Runs |-> store[k].generation]
AppliedLast == [k \in Runs |-> store[k].status.lastApplied]
Currents    == [k \in Runs |-> ClaimsCurrent(store[k])]
Targets     == [k \in Runs |-> IF Delivering(k) THEN rev ELSE NoRevision]
Placements  == [k \in Runs |-> IF Delivering(k)
                               THEN {o \in Desired : RankOf(o) \in RanksBefore(pc)}
                               ELSE {}]

D == INSTANCE Delivery WITH
    Rank       <- Ranks,
    Upstream   <- Upstreams,
    life       <- Lives,
    generation <- Generations,
    target     <- Targets,
    placed     <- Placements,
    owner      <- cluster,
    delivered  <- completed,
    applied    <- AppliedLast,
    current    <- Currents

\* Reconcile, with all its copies, patches and early returns, delivers: it does
\* to the cluster and to the status only what the abstract delivery may do.
Delivers == D!Spec
=============================================================================
