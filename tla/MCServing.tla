------------------------------ MODULE MCServing ------------------------------
(***************************************************************************)
(* The handlers in which a goroutine waits for others, checked in one run: *)
(* the throttle, the health check and the mirroring.  They share no state: *)
(* "part" selects the one that runs, and a behaviour is one of it.         *)
(***************************************************************************)
EXTENDS Throttle, HealthCheck

CONSTANTS
    Mirrored, MaxBody \* the mirroring

VARIABLES
    part,
    length, primary, mirror, pos, got, eof, written

shadowVars == <<length, primary, mirror, pos, got, eof, written>>
allVars == <<part, vars, healthVars, shadowVars>>

Shadow == INSTANCE Shadow WITH status <- written

ASSUME ServingAssumption == MaxBody \in Nat

(* What does not run stands still in one state. *)
SInit ==
    /\ part \in {"throttle", "health", "shadow"}
    /\ Init
    /\ HInit
    /\ part # "health" => up = {}
    /\ Shadow!Init
    /\ part # "shadow" => \A r \in Mirrored : length[r] = 0

SNext ==
    /\ UNCHANGED part
    /\ IF part = "throttle" THEN Next ELSE UNCHANGED vars
    /\ IF part = "health" THEN HNext ELSE UNCHANGED healthVars
    /\ IF part = "shadow" THEN Shadow!Next ELSE UNCHANGED shadowVars

SSpec == SInit /\ [][SNext]_allVars

(* The fairness of each.  What it is about is disabled in the initial      *)
(* state, so it asks nothing of the two that stand still.                  *)
SFairSpec ==
    /\ SSpec
    /\ Fairness
    /\ HFairness
    /\ Shadow!Fairness

-----------------------------------------------------------------------------
(* The types of the throttle and of the mirroring: the capacity of the     *)
(* channel is never exceeded, no reader runs past the end of its body.     *)
ServingTypes == TypeOK /\ Shadow!TypeOK

(* Shadow: primary and mirror both get the whole body, ... *)
BothReadTheBody == Shadow!BothReadTheBody

(* ... and the primary does not wait for the mirror. *)
MirrorDelaysNobody == Shadow!MirrorDelaysNobody

(* Nobody is left waiting: a request in the queue of the throttle is       *)
(* served or refused though handlers hang, and every check of the health   *)
(* of the backends is answered though its client is gone.                  *)
EveryWaitEnds == NobodyWaitsForever /\ EveryCheckAnswered
=============================================================================
