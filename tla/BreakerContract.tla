-------------------------- MODULE BreakerContract --------------------------
(***************************************************************************)
(* What a circuit breaker promises its callers, with no clock, no mutex    *)
(* and no laziness: three phases, the consecutive failures that trip it,   *)
(* the successes that a trial phase needs, and calls let in only while it  *)
(* is not open.  CircuitBreaker implements it (CircuitBreakerRefinement).  *)
(***************************************************************************)
EXTENDS Naturals

CONSTANTS Callers, FailureThreshold, SuccessThreshold

VARIABLES
    phase,   \* "closed", "open" or "halfOpen"
    strikes, \* consecutive failures reported while closed
    credit,  \* successes counted in this trial
    inFlight \* the calls let in that have not returned

vars == <<phase, strikes, credit, inFlight>>

Init ==
    /\ phase = "closed"
    /\ strikes = 0
    /\ credit = 0
    /\ inFlight = {}

(* A call is let in unless the breaker is open. *)
Enter(c) ==
    /\ phase # "open"
    /\ c \notin inFlight
    /\ inFlight' = inFlight \union {c}
    /\ UNCHANGED <<phase, strikes, credit>>

Leave(c) ==
    /\ c \in inFlight
    /\ inFlight' = inFlight \ {c}

(* A failure: a strike when closed, the end of a trial, no news when open. *)
Strike(c) ==
    /\ Leave(c)
    /\ phase = "closed"
    /\ strikes + 1 < FailureThreshold
    /\ strikes' = strikes + 1
    /\ UNCHANGED <<phase, credit>>

Trip(c) ==
    /\ Leave(c)
    /\ phase = "closed" => strikes + 1 >= FailureThreshold
    /\ phase' = "open"
    /\ strikes' = 0
    /\ credit' = 0

(* The open phase ends by itself. *)
BeginTrial ==
    /\ phase = "open"
    /\ phase' = "halfOpen"
    /\ UNCHANGED <<strikes, credit, inFlight>>

(* A success clears the strikes of a closed breaker ... *)
ClearStrikes(c) ==
    /\ Leave(c)
    /\ phase = "closed"
    /\ strikes' = 0
    /\ UNCHANGED <<phase, credit>>

(* ... counts for the trial, which it may end ... *)
Count(c) ==
    /\ Leave(c)
    /\ phase = "halfOpen"
    /\ credit + 1 < SuccessThreshold
    /\ credit' = credit + 1
    /\ UNCHANGED <<phase, strikes>>

Close(c) ==
    /\ Leave(c)
    /\ phase = "halfOpen"
    /\ credit + 1 >= SuccessThreshold
    /\ phase' = "closed"
    /\ credit' = 0
    /\ UNCHANGED strikes

(* ... or is not recorded: a panic, or a result that comes while open or   *)
(* in a trial that no caller has noticed yet.                              *)
Unrecorded(c) ==
    /\ Leave(c)
    /\ UNCHANGED <<phase, strikes, credit>>

Next ==
    \/ BeginTrial
    \/ \E c \in Callers :
          \/ Enter(c)
          \/ Strike(c)
          \/ Trip(c)
          \/ ClearStrikes(c)
          \/ Count(c)
          \/ Close(c)
          \/ Unrecorded(c)

Spec == Init /\ [][Next]_vars
=============================================================================
