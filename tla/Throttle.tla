------------------------------- MODULE Throttle -------------------------------
(***************************************************************************)
(* The concurrency limit of internal/middleware/throttle.go: a buffered    *)
(* channel as a semaphore, and a select between sending to it and a timer. *)
(***************************************************************************)
EXTENDS Naturals, FiniteSets

CONSTANTS
    Requests,      \* the goroutines that serve requests
    MaxConcurrent, \* cfg.MaxConcurrent, the capacity of the channel
    QueueTimeout   \* cfg.QueueTimeout, in ticks

ASSUME ThrottleAssumption ==
    /\ IsFiniteSet(Requests)
    /\ MaxConcurrent \in Nat
    /\ QueueTimeout \in Nat

VARIABLES
    sem,   \* len(t.sem), the tokens in the channel
    at,    \* at[r]: "idle", "queued" (in the select), "serving" or "unwinding"
    waited \* waited[r]: ticks since r entered the select, up to QueueTimeout

vars == <<sem, at, waited>>

TypeOK ==
    /\ sem \in 0..MaxConcurrent
    /\ at \in [Requests -> {"idle", "queued", "serving", "unwinding"}]
    /\ waited \in [Requests -> 0..QueueTimeout]

Init ==
    /\ sem = 0
    /\ at = [r \in Requests |-> "idle"]
    /\ waited = [r \in Requests |-> 0]

-----------------------------------------------------------------------------
(* A request arrives: time.After starts its timer as the select is entered.*)
Arrive(r) ==
    /\ at[r] = "idle"
    /\ at' = [at EXCEPT ![r] = "queued"]
    /\ waited' = [waited EXCEPT ![r] = 0]
    /\ UNCHANGED sem

(* Mutant of Acquire: a channel of one more. *)
AcquireOneMore(r) ==
    /\ at[r] = "queued"
    /\ sem <= MaxConcurrent
    /\ sem' = sem + 1
    /\ at' = [at EXCEPT ![r] = "serving"]
    /\ UNCHANGED waited

(* The select takes the send when the channel has room.  Go hands a freed  *)
(* slot to the first blocked sender; here any of them may get it.          *)
Acquire(r) ==
    /\ at[r] = "queued"
    /\ sem < MaxConcurrent
    /\ sem' = sem + 1
    /\ at' = [at EXCEPT ![r] = "serving"]
    /\ UNCHANGED waited

(* Mutant of Reject: the timer is looked at when the channel moves. *)
RejectLate(r) ==
    /\ at[r] = "queued"
    /\ waited[r] = QueueTimeout
    /\ sem < MaxConcurrent
    /\ at' = [at EXCEPT ![r] = "idle"]
    /\ UNCHANGED <<sem, waited>>

(* The select takes the timer when it has fired; either case when both are *)
(* ready.  The response is 503 and the channel is left alone.              *)
Reject(r) ==
    /\ at[r] = "queued"
    /\ waited[r] = QueueTimeout
    /\ at' = [at EXCEPT ![r] = "idle"]
    /\ UNCHANGED <<sem, waited>>

(* Mutant of Leave: the receive is not deferred, a panic skips it. *)
LeaveLeaking(r) ==
    /\ at[r] = "serving"
    /\ \E next \in {"unwinding", "idle"} : at' = [at EXCEPT ![r] = next]
    /\ UNCHANGED <<sem, waited>>

(* next.ServeHTTP returns or panics; the deferred receive is still to run. *)
Leave(r) ==
    /\ at[r] = "serving"
    /\ at' = [at EXCEPT ![r] = "unwinding"]
    /\ UNCHANGED <<sem, waited>>

(* The deferred receive takes one token out of the channel. *)
Release(r) ==
    /\ at[r] = "unwinding"
    /\ sem > 0
    /\ sem' = sem - 1
    /\ at' = [at EXCEPT ![r] = "idle"]
    /\ UNCHANGED waited

Tick ==
    /\ \E r \in Requests : at[r] = "queued" /\ waited[r] < QueueTimeout
    /\ waited' = [r \in Requests |->
                    IF at[r] = "queued" /\ waited[r] < QueueTimeout
                       THEN waited[r] + 1 ELSE waited[r]]
    /\ UNCHANGED <<sem, at>>

Next ==
    \/ Tick
    \/ \E r \in Requests :
          \/ Arrive(r)
          \/ Acquire(r)
          \/ Reject(r)
          \/ Leave(r)
          \/ Release(r)

Spec == Init /\ [][Next]_vars

(* Time passes, a ready select is taken and a deferred receive is run.     *)
(* Nothing is assumed of the handlers: any of them may hang.               *)
Fairness ==
    /\ WF_vars(Tick)
    /\ \A r \in Requests : WF_vars(Acquire(r) \/ Reject(r) \/ Release(r))

-----------------------------------------------------------------------------
Holders == {r \in Requests : at[r] \in {"serving", "unwinding"}}

(* Each token in the channel belongs to one request past the select, so no *)
(* slot leaks on the way out (a return, a panic, a rejection) and no more  *)
(* than MaxConcurrent requests are served at a time.                       *)
SlotsAccountedFor == sem = Cardinality(Holders)

(* A request is served or refused, even when all the handlers that hold    *)
(* the slots hang for ever.                                                *)
NobodyWaitsForever == \A r \in Requests : at[r] = "queued" ~> at[r] # "queued"
=============================================================================
