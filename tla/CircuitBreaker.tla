--------------------------- MODULE CircuitBreaker ---------------------------
(***************************************************************************)
(* The circuit breaker of internal/circuitbreaker/circuitbreaker.go, used  *)
(* by any number of goroutines at once.                                    *)
(*                                                                         *)
(* Execute takes cb.mu twice: once to decide whether the call may run,     *)
(* once to record its result; the call itself runs with the mutex free.    *)
(* Each critical section is one action, so calls admitted in one state of  *)
(* the breaker report their result in another.                             *)
(*                                                                         *)
(* time.Since(cb.lastFailureTime) is the variable age.  It is compared     *)
(* with cfg.Timeout only, and failureCount with cfg.FailureThreshold only, *)
(* so both saturate there; neither bound removes a behaviour.              *)
(***************************************************************************)
EXTENDS Naturals

CONSTANTS
    Callers,          \* the goroutines that call Execute
    FailureThreshold, \* cfg.FailureThreshold; a negative one acts as 0
    SuccessThreshold, \* cfg.SuccessThreshold; likewise
    Timeout           \* cfg.Timeout, in ticks

(* New validates nothing: a threshold or a timeout of zero is accepted. *)
ASSUME ConfigAssumption ==
    /\ FailureThreshold \in Nat
    /\ SuccessThreshold \in Nat
    /\ Timeout \in Nat

VARIABLES
    state,        \* cb.state
    failureCount, \* cb.failureCount, saturated at FailureThreshold
    successCount, \* cb.successCount
    age,          \* time.Since(cb.lastFailureTime), saturated at Timeout
    pc            \* pc[c]: where goroutine c is with respect to Execute

vars == <<state, failureCount, successCount, age, pc>>

States == {"closed", "open", "halfOpen"}

TypeOK ==
    /\ state \in States
    /\ failureCount \in 0..FailureThreshold
    /\ successCount \in Nat
    /\ age \in 0..Timeout
    /\ pc \in [Callers -> {"idle", "running"}]

(* The zero lastFailureTime lies further back than any timeout. *)
Init ==
    /\ state = "closed"
    /\ failureCount = 0
    /\ successCount = 0
    /\ age = Timeout
    /\ pc = [c \in Callers |-> "idle"]

-----------------------------------------------------------------------------
(* Mutant of CooledDown: one tick early. *)
CooledDownEarly == age + 1 >= Timeout

CooledDown == age >= Timeout

AtMost(n, limit) == IF n <= limit THEN n ELSE limit

(* currentState: the state as seen by a caller that holds cb.mu ... *)
CurrentState == IF state = "open" /\ CooledDown THEN "halfOpen" ELSE state

(* Mutant of RefreshState: every look restarts the trial. *)
RefreshRestartsTrial ==
    /\ state' = CurrentState
    /\ successCount' = IF state' = "halfOpen" THEN 0 ELSE successCount

(* ... and its effect, the change to half-open that only a caller's look   *)
(* at the breaker brings about.                                            *)
RefreshState ==
    /\ state' = CurrentState
    /\ successCount' = IF state' = state THEN successCount ELSE 0

(* State(). *)
Observe ==
    /\ RefreshState
    /\ UNCHANGED <<failureCount, age, pc>>

(* Mutant of Admit: the state is not consulted. *)
AdmitAlways(c) ==
    /\ pc[c] = "idle"
    /\ RefreshState
    /\ pc' = [pc EXCEPT ![c] = "running"]
    /\ UNCHANGED <<failureCount, age>>

(* Execute up to the call of fn. *)
Admit(c) ==
    /\ pc[c] = "idle"
    /\ CurrentState # "open"
    /\ RefreshState
    /\ pc' = [pc EXCEPT ![c] = "running"]
    /\ UNCHANGED <<failureCount, age>>

(* Mutant of Refuse: a refusal counts as a failure. *)
RefuseAsFailure(c) ==
    /\ pc[c] = "idle"
    /\ CurrentState = "open"
    /\ RefreshState
    /\ age' = 0
    /\ UNCHANGED <<failureCount, pc>>

(* Execute returning ErrCircuitOpen: no change of the breaker. *)
Refuse(c) ==
    /\ pc[c] = "idle"
    /\ CurrentState = "open"
    /\ RefreshState
    /\ UNCHANGED <<failureCount, age, pc>>

Return(c) ==
    /\ pc[c] = "running"
    /\ pc' = [pc EXCEPT ![c] = "idle"]

Trips == state = "halfOpen" \/ failureCount + 1 >= FailureThreshold

(* Mutant of Fail: lastFailureTime is not set by the failure that trips. *)
FailKeepingTime(c) ==
    /\ Return(c)
    /\ failureCount' = AtMost(failureCount + 1, FailureThreshold)
    /\ age' = IF Trips THEN age ELSE 0
    /\ state' = IF Trips THEN "open" ELSE state
    /\ successCount' = IF Trips THEN 0 ELSE successCount

(* onFailure, in Execute's second critical section. *)
Fail(c) ==
    /\ Return(c)
    /\ failureCount' = AtMost(failureCount + 1, FailureThreshold)
    /\ age' = 0
    /\ state' = IF Trips THEN "open" ELSE state
    /\ successCount' = IF Trips THEN 0 ELSE successCount

(* onSuccess in half-open: one more success, and enough of them close. *)
SucceedHalfOpen(c) ==
    /\ Return(c)
    /\ state = "halfOpen"
    /\ successCount' = successCount + 1
    /\ IF successCount + 1 >= SuccessThreshold
          THEN state' = "closed" /\ failureCount' = 0
          ELSE UNCHANGED <<state, failureCount>>
    /\ UNCHANGED age

(* Mutants of SucceedOtherwise: the count survives; any success closes.    *)
SucceedWithoutReset(c) ==
    /\ Return(c)
    /\ state # "halfOpen"
    /\ UNCHANGED <<state, failureCount, successCount, age>>

SucceedCloses(c) ==
    /\ Return(c)
    /\ state # "halfOpen"
    /\ state' = "closed"
    /\ failureCount' = 0
    /\ UNCHANGED <<successCount, age>>

(* onSuccess otherwise, also when the breaker opened during the call. *)
SucceedOtherwise(c) ==
    /\ Return(c)
    /\ state # "halfOpen"
    /\ failureCount' = 0
    /\ UNCHANGED <<state, successCount, age>>

Succeed(c) == SucceedHalfOpen(c) \/ SucceedOtherwise(c)

(* fn panics: Execute unwinds with cb.mu free and nothing is recorded. *)
Panic(c) ==
    /\ Return(c)
    /\ UNCHANGED <<state, failureCount, successCount, age>>

(* The clock. *)
Tick ==
    /\ age < Timeout
    /\ age' = age + 1
    /\ UNCHANGED <<state, failureCount, successCount, pc>>

Next ==
    \/ Observe
    \/ Tick
    \/ \E c \in Callers :
          \/ Admit(c)
          \/ Refuse(c)
          \/ Fail(c)
          \/ SucceedHalfOpen(c)
          \/ SucceedOtherwise(c)
          \/ Panic(c)

Spec == Init /\ [][Next]_vars

(* The clock advances, and a call that runs returns or panics: proxy.go    *)
(* gives its client a timeout.  Nothing makes callers call.                *)
Fairness ==
    /\ WF_vars(Tick)
    /\ \A c \in Callers : WF_vars(Fail(c) \/ Succeed(c) \/ Panic(c))

-----------------------------------------------------------------------------
(* A closed breaker has never counted up to its threshold and stayed       *)
(* closed, and a half-open one has not collected the successes that close  *)
(* it: whatever order the results of overlapping calls arrive in, no       *)
(* threshold is passed without the transition of onFailure or onSuccess.   *)
CountsBelowThresholds ==
    /\ state = "closed" => failureCount < FailureThreshold \/ failureCount = 0
    /\ state = "halfOpen" => successCount < SuccessThreshold \/ successCount = 0

(* An open breaker does not stay shut for ever: failures of calls still in *)
(* flight restart the cool-down (onFailure sets lastFailureTime in every   *)
(* state), but refused calls do not, so the cool-down ends.                *)
OpenCoolsDown == state = "open" ~> (state # "open" \/ CooledDown)
=============================================================================
