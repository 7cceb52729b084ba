------------------------ MODULE CircuitBreakerHistory ------------------------
(***************************************************************************)
(* CircuitBreaker with history variables: what happened since the last     *)
(* success, the last trip and the start of the half-open period.  They     *)
(* observe the steps and constrain none of them.                           *)
(***************************************************************************)
EXTENDS CircuitBreaker, FiniteSets

VARIABLES
    streak,    \* failures reported since the last success, up to the threshold
    trial,     \* successes reported since the breaker became half-open, up to
               \* SuccessThreshold
    sinceTrip, \* ticks since the breaker last became open, up to Timeout
    entered    \* entered[c]: the state that admitted c's latest call

historyVars == <<streak, trial, sinceTrip, entered>>
allVars == <<vars, historyVars>>

HTypeOK ==
    /\ TypeOK
    /\ streak \in 0..FailureThreshold
    /\ trial \in 0..SuccessThreshold
    /\ sinceTrip \in 0..Timeout
    /\ entered \in [Callers -> {"closed", "halfOpen"}]

HInit ==
    /\ Init
    /\ streak = 0
    /\ trial = 0
    /\ sinceTrip = Timeout
    /\ entered = [c \in Callers |-> "closed"]

(* A trial starts anew whenever the breaker becomes half-open. *)
TrialAfter(n) == IF state # "halfOpen" /\ state' = "halfOpen" THEN 0 ELSE n

HObserve ==
    /\ Observe
    /\ trial' = TrialAfter(trial)
    /\ UNCHANGED <<streak, sinceTrip, entered>>

HAdmit(c) ==
    /\ Admit(c)
    /\ trial' = TrialAfter(trial)
    /\ entered' = [entered EXCEPT ![c] = state']
    /\ UNCHANGED <<streak, sinceTrip>>

HFail(c) ==
    /\ Fail(c)
    /\ streak' = AtMost(streak + 1, FailureThreshold)
    /\ sinceTrip' = IF state # "open" /\ state' = "open" THEN 0 ELSE sinceTrip
    /\ UNCHANGED <<trial, entered>>

HSucceed(c) ==
    /\ Succeed(c)
    /\ streak' = 0
    /\ trial' = IF state = "halfOpen"
                   THEN AtMost(trial + 1, SuccessThreshold) ELSE trial
    /\ UNCHANGED <<sinceTrip, entered>>

(* A trip is a failure too, so sinceTrip never runs behind age. *)
HTick ==
    /\ Tick
    /\ sinceTrip' = AtMost(sinceTrip + 1, Timeout)
    /\ UNCHANGED <<streak, trial, entered>>

HNext ==
    \/ HObserve
    \/ HTick
    \/ \E c \in Callers :
          \/ HAdmit(c)
          \/ HFail(c)
          \/ HSucceed(c)
          \/ Refuse(c) /\ UNCHANGED historyVars
          \/ Panic(c) /\ UNCHANGED historyVars

HSpec == HInit /\ [][HNext]_allVars

HFairSpec == HSpec /\ Fairness

-----------------------------------------------------------------------------
(* The counter of a closed breaker is the length of the current run of     *)
(* consecutive failures, in the order the results were recorded.           *)
CountIsStreak == state = "closed" => failureCount = streak

(* The strengthening that the proofs of the action properties need: what   *)
(* the counters and the clock of the code say about the history.           *)
HistoryInv ==
    /\ HTypeOK
    /\ CountIsStreak
    /\ state = "halfOpen" => trial = successCount /\ sinceTrip = Timeout
    /\ age <= sinceTrip

(* A closed breaker leaves that state only by opening, and only when       *)
(* FailureThreshold results in a row were failures.                        *)
TripsOnlyOnStreak ==
    [][state = "closed" /\ state' # "closed"
       => state' = "open" /\ streak' = FailureThreshold]_allVars

(* A breaker that tripped becomes closed only through half-open, and only  *)
(* after SuccessThreshold successes in this half-open period, with no      *)
(* failure among them.                                                     *)
ClosesOnlyAfterTrial ==
    [][state # "closed" /\ state' = "closed"
       => state = "halfOpen" /\ trial' >= SuccessThreshold]_allVars

(* No call is admitted until Timeout has passed since the breaker opened,  *)
(* however many late results were recorded in between.                     *)
CoolDownIsRespected ==
    [][\A c \in Callers :
         Admit(c) /\ state # "closed" => sinceTrip = Timeout]_allVars

(* What internal/middleware/circuitbreaker_doc.go:14 says of half-open: "a *)
(* single probe request is allowed through".  Execute admits every caller  *)
(* that finds the breaker half-open.                                       *)
SingleProbe ==
    state = "halfOpen" =>
        Cardinality({c \in Callers : pc[c] = "running" /\ entered[c] = "halfOpen"}) <= 1
=============================================================================
