------------------------ MODULE CircuitBreakerProofs ------------------------
(***************************************************************************)
(* The safety of the circuit breaker, for every number of callers, every   *)
(* pair of thresholds and every timeout.                                   *)
(***************************************************************************)
EXTENDS CircuitBreakerHistory, CircuitBreakerRefinement, TLAPS

USE DEF States

(* currentState leaves the breaker in one of its states, and never open    *)
(* with the timeout elapsed: what Execute acts on is fresh.                *)
LEMMA RefreshStateFacts ==
    ASSUME TypeOK, RefreshState
    PROVE  /\ state' \in States
           /\ successCount' \in Nat
           /\ state' = state \/ (/\ state = "open"
                                 /\ CooledDown
                                 /\ state' = "halfOpen"
                                 /\ successCount' = 0)
           /\ state' = state => successCount' = successCount
    BY DEF TypeOK, RefreshState, CurrentState

LEMMA AtMostFacts ==
    ASSUME NEW n \in Nat, NEW limit \in Nat
    PROVE  /\ AtMost(n, limit) \in 0..limit
           /\ AtMost(n, limit) <= n
           /\ n <= limit => AtMost(n, limit) = n
           /\ n >= limit => AtMost(n, limit) = limit
    BY DEF AtMost

LEMMA InitTypeOK == Init => TypeOK
    BY ConfigAssumption DEF Init, TypeOK

(* Every step of the breaker preserves the types of its fields. *)
LEMMA StepTypeOK == TypeOK /\ [Next]_vars => TypeOK'
<1> SUFFICES ASSUME TypeOK, [Next]_vars
             PROVE  TypeOK'
    OBVIOUS
<1> USE ConfigAssumption
<1>1. CASE Observe
    BY <1>1, RefreshStateFacts DEF Observe, TypeOK
<1>2. CASE Tick
    BY <1>2 DEF Tick, TypeOK
<1>3. ASSUME NEW c \in Callers, Admit(c)
      PROVE  TypeOK'
    BY <1>3, RefreshStateFacts DEF Admit, TypeOK
<1>4. ASSUME NEW c \in Callers, Refuse(c)
      PROVE  TypeOK'
    BY <1>4, RefreshStateFacts DEF Refuse, TypeOK
<1>5. ASSUME NEW c \in Callers, Fail(c)
      PROVE  TypeOK'
  <2>1. failureCount' \in 0..FailureThreshold
    BY <1>5 DEF Fail, AtMost, TypeOK
  <2>. QED
    BY <1>5, <2>1 DEF Fail, Return, TypeOK
<1>6. ASSUME NEW c \in Callers, SucceedHalfOpen(c)
      PROVE  TypeOK'
    BY <1>6 DEF SucceedHalfOpen, Return, TypeOK
<1>7. ASSUME NEW c \in Callers, SucceedOtherwise(c)
      PROVE  TypeOK'
    BY <1>7 DEF SucceedOtherwise, Return, TypeOK
<1>8. ASSUME NEW c \in Callers, Panic(c)
      PROVE  TypeOK'
    BY <1>8 DEF Panic, Return, TypeOK
<1>9. CASE UNCHANGED vars
    BY <1>9 DEF vars, TypeOK
<1>. QED
    BY <1>1, <1>2, <1>3, <1>4, <1>5, <1>6, <1>7, <1>8, <1>9 DEF Next

(* The fields of the breaker keep their types: the state is one of the     *)
(* three of the Go constants and the counters never become negative.       *)
THEOREM TypeCorrect == Spec => []TypeOK
<1>. QED
    BY InitTypeOK, StepTypeOK, PTL DEF Spec

-----------------------------------------------------------------------------
(* The thresholds are never passed unnoticed: by itself not inductive, but *)
(* with the types it is.                                                   *)
LEMMA StepCounts ==
    TypeOK /\ CountsBelowThresholds /\ [Next]_vars => CountsBelowThresholds'
<1> SUFFICES ASSUME TypeOK, CountsBelowThresholds, [Next]_vars
             PROVE  CountsBelowThresholds'
    OBVIOUS
<1> USE ConfigAssumption
<1>1. ASSUME RefreshState, UNCHANGED failureCount
      PROVE  CountsBelowThresholds'
    BY <1>1, RefreshStateFacts DEF CountsBelowThresholds
<1>2. ASSUME NEW c \in Callers, Fail(c)
      PROVE  CountsBelowThresholds'
    BY <1>2 DEF Fail, Trips, AtMost, TypeOK, CountsBelowThresholds
<1>3. ASSUME NEW c \in Callers, SucceedHalfOpen(c)
      PROVE  CountsBelowThresholds'
    BY <1>3 DEF SucceedHalfOpen, TypeOK, CountsBelowThresholds
<1>4. ASSUME NEW c \in Callers, SucceedOtherwise(c)
      PROVE  CountsBelowThresholds'
    BY <1>4 DEF SucceedOtherwise, TypeOK, CountsBelowThresholds
<1>5. CASE UNCHANGED <<state, failureCount, successCount>>
    BY <1>5 DEF CountsBelowThresholds
<1>. QED
    BY <1>1, <1>2, <1>3, <1>4, <1>5
    DEF Next, Observe, Tick, Admit, Refuse, Panic, vars

(* Whatever the order in which overlapping calls report, a closed breaker  *)
(* has counted fewer failures than open it and a half-open one fewer       *)
(* successes than close it.                                                *)
THEOREM ThresholdsHold == Spec => []CountsBelowThresholds
<1>1. Init => CountsBelowThresholds
    BY DEF Init, CountsBelowThresholds
<1>. QED
    BY <1>1, InitTypeOK, StepTypeOK, StepCounts, PTL DEF Spec

-----------------------------------------------------------------------------
(* Each step of the breaker is one step of the contract, or none.          *)
LEMMA StepContract ==
    ASSUME TypeOK, CountsBelowThresholds, [Next]_vars, Timeout > 0
    PROVE  [Contract!Next]_(Contract!vars)
<1> USE ConfigAssumption
<1> DEFINE strikes == IF state = "closed" THEN failureCount ELSE 0
           credit == IF state = "halfOpen" THEN successCount ELSE 0
           inFlight == {c \in Callers : pc[c] = "running"}
<1>1. ASSUME RefreshState, UNCHANGED <<failureCount, age>>
      PROVE  UNCHANGED <<CurrentState, strikes, credit>>
    BY <1>1, RefreshStateFacts DEF TypeOK, CurrentState, CooledDown
<1>2. ASSUME NEW c \in Callers, Return(c)
      PROVE  Contract!Leave(c)
  <2>1. c \in inFlight
    BY <1>2 DEF Return
  <2>2. inFlight' = inFlight \ {c}
    BY <1>2 DEF Return, TypeOK
  <2>. QED
    BY <2>1, <2>2 DEF Contract!Leave
<1>3. CASE Observe
  <2>1. UNCHANGED <<CurrentState, strikes, credit, inFlight>>
    BY <1>1, <1>3 DEF Observe
  <2>. QED
    BY <2>1 DEF Contract!vars
<1>4. CASE Tick
  <2>1. UNCHANGED <<strikes, credit, inFlight>>
    BY <1>4 DEF Tick
  <2>2. CurrentState' = CurrentState \/ (CurrentState = "open" /\ CurrentState' = "halfOpen")
    BY <1>4 DEF Tick, CurrentState, CooledDown, TypeOK
  <2>. QED
    BY <2>1, <2>2 DEF Contract!Next, Contract!BeginTrial, Contract!vars
<1>5. ASSUME NEW c \in Callers, Admit(c)
      PROVE  Contract!Enter(c)
  <2>1. UNCHANGED <<CurrentState, strikes, credit>>
    BY <1>1, <1>5 DEF Admit
  <2>2. CurrentState # "open"
    BY <1>5 DEF Admit
  <2>3. c \notin inFlight /\ inFlight' = inFlight \union {c}
    BY <1>5 DEF Admit, TypeOK
  <2>. QED
    BY <2>1, <2>2, <2>3 DEF Contract!Enter
<1>6. ASSUME NEW c \in Callers, Refuse(c)
      PROVE  UNCHANGED <<CurrentState, strikes, credit, inFlight>>
    BY <1>1, <1>6 DEF Refuse
<1>7. ASSUME NEW c \in Callers, Fail(c)
      PROVE  Contract!Strike(c) \/ Contract!Trip(c) \/ Contract!Unrecorded(c)
  <2> USE <1>7
  <2>1. Contract!Leave(c)
    BY <1>2 DEF Fail
  <2>2. CASE state = "closed" /\ failureCount + 1 < FailureThreshold
    <3>1. CurrentState = "closed" /\ CurrentState' = CurrentState /\ credit' = credit
      BY <2>2 DEF Fail, Trips, CurrentState, TypeOK
    <3>2. strikes' = strikes + 1 /\ strikes + 1 < FailureThreshold
      BY <2>2 DEF Fail, Trips, AtMost, TypeOK
    <3>. QED
      BY <2>1, <3>1, <3>2 DEF Contract!Strike
  <2>3. CASE Trips \/ state = "open"
    <3>1. state' = "open" /\ ~CooledDown'
      BY <2>3 DEF Fail, CooledDown
    <3>2. CurrentState' = "open" /\ strikes' = 0 /\ credit' = 0
      BY <3>1 DEF CurrentState
    <3>3. CurrentState = "closed" => strikes + 1 >= FailureThreshold
      BY <2>3 DEF CurrentState, Trips, TypeOK
    <3>. QED
      BY <2>1, <3>2, <3>3 DEF Contract!Trip
  <2>. QED
    BY <2>2, <2>3 DEF Trips, TypeOK
<1>8. ASSUME NEW c \in Callers, SucceedHalfOpen(c)
      PROVE  Contract!Count(c) \/ Contract!Close(c)
  <2> USE <1>8
  <2>1. Contract!Leave(c)
    BY <1>2 DEF SucceedHalfOpen
  <2>2. CurrentState = "halfOpen" /\ credit = successCount /\ strikes = 0
    BY DEF SucceedHalfOpen, CurrentState
  <2>3. CASE successCount + 1 >= SuccessThreshold
    <3>1. CurrentState' = "closed" /\ credit' = 0 /\ strikes' = 0
      BY <2>3 DEF SucceedHalfOpen, CurrentState
    <3>. QED
      BY <2>1, <2>2, <2>3, <3>1 DEF Contract!Close
  <2>4. CASE ~(successCount + 1 >= SuccessThreshold)
    <3>1. CurrentState' = "halfOpen" /\ credit' = credit + 1 /\ strikes' = 0
      BY <2>4 DEF SucceedHalfOpen, CurrentState
    <3>2. credit + 1 < SuccessThreshold
      BY <2>2, <2>4 DEF TypeOK
    <3>. QED
      BY <2>1, <2>2, <3>1, <3>2 DEF Contract!Count
  <2>. QED
    BY <2>3, <2>4
<1>9. ASSUME NEW c \in Callers, SucceedOtherwise(c)
      PROVE  Contract!ClearStrikes(c) \/ Contract!Unrecorded(c)
  <2>1. Contract!Leave(c)
    BY <1>2, <1>9 DEF SucceedOtherwise
  <2>2. CurrentState' = CurrentState /\ strikes' = 0 /\ credit' = credit
    BY <1>9 DEF SucceedOtherwise, CurrentState, CooledDown
  <2>3. CurrentState = "closed" \/ strikes = 0
    BY DEF CurrentState
  <2>. QED
    BY <2>1, <2>2, <2>3 DEF Contract!ClearStrikes, Contract!Unrecorded
<1>10. ASSUME NEW c \in Callers, Panic(c)
       PROVE  Contract!Unrecorded(c)
  <2>1. Contract!Leave(c)
    BY <1>2, <1>10 DEF Panic
  <2>2. UNCHANGED <<CurrentState, strikes, credit>>
    BY <1>10 DEF Panic, Return, CurrentState, CooledDown
  <2>. QED
    BY <2>1, <2>2 DEF Contract!Unrecorded
<1>11. CASE UNCHANGED vars
  <2>1. UNCHANGED <<CurrentState, strikes, credit, inFlight>>
    BY <1>11 DEF vars, CurrentState, CooledDown
  <2>. QED
    BY <2>1 DEF Contract!vars
<1>12. ASSUME UNCHANGED <<CurrentState, strikes, credit, inFlight>>
       PROVE  UNCHANGED Contract!vars
    BY <1>12 DEF Contract!vars
<1>. QED
    BY <1>3, <1>4, <1>5, <1>6, <1>7, <1>8, <1>9, <1>10, <1>11, <1>12
    DEF Next, Contract!Next

(* The breaker implements the contract, for every configuration with a     *)
(* cool-down: callers may reason with three phases, strikes and credits,   *)
(* and forget the lazy transition, the mutex and the clock.                *)
THEOREM Refinement ==
    ASSUME Timeout > 0
    PROVE  Spec => ImplementsContract
<1>1. Init => Contract!Init
    BY DEF Init, Contract!Init, CurrentState
<1>2. Init => CountsBelowThresholds
    BY DEF Init, CountsBelowThresholds
<1>. QED
    BY <1>1, <1>2, InitTypeOK, StepTypeOK, StepCounts, StepContract, PTL
    DEF Spec, ImplementsContract, Contract!Spec

-----------------------------------------------------------------------------
(* The history variables tell the truth, in every state: the induction     *)
(* that the theorems about the order of events rest on.                    *)
LEMMA InitHistoryInv == HInit => HistoryInv
<1> SUFFICES ASSUME HInit PROVE HistoryInv
    OBVIOUS
<1>1. TypeOK
    BY InitTypeOK DEF HInit
<1>. QED
    BY <1>1, ConfigAssumption
    DEF HInit, Init, HistoryInv, HTypeOK, CountIsStreak

LEMMA HNextIsNext == [HNext]_allVars => [Next]_vars
    BY DEF HNext, HObserve, HTick, HAdmit, HFail, HSucceed, Succeed,
           Next, allVars

LEMMA StepHistoryInv == HistoryInv /\ [HNext]_allVars => HistoryInv'
<1> SUFFICES ASSUME HistoryInv, [HNext]_allVars
             PROVE  HistoryInv'
    OBVIOUS
<1> USE ConfigAssumption
<1>1. TypeOK /\ TypeOK'
    BY HNextIsNext, StepTypeOK DEF HistoryInv, HTypeOK
<1> USE <1>1
<1> USE DEF HistoryInv, HTypeOK, CountIsStreak, TypeOK
<1>2. CASE HObserve
    BY <1>2, RefreshStateFacts DEF HObserve, Observe, TrialAfter, CooledDown
<1>3. CASE HTick
    BY <1>3 DEF HTick, Tick, AtMost
<1>4. ASSUME NEW c \in Callers, HAdmit(c)
      PROVE  HistoryInv'
  <2>1. state' \in {"closed", "halfOpen"}
    BY <1>4 DEF HAdmit, Admit, RefreshState, CurrentState
  <2>. QED
    BY <1>4, <2>1, RefreshStateFacts DEF HAdmit, Admit, TrialAfter, CooledDown
<1>5. ASSUME NEW c \in Callers, HFail(c)
      PROVE  HistoryInv'
    BY <1>5 DEF HFail, Fail, Trips, AtMost
<1>6. ASSUME NEW c \in Callers, HSucceed(c)
      PROVE  HistoryInv'
    BY <1>6 DEF HSucceed, Succeed, SucceedHalfOpen, SucceedOtherwise, AtMost
<1>7. ASSUME NEW c \in Callers, Refuse(c), UNCHANGED historyVars
      PROVE  HistoryInv'
    BY <1>7 DEF Refuse, RefreshState, historyVars
<1>8. ASSUME NEW c \in Callers, Panic(c), UNCHANGED historyVars
      PROVE  HistoryInv'
    BY <1>8 DEF Panic, historyVars
<1>9. CASE UNCHANGED allVars
    BY <1>9 DEF allVars, vars, historyVars
<1>. QED
    BY <1>2, <1>3, <1>4, <1>5, <1>6, <1>7, <1>8, <1>9 DEF HNext

(* The counters and the clock of the code agree with the history of        *)
(* results, which Execute does not keep.                                   *)
THEOREM HistoryHolds == HSpec => []HistoryInv
BY InitHistoryInv, StepHistoryInv, PTL DEF HSpec

(* The failure count of a closed breaker is its run of consecutive         *)
(* failures: no interleaving of results makes it miss or double one.       *)
THEOREM CountsTheStreak == HSpec => []CountIsStreak
<1>1. HistoryInv => CountIsStreak
    BY DEF HistoryInv
<1>. QED
    BY <1>1, HistoryHolds, PTL

(* One step out of closed: a failure, the FailureThreshold-th in a row. *)
LEMMA TripStep ==
    ASSUME HistoryInv, HNext, state = "closed", state' # "closed"
    PROVE  state' = "open" /\ streak' = FailureThreshold
<1> USE ConfigAssumption DEF HistoryInv, HTypeOK, CountIsStreak, TypeOK
<1>1. ASSUME RefreshState
      PROVE  FALSE
    BY <1>1 DEF RefreshState, CurrentState
<1>2. PICK c \in Callers : HFail(c)
    BY <1>1 DEF HNext, HObserve, Observe, HTick, Tick, HAdmit, Admit, Refuse,
                Panic, HSucceed, Succeed, SucceedHalfOpen, SucceedOtherwise
<1>. QED
    BY <1>2 DEF HFail, Fail, Trips, AtMost

(* The breaker opens on FailureThreshold consecutive failures and never    *)
(* otherwise leaves the closed state.                                      *)
THEOREM TripsOnStreak == HSpec => TripsOnlyOnStreak
<1>1. HistoryInv /\ [HNext]_allVars
      => [state = "closed" /\ state' # "closed"
          => state' = "open" /\ streak' = FailureThreshold]_allVars
    BY TripStep
<1>. QED
    BY <1>1, InitHistoryInv, StepHistoryInv, PTL DEF HSpec, TripsOnlyOnStreak

(* One step into closed: the success that completes the trial. *)
LEMMA CloseStep ==
    ASSUME HistoryInv, HNext, state # "closed", state' = "closed"
    PROVE  state = "halfOpen" /\ trial' >= SuccessThreshold
<1> USE ConfigAssumption DEF HistoryInv, HTypeOK, TypeOK
<1>1. ASSUME RefreshState
      PROVE  FALSE
    BY <1>1 DEF RefreshState, CurrentState
<1>2. PICK c \in Callers : HSucceed(c)
    BY <1>1 DEF HNext, HObserve, Observe, HTick, Tick, HAdmit, Admit, Refuse,
                Panic, HFail, Fail
<1>. QED
    BY <1>2 DEF HSucceed, Succeed, SucceedHalfOpen, SucceedOtherwise, AtMost

(* A breaker that opened closes again only out of half-open, after enough  *)
(* successes since the half-open period began.                             *)
THEOREM ClosesAfterTrial == HSpec => ClosesOnlyAfterTrial
<1>1. HistoryInv /\ [HNext]_allVars
      => [state # "closed" /\ state' = "closed"
          => state = "halfOpen" /\ trial' >= SuccessThreshold]_allVars
    BY CloseStep
<1>. QED
    BY <1>1, InitHistoryInv, StepHistoryInv, PTL DEF HSpec, ClosesOnlyAfterTrial

(* While the breaker recovers, nobody is let in before Timeout has passed  *)
(* since it opened.                                                        *)
THEOREM RespectsCoolDown == HSpec => CoolDownIsRespected
<1>1. ASSUME HistoryInv, NEW c \in Callers, Admit(c), state # "closed"
      PROVE  sinceTrip = Timeout
    BY <1>1, ConfigAssumption
    DEF HistoryInv, HTypeOK, TypeOK, Admit, CurrentState, CooledDown
<1>2. HistoryInv /\ [HNext]_allVars
      => [\A c \in Callers :
            Admit(c) /\ state # "closed" => sinceTrip = Timeout]_allVars
    BY <1>1
<1>. QED
    BY <1>2, InitHistoryInv, StepHistoryInv, PTL DEF HSpec, CoolDownIsRespected
=============================================================================
