----------------------------- MODULE ProxyProofs -----------------------------
(***************************************************************************)
(* The proxy uses its breaker as CircuitBreaker specifies it, and answers  *)
(* each request once: for every number of requests, every configuration of *)
(* the breaker and every number of retries.                                *)
(***************************************************************************)
EXTENDS ProxyHistory, CircuitBreakerProofs

(* ServeHTTP's steps as the breaker sees them: a step of Execute, of the   *)
(* clock, or of something else.                                            *)
LEMMA StepUsesBreaker == TypeOK /\ [PNext]_proxyVars => [Next]_vars
<1> SUFFICES ASSUME TypeOK, [PNext]_proxyVars
             PROVE  [Next]_vars
    OBVIOUS
<1>1. CASE Pass
  <2>1. age \in Nat /\ Timeout \in Nat /\ age <= Timeout
    BY ConfigAssumption DEF TypeOK
  <2>2. CASE age < Timeout
    BY <1>1, <2>1, <2>2 DEF Pass, AtMost, Tick, Next
  <2>3. CASE age = Timeout
    BY <1>1, <2>1, <2>3 DEF Pass, AtMost, vars
  <2>. QED
    BY <2>1, <2>2, <2>3
<1>2. ASSUME NEW r \in Callers, Arrive(r) \/ Wake(r)
      PROVE  [Next]_vars
    BY <1>2 DEF Arrive, Wake
<1>3. ASSUME NEW r \in Callers, StartForward(r)
      PROVE  [Next]_vars
    BY <1>3 DEF StartForward, Next
<1>4. ASSUME NEW r \in Callers, CircuitOpen(r)
      PROVE  [Next]_vars
    BY <1>4 DEF CircuitOpen, Next
<1>5. ASSUME NEW r \in Callers, ForwardOK(r)
      PROVE  [Next]_vars
    BY <1>5 DEF ForwardOK, Succeed, Next
<1>6. ASSUME NEW r \in Callers, RetryLater(r) \/ GiveUp(r)
      PROVE  [Next]_vars
    BY <1>6 DEF RetryLater, GiveUp, Next
<1>7. CASE UNCHANGED proxyVars
    BY <1>7 DEF proxyVars
<1>. QED
    BY <1>1, <1>2, <1>3, <1>4, <1>5, <1>6, <1>7 DEF PNext, Progress

(* Every behaviour of the proxy is one of its breaker, so all that is      *)
(* proved of CircuitBreaker holds of the breaker inside the proxy.         *)
THEOREM ProxyUsesBreaker == PSpec => Spec
<1>1. PInit => Init
    BY DEF PInit
<1>2. TypeOK /\ [PNext]_proxyVars => [Next]_vars
    BY StepUsesBreaker
<1>. QED
    BY <1>1, <1>2, InitTypeOK, StepTypeOK, PTL DEF PSpec, Spec

-----------------------------------------------------------------------------
(* What makes AnsweredOnce inductive: the call of Execute is where the     *)
(* loop is, and only an idle request has an answer.                        *)
LoopInv ==
    /\ pc \in [Callers -> {"idle", "running"}]
    /\ at \in [Callers -> {"idle", "trying", "sleeping"}]
    /\ attempt \in [Callers -> 0..MaxRetries]
    /\ answers \in [Callers -> {<<>>} \union {<<s>> : s \in Statuses}]
    /\ \A r \in Callers :
          /\ pc[r] = "running" => at[r] = "trying"
          /\ at[r] # "idle" => answers[r] = <<>>
          /\ answers[r] = <<"502">> => attempt[r] = MaxRetries

LEMMA LoopInvImplies == LoopInv => AnsweredOnce
<1> SUFFICES ASSUME LoopInv, NEW r \in Callers
             PROVE  /\ Len(answers[r]) <= 1
                    /\ at[r] # "idle" => answers[r] = <<>>
                    /\ at[r] = "idle" => pc[r] = "idle"
                    /\ answers[r] = <<"502">> => attempt[r] = MaxRetries
    BY DEF AnsweredOnce
<1>1. answers[r] \in {<<>>} \union {<<s>> : s \in Statuses}
    BY DEF LoopInv
<1>2. ASSUME NEW s \in Statuses, answers[r] = <<s>>
      PROVE  Len(answers[r]) = 1
    BY <1>2
<1>3. Len(answers[r]) <= 1
  <2>1. CASE answers[r] = <<>>
    BY <2>1
  <2>2. CASE answers[r] # <<>>
    <3>1. PICK s \in Statuses : answers[r] = <<s>>
      BY <1>1, <2>2
    <3>. QED
      BY <1>2, <3>1
  <2>. QED
    BY <2>1, <2>2
<1>. QED
    BY <1>3 DEF LoopInv

(* A status is written on an empty response. *)
LEMMA AnswerFacts ==
    ASSUME LoopInv, NEW r \in Callers, at[r] # "idle",
           NEW s \in Statuses, Answer(r, s)
    PROVE  /\ answers' = [answers EXCEPT ![r] = <<s>>]
           /\ at' = [at EXCEPT ![r] = "idle"]
<1>1. answers[r] = <<>>
    BY DEF LoopInv
<1>2. Append(answers[r], s) = <<s>>
    BY <1>1
<1>. QED
    BY <1>2 DEF Answer

LEMMA StepLoopInv == LoopInv /\ [PNext]_proxyVars => LoopInv'
<1> SUFFICES ASSUME LoopInv, [PNext]_proxyVars
             PROVE  LoopInv'
    OBVIOUS
<1> USE RetryAssumption
<1>1. CASE Pass
    BY <1>1 DEF Pass, LoopInv
<1>2. ASSUME NEW r \in Callers, Arrive(r)
      PROVE  LoopInv'
  <2>1. pc' = pc /\ pc[r] # "running"
    BY <1>2 DEF Arrive, vars, LoopInv
  <2>2. answers' = [answers EXCEPT ![r] = <<>>]
    BY <1>2 DEF Arrive
  <2>3. at' = [at EXCEPT ![r] = "trying"] /\ attempt' = [attempt EXCEPT ![r] = 0]
    BY <1>2 DEF Arrive
  <2>4. 0 \in 0..MaxRetries
    OBVIOUS
  <2>5. answers' \in [Callers -> {<<>>} \union {<<s>> : s \in Statuses}]
    BY <2>2 DEF LoopInv
  <2>6. attempt' \in [Callers -> 0..MaxRetries]
    BY <2>3, <2>4 DEF LoopInv
  <2>7. ASSUME NEW q \in Callers
        PROVE  /\ pc'[q] = "running" => at'[q] = "trying"
               /\ at'[q] # "idle" => answers'[q] = <<>>
               /\ answers'[q] = <<"502">> => attempt'[q] = MaxRetries
    <3>1. CASE q = r
      <4>1. answers'[q] = <<>> /\ <<>> # <<"502">>
        BY <2>2, <3>1 DEF LoopInv
      <4>. QED
        BY <2>1, <2>3, <3>1, <4>1 DEF LoopInv
    <3>2. CASE q # r
      BY <2>1, <2>2, <2>3, <3>2 DEF LoopInv
    <3>. QED
      BY <3>1, <3>2
  <2>. QED
    BY <2>1, <2>3, <2>5, <2>6, <2>7 DEF LoopInv
<1>3. ASSUME NEW r \in Callers, StartForward(r)
      PROVE  LoopInv'
    BY <1>3 DEF StartForward, Admit, loopVars, LoopInv
<1>4. ASSUME NEW r \in Callers, CircuitOpen(r)
      PROVE  LoopInv'
  <2>1. /\ answers' = [answers EXCEPT ![r] = <<"503">>]
        /\ at' = [at EXCEPT ![r] = "idle"]
    BY <1>4, AnswerFacts DEF CircuitOpen, Statuses
  <2>2. pc[r] = "idle" /\ UNCHANGED <<pc, attempt>>
    BY <1>4 DEF CircuitOpen, Refuse
  <2>3. <<"503">> # <<"502">>
    OBVIOUS
  <2>. QED
    BY <2>1, <2>2, <2>3 DEF LoopInv, Statuses
<1>5. ASSUME NEW r \in Callers, ForwardOK(r)
      PROVE  LoopInv'
  <2>1. pc[r] = "running" /\ pc' = [pc EXCEPT ![r] = "idle"]
    BY <1>5 DEF ForwardOK, Succeed, SucceedHalfOpen, SucceedOtherwise, Return
  <2>2. PICK s \in {"2xx", "4xx"} : Answer(r, s)
    BY <1>5 DEF ForwardOK
  <2>3. /\ answers' = [answers EXCEPT ![r] = <<s>>]
        /\ at' = [at EXCEPT ![r] = "idle"]
    BY <2>1, <2>2, AnswerFacts DEF LoopInv, Statuses
  <2>4. <<s>> # <<"502">> /\ s \in Statuses
    BY DEF Statuses
  <2>5. UNCHANGED attempt
    BY <1>5 DEF ForwardOK
  <2>. QED
    BY <2>1, <2>3, <2>4, <2>5 DEF LoopInv
<1>6. ASSUME NEW r \in Callers, RetryLater(r)
      PROVE  LoopInv'
  <2>1. pc[r] = "running" /\ pc' = [pc EXCEPT ![r] = "idle"]
    BY <1>6 DEF RetryLater, Fail, Return
  <2>2. answers[r] = <<>>
    BY <2>1 DEF LoopInv
  <2>. QED
    BY <1>6, <2>1, <2>2 DEF RetryLater, LoopInv
<1>7. ASSUME NEW r \in Callers, GiveUp(r)
      PROVE  LoopInv'
  <2>1. pc[r] = "running" /\ pc' = [pc EXCEPT ![r] = "idle"]
    BY <1>7 DEF GiveUp, Fail, Return
  <2>2. /\ answers' = [answers EXCEPT ![r] = <<"502">>]
        /\ at' = [at EXCEPT ![r] = "idle"]
    BY <1>7, <2>1, AnswerFacts DEF GiveUp, LoopInv, Statuses
  <2>3. attempt[r] = MaxRetries /\ UNCHANGED attempt
    BY <1>7 DEF GiveUp
  <2>. QED
    BY <2>1, <2>2, <2>3 DEF LoopInv, Statuses
<1>8. ASSUME NEW r \in Callers, Wake(r)
      PROVE  LoopInv'
    BY <1>8 DEF Wake, vars, LoopInv
<1>9. CASE UNCHANGED proxyVars
    BY <1>9 DEF proxyVars, vars, loopVars, LoopInv
<1>. QED
    BY <1>1, <1>2, <1>3, <1>4, <1>5, <1>6, <1>7, <1>8, <1>9 DEF PNext, Progress

(* ServeHTTP answers each request at most once, never runs an attempt      *)
(* after an answer, and says 502 only when the attempts are used up.       *)
THEOREM ProxyAnswersOnce == PSpec => []AnsweredOnce
<1>1. PInit => LoopInv
    BY RetryAssumption DEF PInit, Init, LoopInv
<1>. QED
    BY <1>1, StepLoopInv, LoopInvImplies, PTL DEF PSpec

-----------------------------------------------------------------------------
LEMMA SpendKeeps ==
    ASSUME NEW b \in {"none", "unread", "spent"}
    PROVE  Spend(b) \in {"none", "unread", "spent"}
    BY DEF Spend

(* The timer of a sleeping request and the state of its body. *)
TimersOK ==
    /\ timer \in [Callers -> 0..RetryDelay]
    /\ body \in [Callers -> {"none", "unread", "spent"}]

LEMMA StepTimersOK == TimersOK /\ [PNext]_proxyVars => TimersOK'
<1> SUFFICES ASSUME TimersOK, [PNext]_proxyVars
             PROVE  TimersOK'
    OBVIOUS
<1> USE RetryAssumption
<1>1. CASE Pass
  <2>1. ASSUME NEW r \in Callers
        PROVE  (IF timer[r] > 0 THEN timer[r] - 1 ELSE 0) \in 0..RetryDelay
    BY DEF TimersOK
  <2>. QED
    BY <1>1, <2>1 DEF Pass, TimersOK
<1>2. ASSUME NEW r \in Callers, Arrive(r)
      PROVE  TimersOK'
    BY <1>2 DEF Arrive, TimersOK
<1>3. ASSUME NEW r \in Callers, StartForward(r) \/ CircuitOpen(r) \/ Wake(r)
      PROVE  TimersOK'
    BY <1>3 DEF StartForward, CircuitOpen, Wake, loopVars, TimersOK
<1>4. ASSUME NEW r \in Callers, ForwardOK(r) \/ RetryLater(r) \/ GiveUp(r)
      PROVE  TimersOK'
  <2>1. Spend(body[r]) \in {"none", "unread", "spent"}
    BY SpendKeeps DEF TimersOK
  <2>. QED
    BY <1>4, <2>1 DEF ForwardOK, RetryLater, GiveUp, TimersOK
<1>5. CASE UNCHANGED proxyVars
    BY <1>5 DEF proxyVars, loopVars, TimersOK
<1>. QED
    BY <1>1, <1>2, <1>3, <1>4, <1>5 DEF PNext, Progress

(* The breaker, the loops, their timers and bodies, and the statuses       *)
(* written, keep their types.                                              *)
THEOREM ProxyTypes == PSpec => []PTypeOK
<1>1. PInit => LoopInv /\ TimersOK
    BY RetryAssumption DEF PInit, Init, LoopInv, TimersOK
<1>2. TypeOK /\ LoopInv /\ TimersOK => PTypeOK
  <2> SUFFICES ASSUME LoopInv
               PROVE  answers \in [Callers -> Seq(Statuses)]
    BY DEF LoopInv, TimersOK, PTypeOK
  <2>1. ASSUME NEW s \in Statuses
        PROVE  <<s>> \in Seq(Statuses)
    OBVIOUS
  <2>2. <<>> \in Seq(Statuses)
    OBVIOUS
  <2>3. \A a \in {<<>>} \union {<<s>> : s \in Statuses} : a \in Seq(Statuses)
    BY <2>1, <2>2, Zenon
  <2>4. answers \in [Callers -> {<<>>} \union {<<s>> : s \in Statuses}]
    BY DEF LoopInv
  <2>. QED
    BY <2>3, <2>4, Zenon
<1>3. PSpec => []TypeOK
    BY ProxyUsesBreaker, TypeCorrect, PTL
<1>. QED
    BY <1>1, <1>2, <1>3, StepLoopInv, StepTimersOK, PTL DEF PSpec

-----------------------------------------------------------------------------
(* The failures that r's current request can have contributed to a run of  *)
(* them: those of its attempts before the one it is at, or all.            *)
Blows(r) == IF at[r] = "idle" THEN MaxRetries + 1 ELSE attempt[r]

(* What makes OneRequestCannotTrip inductive: while one request alone has  *)
(* failed since the last success, the breaker has not counted more         *)
(* failures than that request had attempts, also when the request is over  *)
(* and its goroutine serves the next one.                                  *)
StrikeInv ==
    /\ struck \in [Callers -> BOOLEAN]
    /\ strikers \in 0..2
    /\ state = "closed" /\ strikers = 0 => failureCount = 0
    /\ strikers = 0 => \A r \in Callers : ~struck[r]
    /\ strikers = 1 => \A q, r \in Callers : struck[q] /\ struck[r] => q = r
    /\ state = "closed" /\ strikers = 1
       => /\ failureCount <= MaxRetries + 1
          /\ \A r \in Callers : struck[r] => failureCount <= Blows(r)

LEMMA HistoryStepsProxy == [PHNext]_phVars => [PNext]_proxyVars
    BY DEF PHNext, phVars, PHArrive, PHFail, PHForwardOK, PNext, Progress

LEMMA InitStrikeInv == PHInit => StrikeInv
    BY RetryAssumption DEF PHInit, PInit, Init, StrikeInv

(* A failure adds one to the count and one attempt to its request.         *)
LEMMA FailStrikes ==
    ASSUME TypeOK, LoopInv, StrikeInv, NEW r \in Callers, PHFail(r)
    PROVE  /\ StrikeInv'
           /\ /\ MaxRetries + 1 < FailureThreshold
              /\ state = "closed" /\ state' = "open"
              => strikers' >= 2
<1> USE RetryAssumption, ConfigAssumption
<1>1. /\ failureCount \in 0..FailureThreshold
      /\ failureCount' = AtMost(failureCount + 1, FailureThreshold)
      /\ failureCount' \in Nat /\ failureCount' <= failureCount + 1
      /\ state' \in {state, "open"}
      /\ state' = IF Trips THEN "open" ELSE state
    BY AtMostFacts DEF PHFail, RetryLater, GiveUp, Fail, TypeOK
<1>2. /\ struck' = [struck EXCEPT ![r] = TRUE]
      /\ strikers' = IF struck[r] THEN strikers ELSE AtMost(strikers + 1, 2)
      /\ strikers \in 0..2 /\ struck \in [Callers -> BOOLEAN]
    BY DEF PHFail, StrikeInv
<1>3. at[r] = "trying" /\ attempt[r] \in 0..MaxRetries /\ Blows(r) = attempt[r]
    BY DEF PHFail, RetryLater, GiveUp, Fail, Return, LoopInv, Blows
<1>4. Blows(r)' = attempt[r] + 1
  <2>1. CASE RetryLater(r)
    BY <1>3, <2>1 DEF RetryLater, LoopInv, Blows
  <2>2. CASE GiveUp(r)
    BY <1>3, <2>2 DEF GiveUp, Answer, LoopInv, Blows
  <2>. QED
    BY <2>1, <2>2 DEF PHFail
<1>5. strikers' \in 0..2
    BY <1>2 DEF AtMost
<1>6. CASE struck[r] /\ strikers = 1
  <2>1. \A q \in Callers : struck'[q] => q = r
    BY <1>2, <1>6 DEF StrikeInv
  <2>2. state = "closed" => failureCount <= attempt[r]
    BY <1>3, <1>6 DEF StrikeInv
  <2>3. state' = "closed" => failureCount' <= attempt[r] + 1
    BY <1>1, <1>3, <2>2
  <2>4. StrikeInv'
    <3>1. strikers' = 1 /\ struck' \in [Callers -> BOOLEAN]
      BY <1>2, <1>6
    <3>2. state' = "closed" => failureCount' <= MaxRetries + 1
      BY <1>1, <1>3, <2>3
    <3>. QED
      BY <1>4, <2>1, <2>3, <3>1, <3>2 DEF StrikeInv
  <2>5. state = "closed" /\ state' = "open" => failureCount + 1 >= FailureThreshold
    BY <1>1 DEF Trips
  <2>. QED
    BY <1>1, <1>3, <2>2, <2>4, <2>5
<1>7. CASE strikers = 0
  <2>1. strikers' = 1 /\ \A q \in Callers : struck'[q] => q = r
    BY <1>2, <1>7 DEF StrikeInv, AtMost
  <2>2. state = "closed" => failureCount = 0
    BY <1>7 DEF StrikeInv
  <2>3. state' = "closed" => failureCount' <= 1
    BY <1>1, <2>2
  <2>4. StrikeInv'
    <3>1. struck' \in [Callers -> BOOLEAN]
      BY <1>2
    <3>2. /\ state' = "closed" => failureCount' <= MaxRetries + 1
          /\ state' = "closed" => failureCount' <= attempt[r] + 1
      BY <1>1, <1>3, <2>3
    <3>. QED
      BY <1>4, <2>1, <3>1, <3>2 DEF StrikeInv
  <2>5. state = "closed" /\ state' = "open" => failureCount + 1 >= FailureThreshold
    BY <1>1 DEF Trips
  <2>. QED
    BY <2>2, <2>4, <2>5
<1>8. CASE strikers' = 2
    BY <1>2, <1>8 DEF StrikeInv
<1>. QED
  <2>1. strikers = 1 /\ ~struck[r] => strikers' = 2
    BY <1>2 DEF AtMost
  <2>2. strikers = 2 => strikers' = 2
    BY <1>2 DEF AtMost
  <2>. QED
    BY <1>2, <1>6, <1>7, <1>8, <2>1, <2>2

(* A success empties the run of failures, also one that closes a breaker.  *)
LEMMA SuccessForgives ==
    ASSUME TypeOK, NEW r \in Callers, PHForwardOK(r)
    PROVE  StrikeInv'
<1>1. struck' = [q \in Callers |-> FALSE] /\ strikers' = 0
    BY DEF PHForwardOK
<1>2. state' = "closed" => failureCount' = 0
    BY DEF PHForwardOK, ForwardOK, Succeed, SucceedHalfOpen, SucceedOtherwise, TypeOK
<1>. QED
    BY <1>1, <1>2 DEF StrikeInv

(* Only results change the run of failures.                                *)
LEMMA OthersKeepStrikes ==
    ASSUME TypeOK, LoopInv, StrikeInv, [PHNext]_phVars,
           ~\E r \in Callers : PHFail(r) \/ PHForwardOK(r)
    PROVE  StrikeInv' /\ ~(state = "closed" /\ state' = "open")
<1> USE RetryAssumption, ConfigAssumption
<1>1. /\ failureCount' = failureCount /\ strikers' = strikers
      /\ state' \in {state, "halfOpen"}
  <2>1. CASE Pass /\ UNCHANGED strikeVars
    BY <2>1 DEF Pass, strikeVars
  <2>2. ASSUME NEW r \in Callers, PHArrive(r)
        PROVE  UNCHANGED <<failureCount, strikers, state>>
    BY <2>2 DEF PHArrive, Arrive, vars
  <2>3. ASSUME NEW r \in Callers,
               StartForward(r) \/ CircuitOpen(r) \/ Wake(r), UNCHANGED strikeVars
        PROVE  /\ failureCount' = failureCount /\ strikers' = strikers
               /\ state' \in {state, "halfOpen"}
    BY <2>3 DEF StartForward, Admit, CircuitOpen, Refuse, RefreshState,
       CurrentState, Wake, vars, strikeVars
  <2>. QED
    BY <2>1, <2>2, <2>3 DEF PHNext, phVars, proxyVars, vars, strikeVars
<1>2. ASSUME NEW r \in Callers
      PROVE  /\ struck'[r] => struck[r] /\ Blows(r) <= Blows(r)'
             /\ struck' \in [Callers -> BOOLEAN]
  <2>1. Blows(r) \in 0..MaxRetries + 1
    BY DEF Blows, LoopInv
  <2>2. CASE \E q \in Callers : PHArrive(q)
    BY <2>1, <2>2 DEF PHArrive, Arrive, LoopInv, StrikeInv, Blows
  <2>3. CASE \E q \in Callers : CircuitOpen(q) /\ UNCHANGED strikeVars
    BY <2>1, <2>3 DEF CircuitOpen, Answer, strikeVars, LoopInv, StrikeInv, Blows
  <2>4. CASE \E q \in Callers : Wake(q) /\ UNCHANGED strikeVars
    BY <2>1, <2>4 DEF Wake, strikeVars, LoopInv, StrikeInv, Blows
  <2>5. CASE UNCHANGED <<at, attempt, strikeVars>>
    BY <2>1, <2>5 DEF strikeVars, StrikeInv, Blows
  <2>. QED
    BY <2>2, <2>3, <2>4, <2>5
    DEF PHNext, phVars, proxyVars, loopVars, Pass, StartForward
<1>3. struck' \in [Callers -> BOOLEAN]
  <2>1. CASE Callers = {}
    BY <2>1 DEF StrikeInv, PHNext, phVars, strikeVars
  <2>. QED
    BY <1>2, <2>1
<1>4. /\ state' = "closed" => state = "closed"
      /\ ~(state = "closed" /\ state' = "open")
    BY <1>1
<1>. QED
  <2>1. \A r \in Callers : Blows(r) \in Nat /\ Blows(r)' \in Nat
    BY StepLoopInv, HistoryStepsProxy DEF Blows, LoopInv
  <2>2. failureCount \in Nat
    BY DEF TypeOK
  <2>. QED
    BY <1>1, <1>2, <1>3, <1>4, <2>1, <2>2 DEF StrikeInv

LEMMA StepStrikeInv ==
    TypeOK /\ LoopInv /\ StrikeInv /\ [PHNext]_phVars => StrikeInv'
    BY FailStrikes, SuccessForgives, OthersKeepStrikes

(* With fewer attempts to a request than failures to a trip, it takes two  *)
(* requests to open a closed breaker, however they overlap with others.    *)
THEOREM OneIsNotEnough == PHSpec => OneRequestCannotTrip
<1>1. TypeOK /\ LoopInv /\ StrikeInv /\ [PHNext]_phVars
      => [/\ MaxRetries + 1 < FailureThreshold
          /\ state = "closed"
          /\ state' = "open"
          => strikers' >= 2]_phVars
  <2> SUFFICES ASSUME TypeOK, LoopInv, StrikeInv, [PHNext]_phVars,
                      MaxRetries + 1 < FailureThreshold,
                      state = "closed", state' = "open"
               PROVE  strikers' >= 2
    OBVIOUS
  <2>1. CASE \E r \in Callers : PHForwardOK(r)
    BY <2>1 DEF PHForwardOK, ForwardOK, Succeed, SucceedHalfOpen, SucceedOtherwise
  <2>. QED
    BY <2>1, FailStrikes, OthersKeepStrikes
<1>2. PHSpec => PSpec
  <2>1. PHInit => PInit
    BY DEF PHInit
  <2>. QED
    BY <2>1, HistoryStepsProxy, PTL DEF PHSpec, PSpec
<1>3. PSpec => []TypeOK /\ []LoopInv
  <2>1. PInit => LoopInv
    BY RetryAssumption DEF PInit, Init, LoopInv
  <2>. QED
    BY <2>1, StepLoopInv, ProxyUsesBreaker, TypeCorrect, PTL DEF PSpec
<1>4. PHSpec => []StrikeInv
    BY <1>2, <1>3, InitStrikeInv, StepStrikeInv, PTL DEF PHSpec
<1>. QED
    BY <1>1, <1>2, <1>3, <1>4, PTL DEF PHSpec, OneRequestCannotTrip
=============================================================================
