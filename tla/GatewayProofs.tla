---------------------------- MODULE GatewayProofs ----------------------------
(***************************************************************************)
(* What holds of the chain for any number of requests, URIs, backends and  *)
(* attempts, and any configuration of the breaker; and what holds of the   *)
(* server around it for any number of requests in progress, any            *)
(* configuration of its handlers and any behaviour of clients and          *)
(* backends.                                                               *)
(***************************************************************************)
EXTENDS Gateway, ChainHistory, CircuitBreakerProofs

(* The chain starts with a new breaker. *)
LEMMA ChainInitBreaker == ChainInit => Init
<1>. QED
    BY DEF ChainInit

(* Each step of the chain is one of the breaker or leaves it alone. *)
LEMMA ChainStepBreaker == [ChainNext]_systemVars => [Next]_vars
<1>. SUFFICES ASSUME [ChainNext]_systemVars
              PROVE  [Next]_vars
    OBVIOUS
<1>1. CASE UNCHANGED systemVars
    BY <1>1 DEF systemVars
<1>2. CASE Tick
    BY <1>2 DEF Next
<1>3. CASE \E u \in Uris : Expire(u)
    BY <1>3 DEF Expire
<1>4. ASSUME NEW r \in Callers, Open(r) \/ Enter(r) \/ Record(r) \/ Abort(r)
      PROVE  Next
    BY <1>4 DEF Next, Open, Enter, Record, Abort, Succeed
<1>5. ASSUME NEW r \in Callers,
             \/ \E q \in RequestType : Arrive(r, q)
             \/ Unauthorized(r) \/ Authorized(r) \/ Preflight(r) \/ PassCORS(r)
             \/ Hit(r) \/ Miss(r) \/ TooMany(r) \/ Allowed(r)
             \/ Try(r) \/ Wake(r) \/ Store(r) \/ Leave(r)
      PROVE  UNCHANGED vars
    BY <1>5 DEF Arrive, Unauthorized, Authorized, Preflight, PassCORS, Hit,
                Miss, TooMany, Allowed, Try, Wake, Store, Leave
<1>. QED
    BY <1>1, <1>2, <1>3, <1>4, <1>5 DEF ChainNext, Handle

(* The breaker middleware uses the breaker through Execute only: whatever  *)
(* holds of the breaker by itself holds of it in the chain.                *)
THEOREM ChainUsesBreaker == ChainSpec => Spec
<1>. QED
    BY ChainInitBreaker, ChainStepBreaker, PTL DEF ChainSpec, Spec

-----------------------------------------------------------------------------
LEMMA NoRequestType == NoRequest \in RequestType
<1>1. \E q \in RequestType : TRUE
  <2>1. PICK k \in Kinds, u \in Uris : TRUE
    BY ChainAssumption
  <2>2. [key |-> TRUE, kind |-> k, uri |-> u] \in RequestType
    BY <2>1 DEF RequestType
  <2>. QED
    BY <2>2
<1>. QED
    BY <1>1 DEF NoRequest

(* The round robin stays within the list of backends. *)
LEMMA TakeType ==
    ASSUME turn \in Backends, Take
    PROVE  turn' \in Backends
    BY ChainAssumption DEF Backends, Take

LEMMA InitChainInv == ChainInit => ChainInv
<1> SUFFICES ASSUME ChainInit
             PROVE  ChainInv
    OBVIOUS
<1>1. TypeOK /\ pc = [c \in Callers |-> "idle"]
    BY InitTypeOK DEF ChainInit, Init
<1>2. ChainTypeOK
    BY <1>1, NoRequestType, ChainAssumption
    DEF ChainInit, ChainTypeOK, Stages, Backends
<1>. QED
    BY <1>1, <1>2 DEF ChainInit, ChainInv, RequestInv, Answers, Results

(* A step of one request keeps the invariant, if it keeps that request's   *)
(* part of it and touches nothing of the others.                           *)
LEMMA OthersKeepInv ==
    ASSUME ChainInv, NEW r \in Callers, RequestInv(r)', ChainTypeOK',
           \A u \in Uris : cache'[u] \in {"ok", "none"},
           \A q \in Callers \ {r} :
              /\ at'[q] = at[q] /\ request'[q] = request[q]
              /\ attempt'[q] = attempt[q] /\ result'[q] = result[q]
              /\ answer'[q] = answer[q] /\ recorded'[q] = recorded[q]
              /\ pc'[q] = pc[q]
    PROVE  ChainInv'
<1>1. ASSUME NEW q \in Callers \ {r}
      PROVE  RequestInv(q)'
    BY <1>1 DEF ChainInv, RequestInv
<1>. QED
    BY <1>1 DEF ChainInv

LEMMA StepChainInv == ChainInv /\ [ChainNext]_systemVars => ChainInv'
<1> SUFFICES ASSUME ChainInv, [ChainNext]_systemVars
             PROVE  ChainInv'
    OBVIOUS
<1>1. /\ TypeOK'
      /\ pc \in [Callers -> {"idle", "running"}]
    BY ChainStepBreaker, StepTypeOK DEF ChainInv, ChainTypeOK, TypeOK
<1> USE ChainAssumption, <1>1
<1>2. CASE UNCHANGED chainVars /\ (Tick \/ UNCHANGED vars)
  <2>1. UNCHANGED <<chainVars, pc>>
    BY <1>2 DEF Tick, vars
  <2>. QED
    BY <2>1 DEF ChainInv, ChainTypeOK, RequestInv, chainVars
<1>3. ASSUME NEW u \in Uris, Expire(u)
      PROVE  ChainInv'
  <2>1. /\ UNCHANGED <<at, request, attempt, result, answer, turn, pc,
                        recorded>>
        /\ cache' = [cache EXCEPT ![u] = "none"]
    BY <1>3 DEF Expire, Unseen, vars
  <2>. QED
    BY <2>1 DEF ChainInv, ChainTypeOK, RequestInv
<1>4. ASSUME NEW r \in Callers, NEW q \in RequestType, Arrive(r, q)
      PROVE  ChainInv'
    BY <1>4, OthersKeepInv DEF Arrive, Goes, ChainInv, ChainTypeOK, RequestInv,
       vars, Stages
<1>5. ASSUME NEW r \in Callers, Unauthorized(r)
      PROVE  ChainInv'
    BY <1>5, OthersKeepInv DEF Unauthorized, Goes, Reply, Unseen, Answers,
       Results, ChainInv, ChainTypeOK, RequestInv, vars, Stages
<1>6. ASSUME NEW r \in Callers, Authorized(r)
      PROVE  ChainInv'
    BY <1>6, OthersKeepInv DEF Authorized, Goes, Reply, Unseen, Answers,
       Results, ChainInv, ChainTypeOK, RequestInv, vars, Stages
<1>7. ASSUME NEW r \in Callers, Preflight(r)
      PROVE  ChainInv'
    BY <1>7, OthersKeepInv DEF Preflight, Goes, Reply, Unseen, Answers,
       Results, ChainInv, ChainTypeOK, RequestInv, vars, Stages
<1>8. ASSUME NEW r \in Callers, PassCORS(r)
      PROVE  ChainInv'
    BY <1>8, OthersKeepInv DEF PassCORS, Goes, Reply, Unseen, Answers, Results,
       ChainInv, ChainTypeOK, RequestInv, vars, Stages
<1>9. ASSUME NEW r \in Callers, Hit(r)
      PROVE  ChainInv'
  <2>1. request[r].key /\ cache[request[r].uri] = "ok" /\ result[r] = "none"
    BY <1>9 DEF Hit, Goes, Cached, ChainInv, ChainTypeOK, RequestInv, RequestType
  <2>. QED
    BY <1>9, <2>1, OthersKeepInv DEF Hit, Goes, Reply, Unseen, Answers,
       Results, ChainInv, ChainTypeOK, RequestInv, vars, Stages
<1>10. ASSUME NEW r \in Callers, Miss(r)
      PROVE  ChainInv'
    BY <1>10, OthersKeepInv DEF Miss, Goes, Reply, Unseen, Cached, Answers,
       Results, ChainInv, ChainTypeOK, RequestInv, vars, Stages
<1>11. ASSUME NEW r \in Callers, TooMany(r)
      PROVE  ChainInv'
    BY <1>11, OthersKeepInv DEF TooMany, Goes, Reply, Unseen, Answers, Results,
       ChainInv, ChainTypeOK, RequestInv, vars, Stages
<1>12. ASSUME NEW r \in Callers, Allowed(r)
      PROVE  ChainInv'
    BY <1>12, OthersKeepInv DEF Allowed, Goes, Reply, Unseen, Answers, Results,
       ChainInv, ChainTypeOK, RequestInv, vars, Stages
<1>13. ASSUME NEW r \in Callers, Open(r)
      PROVE  ChainInv'
  <2>1. pc' = pc
    BY <1>13 DEF Open, Refuse
  <2>. QED
    BY <1>13, <2>1, OthersKeepInv DEF Open, Goes, Reply, Unseen, Answers,
       Results, ChainInv, ChainTypeOK, RequestInv, vars, Stages
<1>14. ASSUME NEW r \in Callers, Enter(r)
      PROVE  ChainInv'
  <2>1. pc' = [pc EXCEPT ![r] = "running"]
    BY <1>14 DEF Enter, Admit
  <2>. QED
    BY <1>14, <2>1, OthersKeepInv DEF Enter, Goes, Unseen, ChainInv,
       ChainTypeOK, RequestInv, vars, Stages
<1>15. ASSUME NEW r \in Callers, Try(r)
      PROVE  ChainInv'
  <2>1. turn' \in Backends
    BY <1>15, TakeType DEF Try, ChainInv, ChainTypeOK
  <2>2. PICK s \in Results :
          /\ result' = [result EXCEPT ![r] = s]
          /\ at' = [at EXCEPT ![r] = AfterAttempt(r, s)]
    BY <1>15 DEF Try
  <2>. QED
    BY <1>15, <2>1, <2>2, OthersKeepInv DEF Try, AfterAttempt, Results,
       ChainInv, ChainTypeOK, RequestInv, vars, Stages
<1>16. ASSUME NEW r \in Callers, Wake(r)
      PROVE  ChainInv'
    BY <1>16, OthersKeepInv DEF Wake, Goes, Reply, Unseen, ChainInv,
       ChainTypeOK, RequestInv, vars, Stages
<1>17. ASSUME NEW r \in Callers, Record(r)
      PROVE  ChainInv'
  <2>1. pc' = [pc EXCEPT ![r] = "idle"]
    BY <1>17 DEF Record, Fail, Succeed, SucceedHalfOpen, SucceedOtherwise, Return
  <2>. QED
    BY <1>17, <2>1, OthersKeepInv DEF Record, Goes, Reply, Answers, Results,
       ChainInv, ChainTypeOK, RequestInv, vars, Stages
<1>18. ASSUME NEW r \in Callers, Abort(r)
      PROVE  ChainInv'
  <2>1. pc' = [pc EXCEPT ![r] = "idle"]
    BY <1>18 DEF Abort, Panic, Return
  <2>2. turn' \in Backends
    BY <1>18, TakeType DEF Abort, ChainInv, ChainTypeOK
  <2>. QED
    BY <1>18, <2>1, <2>2, OthersKeepInv DEF Abort, Goes, Answers, Results,
       ChainInv, ChainTypeOK, RequestInv, vars, Stages
<1>19. ASSUME NEW r \in Callers, Store(r)
      PROVE  ChainInv'
    BY <1>19, OthersKeepInv DEF Store, Goes, Unseen, RequestType, Answers,
       Results, ChainInv, ChainTypeOK, RequestInv, vars, Stages
<1>20. ASSUME NEW r \in Callers, Leave(r)
      PROVE  ChainInv'
    BY <1>20, NoRequestType, OthersKeepInv DEF Leave, Goes, Reply, ChainInv,
       ChainTypeOK, RequestInv, vars, Stages
<1>. QED
    BY <1>2, <1>3, <1>4, <1>5, <1>6, <1>7, <1>8, <1>9, <1>10, <1>11, <1>12,
       <1>13, <1>14, <1>15, <1>16, <1>17, <1>18, <1>19, <1>20
       DEF ChainNext, Handle, systemVars

(* The invariant behind the theorems below, types included. *)
THEOREM ChainInvariant == ChainSpec => []ChainInv
<1>. QED
    BY InitChainInv, StepChainInv, PTL DEF ChainSpec

(* No response of upstream without a key, and no error out of the cache,   *)
(* whatever the overlap of requests.                                       *)
THEOREM AnswersAreEarned == ChainSpec => []EarnedAnswers
<1>1. ChainInv => EarnedAnswers
  <2> SUFFICES ASSUME ChainInv
               PROVE  EarnedAnswers
    OBVIOUS
  <2>1. ASSUME NEW r \in Callers, answer[r] \in Results
        PROVE  request[r].key
    BY <2>1 DEF ChainInv, ChainTypeOK, RequestInv, Results, Stages
  <2>. QED
    BY <2>1 DEF ChainInv, EarnedAnswers
<1>. QED
    BY <1>1, ChainInvariant, PTL

(* Retries count once for the breaker, refusals and cache hits never. *)
THEOREM RetriesCountOnce == ChainSpec => []OneResultPerRequest
<1>1. ChainInv => OneResultPerRequest
  <2> SUFFICES ASSUME ChainInv, NEW r \in Callers
               PROVE  /\ recorded[r] <= 1
                      /\ answer[r] = result[r] /\ result[r] # "none"
                         => recorded[r] = 1
                      /\ answer[r] \in {"401", "204", "429", "open"}
                         => recorded[r] = 0
    BY DEF OneResultPerRequest
  <2>. QED
    BY DEF ChainInv, ChainTypeOK, RequestInv, Answers, Results, Stages
<1>. QED
    BY <1>1, ChainInvariant, PTL

-----------------------------------------------------------------------------
(* How many turns ago the round robin was at backend b. *)
Behind(b) == IF b < turn THEN turn - 1 - b ELSE turn - 1 - b + Targets

(* The attempts that r has made, if any: the one it is at has not taken a  *)
(* target yet, and one that panicked has.                                  *)
Made(r) == IF at[r] = "retry" THEN attempt[r] - 1 ELSE attempt[r]

(* A panic is the only end without an answer. *)
Aborted(r) == at[r] = "done" /\ answer[r] = "none"

(* What makes GivesUpAfterAllBackends inductive: while nobody else asks,   *)
(* the backends asked are those of the last turns, as many as attempts;    *)
(* and only the last attempt leads to a gateway error.                     *)
TurnsInv(r) ==
    /\ asked[r] \subseteq Backends
    /\ asked[r] = {} <=> result[r] = "none" /\ ~Aborted(r)
    /\ result[r] = "none" => attempt[r] = 1 /\ at[r] \notin {"sleep", "store"}
    /\ at[r] \in {"flush", "store"} /\ result[r] = "bad" => attempt[r] = MaxAttempts
    /\ answer[r] = "bad" => result[r] = "bad" /\ attempt[r] = MaxAttempts
    /\ alone[r] /\ asked[r] # {} => asked[r] = {b \in Backends : Behind(b) < Made(r)}

AskedInv ==
    /\ asked \in [Callers -> SUBSET Backends]
    /\ alone \in [Callers -> BOOLEAN]
    /\ \A r \in Callers : TurnsInv(r)

LEMMA InitAskedInv == HChainInit => AskedInv
    BY DEF HChainInit, ChainInit, AskedInv, TurnsInv, Aborted

(* A turn makes the backend whose turn it was the latest, and leaves the   *)
(* others one more turn behind.                                            *)
LEMMA TurnTaken ==
    ASSUME turn \in Backends, Take
    PROVE  \A b \in Backends :
              /\ Behind(b) \in 0..Targets - 1
              /\ b = turn => Behind(b)' = 0
              /\ b # turn => Behind(b)' = Behind(b) + 1
<1> USE ChainAssumption DEF Backends, Behind
<1>1. turn' = IF turn = Targets - 1 THEN 0 ELSE turn + 1
    BY DEF Take
<1>. QED
    BY <1>1

(* An attempt of r, also one that is aborted, for r and for the others.    *)
LEMMA AttemptKeepsTurns ==
    ASSUME ChainInv, AskedInv, HChainNext,
           NEW r \in Callers, Try(r) \/ Abort(r), NEW q \in Callers
    PROVE  TurnsInv(q)'
<1> USE ChainAssumption
<1>1. /\ attempt' = attempt /\ answer' = answer /\ turn \in Backends
      /\ at[r] = "retry" /\ answer[r] = "none" /\ Take
      /\ attempt[r] \in 1..MaxAttempts /\ attempt[q] \in 1..MaxAttempts
    BY DEF Try, Abort, Goes, ChainInv, ChainTypeOK, RequestInv
<1>2. /\ at'[r] \in {"sleep", "flush", "done"}
      /\ IF at'[r] = "done" THEN result'[r] = result[r] ELSE result'[r] # "none"
      /\ at'[r] = "flush" /\ result'[r] = "bad" => attempt[r] = MaxAttempts
  <2>1. CASE Try(r)
    BY <1>1, <2>1 DEF Try, AfterAttempt, ChainInv, ChainTypeOK, Results
  <2>2. CASE Abort(r)
    BY <2>2 DEF Abort, Goes, ChainInv, ChainTypeOK
  <2>. QED
    BY <2>1, <2>2
<1>3. at'[r] # "retry"
    BY <1>2
<1>4. \A p \in Callers \ {r} : at'[p] = at[p] /\ result'[p] = result[p]
    BY DEF Try, Abort, Goes, ChainInv, ChainTypeOK
<1>5. \A p \in Callers : Asks(p) <=> p = r
    BY <1>1, <1>3, <1>4 DEF Asks
<1>6. \A b \in Backends :
         /\ Behind(b) \in 0..Targets - 1
         /\ b = turn => Behind(b)' = 0
         /\ b # turn => Behind(b)' = Behind(b) + 1
    BY <1>1, TurnTaken
<1>7. CASE q = r
  <2>1. asked'[r] = asked[r] \union {turn}
    BY <1>2, <1>5 DEF HChainNext
  <2>2. alone'[r] => alone[r]
    BY <1>2 DEF HChainNext
  <2>3. Made(r) = attempt[r] - 1 /\ Made(r)' = attempt[r]
    BY <1>1, <1>3 DEF Made
  <2>4. alone[r] => asked[r] = {b \in Backends : Behind(b) < Made(r)}
    <3>1. CASE asked[r] = {}
      <4>1. result[r] = "none" /\ attempt[r] = 1
        BY <3>1 DEF AskedInv, TurnsInv
      <4>. QED
        BY <1>1, <1>6, <2>3, <3>1, <4>1
    <3>. QED
      BY <3>1 DEF AskedInv, TurnsInv
  <2>5. ASSUME alone'[r]
        PROVE  asked'[r] = {b \in Backends : Behind(b)' < Made(r)'}
    <3>1. \A b \in Backends : Behind(b)' < Made(r)' <=> b \in asked'[r]
      BY <1>1, <1>6, <2>1, <2>2, <2>3, <2>4, <2>5
    <3>2. asked'[r] \subseteq Backends
      BY <1>1, <2>1 DEF AskedInv, TurnsInv
    <3>. QED
      BY <3>1, <3>2
  <2>6. asked'[r] \subseteq Backends /\ asked'[r] # {}
    BY <1>1, <2>1 DEF AskedInv, TurnsInv
  <2>7. result'[r] = "none" => at'[r] = "done" /\ attempt[r] = 1
    BY <1>2 DEF AskedInv, TurnsInv
  <2>8. (asked[r] = {} <=> result[r] = "none" /\ ~Aborted(r))'
    BY <1>1, <1>2, <2>6, <2>7 DEF Aborted
  <2>. QED
    BY <1>1, <1>2, <1>7, <2>5, <2>6, <2>7, <2>8 DEF TurnsInv, Backends, Made
<1>8. CASE q # r
  <2>1. at'[q] = at[q] /\ result'[q] = result[q] /\ ~Asks(q)
    BY <1>4, <1>5, <1>8
  <2>2. TurnsInv(q) /\ (at[q] = "idle" => asked[q] = {})
    BY DEF ChainInv, RequestInv, AskedInv, TurnsInv, Aborted
  <2>3. asked'[q] = asked[q]
    BY <2>1, <2>2 DEF HChainNext
  <2>4. alone'[q] => asked[q] = {}
    BY <1>5, <1>8, <2>1, <2>2 DEF HChainNext
  <2>. QED
    BY <1>1, <2>1, <2>2, <2>3, <2>4 DEF TurnsInv, Aborted, Backends
<1>. QED
    BY <1>7, <1>8

(* What a step other than an attempt can mean for request q: nothing, the  *)
(* end of its handlers, the end of a sleep, or the way to a later handler, *)
(* on which an attempt's result is the only gateway error to be answered.  *)
MovesOn(q) ==
    \/ UNCHANGED <<at[q], attempt[q], result[q], answer[q]>>
    \/ /\ at[q] = "done" /\ at'[q] = "idle" /\ attempt'[q] = 1
       /\ result'[q] = "none" /\ answer'[q] = "none"
    \/ /\ at[q] = "sleep" /\ at'[q] = "retry" /\ attempt'[q] = attempt[q] + 1
       /\ result'[q] = result[q] /\ answer'[q] = answer[q]
    \/ /\ attempt'[q] = attempt[q] /\ result'[q] = result[q]
       /\ at[q] \notin {"done", "retry"} /\ at'[q] \notin {"idle", "sleep", "flush"}
       /\ at'[q] = "retry" => at[q] = "breaker"
       /\ at'[q] = "done" => answer'[q] # "none" \/ at[q] = "store"
       /\ at[q] = "store" => answer'[q] = answer[q]
       /\ at'[q] = "store" => at[q] = "flush" /\ answer'[q] = result[q]
       /\ answer'[q] = "bad" => answer[q] = "bad" \/ at'[q] = "store"

LEMMA RestMovesOn ==
    ASSUME ChainInv, ChainNext, ~\E r \in Callers : Try(r) \/ Abort(r), NEW q \in Callers
    PROVE  MovesOn(q) /\ turn' = turn
<1> USE DEF MovesOn
<1>1. /\ at \in [Callers -> Stages] /\ attempt \in [Callers -> 1..MaxAttempts]
      /\ result \in [Callers -> Results \union {"none"}]
      /\ answer \in [Callers -> Answers \union {"none"}]
    BY DEF ChainInv, ChainTypeOK
<1>2. CASE Tick /\ UNCHANGED chainVars
    BY <1>2 DEF chainVars
<1>3. ASSUME NEW u \in Uris, Expire(u)
      PROVE  MovesOn(q) /\ turn' = turn
    BY <1>3 DEF Expire, Unseen
<1>4. ASSUME NEW r \in Callers, NEW x \in RequestType, Arrive(r, x)
      PROVE  MovesOn(q) /\ turn' = turn
    BY <1>1, <1>4 DEF Arrive, Goes
<1>5. ASSUME NEW r \in Callers,
             \/ Unauthorized(r) \/ Authorized(r) \/ Preflight(r) \/ PassCORS(r)
             \/ TooMany(r) \/ Allowed(r) \/ Miss(r)
      PROVE  MovesOn(q) /\ turn' = turn
    BY <1>1, <1>5 DEF Unauthorized, Authorized, Preflight, PassCORS, TooMany,
       Allowed, Miss, Goes, Reply, Unseen
<1>6. ASSUME NEW r \in Callers, Hit(r)
      PROVE  MovesOn(q) /\ turn' = turn
  <2>1. cache[request[r].uri] \notin {"bad", "none"}
    BY <1>6 DEF Hit, Cached, ChainInv, ChainTypeOK, RequestType
  <2>. QED
    BY <1>1, <1>6, <2>1 DEF Hit, Goes, Reply, Unseen
<1>7. ASSUME NEW r \in Callers, Open(r) \/ Enter(r) \/ Store(r)
      PROVE  MovesOn(q) /\ turn' = turn
    BY <1>1, <1>7 DEF Open, Enter, Store, Goes, Reply, Unseen
<1>8. ASSUME NEW r \in Callers, Record(r)
      PROVE  MovesOn(q) /\ turn' = turn
  <2>1. /\ at[r] = "flush" /\ at' = [at EXCEPT ![r] = "store"]
        /\ answer' = [answer EXCEPT ![r] = result[r]]
        /\ UNCHANGED <<attempt, result, turn>>
    BY <1>8 DEF Record, Goes, Reply
  <2>. QED
    BY <1>1, <2>1
<1>9. ASSUME NEW r \in Callers, Wake(r)
      PROVE  MovesOn(q) /\ turn' = turn
    BY <1>1, <1>9 DEF Wake, Goes
<1>10. ASSUME NEW r \in Callers, Leave(r)
       PROVE  MovesOn(q) /\ turn' = turn
    BY <1>1, <1>10 DEF Leave, Goes, Reply
<1>. QED
    BY <1>2, <1>3, <1>4, <1>5, <1>6, <1>7, <1>8, <1>9, <1>10 DEF ChainNext, Handle

(* Without an attempt no turn is taken, and a request keeps what it has    *)
(* asked for until it leaves.                                              *)
LEMMA RestKeepsTurns ==
    ASSUME ChainInv, AskedInv, HChainNext, ~\E r \in Callers : Try(r) \/ Abort(r),
           NEW q \in Callers
    PROVE  TurnsInv(q)'
<1>1. \A p \in Callers : MovesOn(p) /\ turn' = turn
    BY RestMovesOn DEF HChainNext
<1>2. \A p \in Callers : ~Asks(p)
    BY <1>1 DEF Asks, MovesOn
<1>3. /\ asked'[q] = IF at'[q] = "idle" THEN {} ELSE asked[q]
      /\ alone'[q] => at'[q] = "idle" \/ alone[q]
    BY <1>2 DEF HChainNext
<1>4. \A b : Behind(b)' = Behind(b)
    BY <1>1 DEF Behind
<1>5. /\ at[q] = "idle" => result[q] = "none"
      /\ attempt[q] \in 1..MaxAttempts
      /\ answer[q] # "none" => at[q] \in {"store", "done"}
      /\ at[q] = "store" => answer[q] = result[q]
      /\ at[q] = "flush" => result[q] # "none"
      /\ at[q] = "breaker" => result[q] = "none"
    BY DEF ChainInv, ChainTypeOK, RequestInv
<1>6. TurnsInv(q)
    BY DEF AskedInv
<1>7. CASE at'[q] = "idle"
  <2>1. result'[q] = "none" /\ attempt'[q] = 1 /\ answer'[q] # "bad"
    BY <1>1, <1>5, <1>6, <1>7 DEF MovesOn, TurnsInv
  <2>. QED
    BY <1>3, <1>7, <2>1 DEF TurnsInv, Aborted
<1>8. CASE at'[q] # "idle"
  <2>1. asked'[q] = asked[q] /\ (alone'[q] => alone[q]) /\ result'[q] = result[q]
    BY <1>1, <1>3, <1>8 DEF MovesOn
  <2>2. asked[q] # {} => Made(q)' = Made(q)
    BY <1>1, <1>5, <1>6, <1>8 DEF MovesOn, Made, TurnsInv, Aborted
  <2>3. result[q] = "none" => attempt'[q] = 1 /\ at'[q] \notin {"sleep", "store"}
    BY <1>1, <1>5, <1>6, <1>8 DEF MovesOn, TurnsInv
  <2>4. /\ at'[q] \in {"flush", "store"} /\ result'[q] = "bad"
           => attempt'[q] = MaxAttempts
        /\ answer'[q] = "bad" => result'[q] = "bad" /\ attempt'[q] = MaxAttempts
    BY <1>1, <1>5, <1>6, <1>8 DEF MovesOn, TurnsInv
  <2>5. alone'[q] /\ asked'[q] # {}
        => asked'[q] = {b \in Backends : Behind(b)' < Made(q)'}
    BY <1>4, <1>6, <2>1, <2>2 DEF TurnsInv
  <2>6. Aborted(q)' <=> Aborted(q)
    BY <1>1, <1>5, <1>6, <1>8 DEF MovesOn, TurnsInv, Aborted
  <2>. QED
    BY <1>6, <2>1, <2>3, <2>4, <2>5, <2>6 DEF TurnsInv, Backends
<1>. QED
    BY <1>7, <1>8

LEMMA StepAskedInv ==
    ChainInv /\ AskedInv /\ [HChainNext]_<<systemVars, history>> => AskedInv'
<1> SUFFICES ASSUME ChainInv, AskedInv, [HChainNext]_<<systemVars, history>>
             PROVE  AskedInv'
    OBVIOUS
<1>1. CASE UNCHANGED <<systemVars, history>>
    BY <1>1 DEF systemVars, chainVars, history, AskedInv, TurnsInv, Made, Behind,
                Aborted
<1>2. CASE HChainNext
  <2>1. /\ asked' \in [Callers -> SUBSET Backends]
        /\ alone' \in [Callers -> BOOLEAN]
    <3>1. turn \in Backends
      BY DEF ChainInv, ChainTypeOK
    <3>. QED
      BY <1>2, <3>1 DEF HChainNext, AskedInv
  <2>2. \A q \in Callers : TurnsInv(q)'
    BY <1>2, AttemptKeepsTurns, RestKeepsTurns
  <2>. QED
    BY <2>1, <2>2 DEF AskedInv
<1>. QED
    BY <1>1, <1>2

(* With as many attempts as backends and the balancer to itself, a request *)
(* ends in a gateway error only after every backend was asked: for any     *)
(* number of backends, attempts and other requests.                        *)
THEOREM AllBackendsAsked == HChainSpec => []GivesUpAfterAllBackends
<1>1. ChainInv /\ AskedInv => GivesUpAfterAllBackends
  <2> SUFFICES ASSUME ChainInv, AskedInv, NEW r \in Callers,
                      answer[r] = "bad", alone[r], MaxAttempts >= Targets
               PROVE  asked[r] = Backends
    BY DEF GivesUpAfterAllBackends
  <2>1. /\ at[r] \in {"store", "done"} /\ turn \in Backends
    BY DEF ChainInv, ChainTypeOK, RequestInv
  <2>2. Made(r) = MaxAttempts /\ asked[r] = {b \in Backends : Behind(b) < Made(r)}
    BY <2>1 DEF AskedInv, TurnsInv, Made
  <2>3. \A b \in Backends : Behind(b) < MaxAttempts
    BY <2>1, ChainAssumption DEF Behind, Backends
  <2>. QED
    BY <2>2, <2>3
<1>2. HChainSpec => ChainSpec
  <2>1. HChainInit => ChainInit
    BY DEF HChainInit
  <2>2. [HChainNext]_<<systemVars, history>> => [ChainNext]_systemVars
    BY DEF HChainNext
  <2>. QED
    BY <2>1, <2>2, PTL DEF HChainSpec, ChainSpec
<1>. QED
    BY <1>1, <1>2, ChainInvariant, InitAskedInv, StepAskedInv, PTL DEF HChainSpec

-----------------------------------------------------------------------------
LEMMA GatewayInitChain == GatewayInit => ChainInit
<1>. QED
    BY DEF GatewayInit

(* Each step of the server is one of the chain or leaves the chain alone. *)
LEMMA GatewayStepChain == [GatewayNext]_fullVars => [ChainNext]_systemVars
<1> SUFFICES ASSUME [GatewayNext]_fullVars
             PROVE  [ChainNext]_systemVars
    OBVIOUS
<1>1. CASE UNCHANGED fullVars
    BY <1>1 DEF fullVars
<1>2. CASE Environment
    BY <1>2 DEF Environment, ChainNext
<1>3. ASSUME NEW r \in Callers, NEW q \in RequestType, Accept(r, q)
      PROVE  ChainNext
    BY <1>3 DEF Accept, ChainNext
<1>4. ASSUME NEW r \in Callers, Work(r) \/ Close(r)
      PROVE  ChainNext
    BY <1>4 DEF Work, Close, ChainNext
<1>5. ASSUME NEW r \in Callers,
             Cancel(r) \/ Commit(r) \/ Finish(r) \/ Crash(r) \/ InTime(r) \/ TimeOut(r)
      PROVE  UNCHANGED systemVars
    BY <1>5 DEF Cancel, Commit, Finish, Crash, InTime, TimeOut
<1>. QED
    BY <1>1, <1>2, <1>3, <1>4, <1>5 DEF GatewayNext

(* Timeouts, panics and abandoned workers included, the handlers see of a  *)
(* request what they would see without them: what is proved of the chain,  *)
(* and so of its breaker, holds in the server.                             *)
THEOREM GatewayRunsChain == GatewaySpec => ChainSpec
<1>. QED
    BY GatewayInitChain, GatewayStepChain, PTL DEF GatewaySpec, ChainSpec

-----------------------------------------------------------------------------
(* What a step of the handlers leaves alone: other requests, the request   *)
(* itself, and a response once there is one.                               *)
LEMMA HandleKeeps ==
    ASSUME ChainInv, NEW r \in Callers, Handle(r)
    PROVE  /\ at[r] \notin {"idle", "done"}
           /\ at'[r] # "idle"
           /\ request' = request
           /\ Response(r) # "none" => Response(r)' = Response(r)
           /\ \A q \in Callers \ {r} :
                 at'[q] = at[q] /\ answer'[q] = answer[q] /\ result'[q] = result[q]
<1> USE DEF ChainInv, ChainTypeOK, RequestInv, Response, Goes, Reply, Unseen, Stages
<1>1. CASE \/ Unauthorized(r) \/ Authorized(r) \/ Preflight(r) \/ PassCORS(r)
           \/ Hit(r) \/ Miss(r) \/ TooMany(r) \/ Allowed(r)
    BY <1>1 DEF Unauthorized, Authorized, Preflight, PassCORS, Hit, Miss,
       TooMany, Allowed
<1>2. CASE Open(r) \/ Enter(r) \/ Abort(r) \/ Record(r)
    BY <1>2 DEF Open, Enter, Abort, Record
<1>3. CASE Wake(r) \/ Store(r)
    BY <1>3 DEF Wake, Store
<1>4. CASE Try(r)
    BY <1>4 DEF Try, AfterAttempt
<1>. QED
    BY <1>1, <1>2, <1>3, <1>4 DEF Handle

LEMMA InitGatewayInv == GatewayInit => GatewayInv
<1> SUFFICES ASSUME GatewayInit
             PROVE  GatewayInv
    OBVIOUS
<1>1. GatewayTypeOK
    BY DEF GatewayInit, GatewayTypeOK
<1>2. ASSUME NEW r \in Callers
      PROVE  RecorderInv(r)
    BY DEF GatewayInit, ChainInit, RecorderInv
<1>. QED
    BY <1>1, <1>2 DEF GatewayInit, GatewayInv

(* A step that concerns one request keeps what it does not touch. *)
LEMMA OthersKeepRecorder ==
    ASSUME GatewayInv, NEW r \in Callers, RecorderInv(r)', GatewayTypeOK',
           worker[r] = "panicked" => worker'[r] = "panicked",
           crashed' => crashed \/ worker[r] = "panicked",
           \A q \in Callers \ {r} :
              /\ at'[q] = at[q] /\ answer'[q] = answer[q] /\ result'[q] = result[q]
              /\ server'[q] = server[q] /\ worker'[q] = worker[q]
              /\ cancelled'[q] = cancelled[q]
              /\ status'[q] = status[q] /\ wire'[q] = wire[q]
    PROVE  GatewayInv'
<1>1. ASSUME NEW q \in Callers \ {r}
      PROVE  RecorderInv(q)'
    BY <1>1 DEF GatewayInv, RecorderInv, Response
<1>2. crashed' => \E q \in Callers : worker'[q] = "panicked"
    BY DEF GatewayInv
<1>. QED
    BY <1>1, <1>2 DEF GatewayInv

(* What Response may be, from the invariant of the chain. *)
LEMMA ResponseType ==
    ASSUME ChainInv, NEW r \in Callers
    PROVE  /\ Response(r) \in Answers \union {"none"}
           /\ answer[r] \in Answers \union {"none"}
           /\ Response(r) # "none" => at[r] # "idle"
           /\ at[r] # "flush" => Response(r) = answer[r]
    BY DEF ChainInv, ChainTypeOK, RequestInv, Response, Answers

LEMMA StepGatewayInv ==
    ChainInv /\ ChainInv' /\ GatewayInv /\ [GatewayNext]_fullVars => GatewayInv'
<1> SUFFICES ASSUME ChainInv, ChainInv', GatewayInv, [GatewayNext]_fullVars
             PROVE  GatewayInv'
    OBVIOUS
<1> USE DEF GatewayTypeOK
<1>1. CASE UNCHANGED <<at, answer, result, gatewayVars>>
    BY <1>1 DEF GatewayInv, RecorderInv, Response, gatewayVars
<1>2. CASE Environment
  <2>1. UNCHANGED <<at, answer, result, gatewayVars>>
    BY <1>2 DEF Environment, Expire, Unseen, chainVars
  <2>. QED
    BY <2>1, <1>1
<1>3. ASSUME NEW r \in Callers, NEW q \in RequestType, Accept(r, q)
      PROVE  GatewayInv'
  <2>1. /\ at[r] = "idle" /\ at'[r] = "auth"
        /\ answer' = answer /\ result' = result
        /\ \A p \in Callers \ {r} : at'[p] = at[p]
    BY <1>3 DEF Accept, Arrive, Goes, ChainInv, ChainTypeOK
  <2>2. answer[r] = "none"
    BY <2>1 DEF ChainInv, RequestInv
  <2>. QED
    BY <1>3, <2>1, <2>2, OthersKeepRecorder
    DEF Accept, GatewayInv, RecorderInv, Response
<1>4. ASSUME NEW r \in Callers, Cancel(r)
      PROVE  GatewayInv'
    BY <1>4, OthersKeepRecorder
    DEF Cancel, GatewayInv, RecorderInv, Response, systemVars, chainVars
<1>5. ASSUME NEW r \in Callers, Work(r)
      PROVE  GatewayInv'
    BY <1>5, HandleKeeps, OthersKeepRecorder
    DEF Work, GatewayInv, RecorderInv, gatewayVars
<1>6. ASSUME NEW r \in Callers, Commit(r)
      PROVE  GatewayInv'
  <2>1. UNCHANGED <<at, answer, result, server, worker, cancelled, crashed>>
    BY <1>6 DEF Commit, systemVars, chainVars
  <2>2. Response(r)' = Response(r) /\ Response(r) \in Answers
    BY <1>6, <2>1, ResponseType DEF Commit, Response
  <2>3. status' = [status EXCEPT ![r] = Response(r)] /\ Send(r, Response(r))
    BY <1>6 DEF Commit, Write
  <2>4. GatewayTypeOK'
    BY <2>1, <2>2, <2>3 DEF GatewayInv, Send
  <2>5. RecorderInv(r)'
    <3>1. /\ status[r] = "none" /\ status'[r] = Response(r)'
          /\ worker[r] = "running" /\ at[r] # "idle" /\ server[r] # "idle"
      BY <1>6, <2>2, <2>3 DEF Commit, GatewayInv, RecorderInv
    <3>2. wire'[r] = IF server[r] = "waiting" THEN status'[r] ELSE wire[r]
      BY <2>2, <2>3, <3>1 DEF Send, GatewayInv, RecorderInv
    <3>3. server[r] = "returned" => wire[r] = "504" /\ cancelled[r]
      BY <3>1 DEF GatewayInv, RecorderInv
    <3>. QED
      BY <2>1, <2>2, <3>1, <3>2, <3>3 DEF GatewayInv, RecorderInv, Answers, Results
  <2>. QED
    BY <2>1, <2>3, <2>4, <2>5, OthersKeepRecorder DEF GatewayInv, Send
<1>7. ASSUME NEW r \in Callers, Finish(r)
      PROVE  GatewayInv'
    BY <1>7, ResponseType, OthersKeepRecorder
    DEF Finish, Write, Send, GatewayInv, RecorderInv, Response, systemVars,
        chainVars, Answers, Results
<1>8. ASSUME NEW r \in Callers, Crash(r)
      PROVE  GatewayInv'
    BY <1>8, OthersKeepRecorder
    DEF Crash, GatewayInv, RecorderInv, Response, systemVars, chainVars
<1>9. ASSUME NEW r \in Callers, InTime(r)
      PROVE  GatewayInv'
    BY <1>9, OthersKeepRecorder
    DEF InTime, Send, GatewayInv, RecorderInv, Response, systemVars, chainVars,
        Answers, Results
<1>10. ASSUME NEW r \in Callers, TimeOut(r)
       PROVE  GatewayInv'
    BY <1>10, OthersKeepRecorder
    DEF TimeOut, Send, GatewayInv, RecorderInv, Response, systemVars, chainVars
<1>11. ASSUME NEW r \in Callers, Close(r)
       PROVE  GatewayInv'
  <2>1. /\ at'[r] = "idle"
        /\ \A p \in Callers \ {r} :
              at'[p] = at[p] /\ answer'[p] = answer[p] /\ result'[p] = result[p]
    BY <1>11 DEF Close, Leave, Goes, Reply, ChainInv, ChainTypeOK
  <2>2. GatewayTypeOK'
    BY <1>11 DEF Close, GatewayInv
  <2>3. RecorderInv(r)'
    BY <1>11, <2>1 DEF Close, GatewayInv, RecorderInv
  <2>. QED
    BY <1>11, <2>1, <2>2, <2>3, OthersKeepRecorder DEF Close, GatewayInv
<1>. QED
    BY <1>1, <1>2, <1>3, <1>4, <1>5, <1>6, <1>7, <1>8, <1>9, <1>10, <1>11
    DEF GatewayNext, fullVars, systemVars, chainVars

(* The wire, the recorder and the handlers agree, whatever races. *)
THEOREM GatewayInvariant == GatewaySpec => []GatewayInv
<1>1. ChainInv /\ [GatewayNext]_fullVars => ChainInv'
    BY StepChainInv, GatewayStepChain
<1>. QED
    BY <1>1, GatewayInitChain, InitChainInv, InitGatewayInv, StepGatewayInv, PTL
    DEF GatewaySpec

-----------------------------------------------------------------------------
(* What the handlers answer is what the contract allows for the request.   *)
LEMMA ResponseAllowed ==
    ASSUME ChainInv, NEW r \in Callers, Response(r) # "none"
    PROVE  /\ Sort(r) \in Clients!Sorts
           /\ Response(r) \in Clients!Allowed(Sort(r))
<1> USE DEF ChainInv, ChainTypeOK, RequestInv, Response, Sort, Clients!Sorts,
            Clients!Allowed, Answers, Results, Stages
<1>1. at[r] # "idle"
    BY ResponseType
<1>2. CASE Response(r) = "401"
    BY <1>1, <1>2
<1>3. CASE Response(r) = "204"
    BY <1>1, <1>3
<1>4. CASE Response(r) \notin {"401", "204"}
  <2>1. request[r].key /\ request[r].kind # "preflight"
    BY <1>1, <1>4
  <2>. QED
    BY <1>1, <1>4, <2>1
<1>. QED
    BY <1>2, <1>3, <1>4

(* A panic has left a request that the contract allows any response.       *)
LEMMA PanicAllowed ==
    ASSUME ChainInv, NEW r \in Callers, at[r] = "done", answer[r] = "none"
    PROVE  Sort(r) = "call" /\ "ok" \in Clients!Allowed("call")
    BY DEF ChainInv, RequestInv, Sort, Clients!Allowed, Results

(* A first status on the wire is the contract's Tell. *)
LEMMA SendTells ==
    ASSUME NEW r \in Callers, NEW s, Send(r, s), GatewayTypeOK,
           UNCHANGED <<at, request, crashed>>, ~crashed,
           Sort(r) \in Clients!Sorts, s \in Clients!Allowed(Sort(r))
    PROVE  [Clients!Next]_Clients!vars
<1>1. CASE wire' = wire
    BY <1>1 DEF Sort, Clients!vars
<1>2. CASE wire' = [wire EXCEPT ![r] = s] /\ wire[r] = "none"
  <2>1. Clients!Tell(r, s)
    BY <1>2 DEF Clients!Tell, Sort
  <2>. QED
    BY <2>1 DEF Clients!Next
<1>. QED
    BY <1>1, <1>2 DEF Send

LEMMA GatewayInitRefines == GatewayInit => Clients!Init
<1>. QED
    BY DEF GatewayInit, ChainInit, Clients!Init, Sort

LEMMA GatewayStepRefines ==
    ChainInv /\ ChainInv' /\ GatewayInv /\ [GatewayNext]_fullVars
    => [Clients!Next]_Clients!vars
<1> SUFFICES ASSUME ChainInv, ChainInv', GatewayInv, [GatewayNext]_fullVars
             PROVE  [Clients!Next]_Clients!vars
    OBVIOUS
<1> USE DEF GatewayInv, GatewayTypeOK
<1>1. CASE UNCHANGED <<at, request, wire, crashed>>
    BY <1>1 DEF Clients!vars, Sort
<1>2. CASE Environment
    BY <1>1, <1>2 DEF Environment, Expire, Unseen, chainVars, gatewayVars
<1>3. ASSUME NEW r \in Callers, NEW q \in RequestType, Accept(r, q), ~crashed
      PROVE  [Clients!Next]_Clients!vars
  <2>1. /\ at[r] = "idle" /\ at' = [at EXCEPT ![r] = "auth"]
        /\ request' = [request EXCEPT ![r] = q]
        /\ UNCHANGED <<wire, crashed>>
    BY <1>3 DEF Accept, Arrive, Goes
  <2>2. at \in [Callers -> Stages] /\ request \in [Callers -> RequestType]
    BY DEF ChainInv, ChainTypeOK
  <2>3. Sort(r) = "none" /\ Sort(r)' \in Clients!Sorts
    BY <2>1, <2>2 DEF Sort, Clients!Sorts, RequestType
  <2>4. \A p \in Callers \ {r} : Sort(p)' = Sort(p)
    BY <2>1, <2>2 DEF Sort
  <2>5. Clients!Ask(r, Sort(r)')
    BY <2>1, <2>3, <2>4 DEF Clients!Ask
  <2>. QED
    BY <1>3, <2>1, <2>3, <2>5 DEF Clients!Next
<1>4. ASSUME NEW r \in Callers, Cancel(r)
      PROVE  [Clients!Next]_Clients!vars
    BY <1>1, <1>4 DEF Cancel, systemVars, chainVars
<1>5. ASSUME NEW r \in Callers, Work(r)
      PROVE  [Clients!Next]_Clients!vars
  <2>1. \A p \in Callers : Sort(p)' = Sort(p)
    BY <1>5, HandleKeeps DEF Work, Sort
  <2>. QED
    BY <1>5, <2>1 DEF Work, gatewayVars, Clients!vars
<1>6. ASSUME NEW r \in Callers, Commit(r), ~crashed
      PROVE  [Clients!Next]_Clients!vars
  <2>1. Send(r, Response(r)) /\ UNCHANGED <<at, request, crashed>>
    BY <1>6 DEF Commit, Write, systemVars, chainVars
  <2>. QED
    BY <1>6, <2>1, ResponseAllowed, SendTells DEF Commit
<1>7. ASSUME NEW r \in Callers, Finish(r), ~crashed
      PROVE  [Clients!Next]_Clients!vars
  <2>1. UNCHANGED <<at, request, crashed>> /\ at[r] = "done"
    BY <1>7 DEF Finish, systemVars, chainVars
  <2>2. CASE answer[r] # "none"
    <3>1. Response(r) = answer[r]
      BY <2>1 DEF Response
    <3>2. UNCHANGED wire \/ Send(r, answer[r])
      BY <1>7, <2>2 DEF Finish, Write
    <3>. QED
      BY <1>1, <1>7, <2>1, <2>2, <3>1, <3>2, ResponseAllowed, SendTells
  <2>3. CASE answer[r] = "none"
    <3>1. UNCHANGED wire \/ Send(r, "ok")
      BY <1>7, <2>3 DEF Finish, Write
    <3>. QED
      BY <1>1, <1>7, <2>1, <2>3, <3>1, PanicAllowed, SendTells DEF Clients!Sorts
  <2>. QED
    BY <2>2, <2>3
<1>8. ASSUME NEW r \in Callers, Crash(r)
      PROVE  [Clients!Next]_Clients!vars
  <2>1. UNCHANGED <<at, request, wire>> /\ crashed'
    BY <1>8 DEF Crash, systemVars, chainVars
  <2>. QED
    BY <2>1 DEF Clients!Next, Sort
<1>9. ASSUME NEW r \in Callers, InTime(r), ~crashed
      PROVE  [Clients!Next]_Clients!vars
  <2>1. /\ UNCHANGED <<at, request, crashed>>
        /\ at[r] = "done"
        /\ Send(r, IF status[r] = "none" THEN "ok" ELSE status[r])
    BY <1>9 DEF InTime, systemVars, chainVars, RecorderInv
  <2>2. CASE status[r] # "none"
    BY <1>1, <1>9, <2>1, <2>2 DEF InTime, Send, RecorderInv
  <2>3. CASE status[r] = "none"
    <3>1. answer[r] = "none"
      BY <1>9, <2>3 DEF InTime, RecorderInv
    <3>. QED
      BY <1>9, <2>1, <2>3, <3>1, PanicAllowed, SendTells DEF Clients!Sorts
  <2>. QED
    BY <2>2, <2>3
<1>10. ASSUME NEW r \in Callers, TimeOut(r), ~crashed
       PROVE  [Clients!Next]_Clients!vars
  <2>1. UNCHANGED <<at, request, crashed>> /\ Send(r, "504")
    BY <1>10 DEF TimeOut, systemVars, chainVars
  <2>2. at[r] # "idle"
    BY <1>10 DEF TimeOut, RecorderInv
  <2>3. Sort(r) \in Clients!Sorts
    BY <2>2 DEF Sort, Clients!Sorts, ChainInv, ChainTypeOK, RequestType
  <2>. QED
    BY <1>10, <2>1, <2>3, SendTells DEF Clients!Allowed
<1>11. ASSUME NEW r \in Callers, Close(r), ~crashed
       PROVE  [Clients!Next]_Clients!vars
  <2>1. /\ at' = [at EXCEPT ![r] = "idle"]
        /\ request' = [request EXCEPT ![r] = NoRequest]
        /\ wire' = [wire EXCEPT ![r] = "none"]
        /\ UNCHANGED crashed
    BY <1>11 DEF Close, Leave, Goes
  <2>2. wire[r] # "none"
    BY <1>11 DEF Close, RecorderInv
  <2>3. at \in [Callers -> Stages] /\ request \in [Callers -> RequestType]
    BY DEF ChainInv, ChainTypeOK
  <2>4. /\ Sort(r)' = "none"
        /\ \A p \in Callers \ {r} : Sort(p)' = Sort(p)
    BY <2>1, <2>3 DEF Sort
  <2>5. Clients!Over(r)
    BY <2>1, <2>2, <2>4 DEF Clients!Over
  <2>. QED
    BY <1>11, <2>1, <2>5 DEF Clients!Next
<1>. QED
    BY <1>1, <1>2, <1>3, <1>4, <1>5, <1>6, <1>7, <1>8, <1>9, <1>10, <1>11
    DEF GatewayNext, fullVars, systemVars, chainVars, gatewayVars

(* The server keeps the contract with its clients. *)
THEOREM GatewayRefinement == GatewaySpec => ImplementsGateway
<1>1. ChainInv /\ [GatewayNext]_fullVars => ChainInv'
    BY StepChainInv, GatewayStepChain
<1>. QED
    BY <1>1, GatewayInitChain, InitChainInv, InitGatewayInv, StepGatewayInv,
       GatewayInitRefines, GatewayStepRefines, PTL
    DEF GatewaySpec, ImplementsGateway, Clients!Spec
=============================================================================
