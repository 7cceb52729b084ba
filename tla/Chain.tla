-------------------------------- MODULE Chain --------------------------------
(***************************************************************************)
(* The inner handlers of cmd/server/main.go in their order: auth, CORS,    *)
(* cache, rate limit, circuit breaker, retry and balancer, for requests    *)
(* that overlap.  They share the breaker, the cache and the round robin.   *)
(*                                                                         *)
(* The parts that have modules of their own appear as far as the others    *)
(* see them: the rate limiter may refuse at any time, a cached response    *)
(* may expire or be evicted at any time, and the round robin is its        *)
(* counter modulo the number of targets.  Backends, which may fail at any  *)
(* time, clients and clock are the environment.                            *)
(***************************************************************************)
EXTENDS CircuitBreaker, FiniteSets

CONSTANTS
    Kinds,      \* the kinds of requests that come
    Uris,       \* request URIs, the keys of the cache
    Targets,    \* the number of backends
    MaxAttempts \* cfg.MaxAttempts of the retry middleware

ASSUME ChainAssumption ==
    /\ Kinds # {}
    /\ Kinds \subseteq {"get", "preflight", "other"}
    /\ Uris # {}
    /\ Targets \in Nat \ {0}
    /\ MaxAttempts \in Nat \ {0}

Backends == 0..Targets - 1

VARIABLES
    at,      \* at[r]: the handler that r has come to, or "idle"
    request, \* request[r]: what auth, CORS and the cache look at
    attempt, \* attempt[r]: the loop variable of the retry middleware
    result,  \* result[r]: the status of the latest attempt, "none" before
    answer,  \* answer[r]: the status written for r, "none" before
    cache,   \* cache[u]: the status of the usable response for u, or "none"
    turn     \* b.counter modulo Targets

(* History, for the current request of each goroutine. *)
VARIABLE
    recorded  \* recorded[r]: results that the breaker recorded

chainVars == <<at, request, attempt, result, answer, cache, turn, recorded>>
systemVars == <<vars, chainVars>>

Stages == {"idle", "auth", "cors", "cache", "limit", "breaker", "retry",
           "sleep", "flush", "store", "done"}

(* Upstream statuses: "ok" is 200, "other" anything else below 500,        *)
(* "error" 500 and above, "bad" one of 502, 503 and 504.                   *)
Results == {"ok", "other", "error", "bad"}

Answers == Results \union {"401", "204", "429", "open"}

RequestType == [key : BOOLEAN, kind : Kinds, uri : Uris]

NoRequest == CHOOSE q \in RequestType : TRUE

ChainTypeOK ==
    /\ TypeOK
    /\ at \in [Callers -> Stages]
    /\ request \in [Callers -> RequestType]
    /\ attempt \in [Callers -> 1..MaxAttempts]
    /\ result \in [Callers -> Results \union {"none"}]
    /\ answer \in [Callers -> Answers \union {"none"}]
    /\ cache \in [Uris -> Results \union {"none"}]
    /\ turn \in Backends
    /\ recorded \in [Callers -> 0..MaxAttempts]

ChainInit ==
    /\ Init
    /\ at = [r \in Callers |-> "idle"]
    /\ request = [r \in Callers |-> NoRequest]
    /\ attempt = [r \in Callers |-> 1]
    /\ result = [r \in Callers |-> "none"]
    /\ answer = [r \in Callers |-> "none"]
    /\ cache = [u \in Uris |-> "none"]
    /\ turn = 0
    /\ recorded = [r \in Callers |-> 0]

-----------------------------------------------------------------------------
Goes(r, from, to) ==
    /\ at[r] = from
    /\ at' = [at EXCEPT ![r] = to]

Reply(r, status) == answer' = [answer EXCEPT ![r] = status]

(* A request enters the chain. *)
Arrive(r, q) ==
    /\ Goes(r, "idle", "auth")
    /\ request' = [request EXCEPT ![r] = q]
    /\ UNCHANGED <<vars, attempt, result, answer, cache, turn, recorded>>

(* The handlers have returned: what they kept for the request is gone. *)
Leave(r) ==
    /\ Goes(r, "done", "idle")
    /\ request' = [request EXCEPT ![r] = NoRequest]
    /\ attempt' = [attempt EXCEPT ![r] = 1]
    /\ result' = [result EXCEPT ![r] = "none"]
    /\ Reply(r, "none")
    /\ recorded' = [recorded EXCEPT ![r] = 0]
    /\ UNCHANGED <<vars, cache, turn>>

Unseen == UNCHANGED <<request, attempt, result, turn, recorded>>

Unauthorized(r) ==
    /\ ~request[r].key
    /\ Goes(r, "auth", "done")
    /\ Reply(r, "401")
    /\ UNCHANGED <<vars, cache>> /\ Unseen

Authorized(r) ==
    /\ request[r].key
    /\ Goes(r, "auth", "cors")
    /\ UNCHANGED <<vars, answer, cache>> /\ Unseen

Preflight(r) ==
    /\ request[r].kind = "preflight"
    /\ Goes(r, "cors", "done")
    /\ Reply(r, "204")
    /\ UNCHANGED <<vars, cache>> /\ Unseen

PassCORS(r) ==
    /\ request[r].kind # "preflight"
    /\ Goes(r, "cors", "cache")
    /\ UNCHANGED <<vars, answer, cache>> /\ Unseen

Cached(r) == request[r].kind = "get" /\ cache[request[r].uri] # "none"

(* Mutant of Hit: the cache is outside the authentication. *)
HitOutside(r) ==
    /\ Cached(r)
    /\ at[r] \in {"auth", "cache"}
    /\ at' = [at EXCEPT ![r] = "done"]
    /\ Reply(r, cache[request[r].uri])
    /\ UNCHANGED <<vars, cache>> /\ Unseen

Hit(r) ==
    /\ Cached(r)
    /\ Goes(r, "cache", "done")
    /\ Reply(r, cache[request[r].uri])
    /\ UNCHANGED <<vars, cache>> /\ Unseen

Miss(r) ==
    /\ ~Cached(r)
    /\ Goes(r, "cache", "limit")
    /\ UNCHANGED <<vars, answer, cache>> /\ Unseen

TooMany(r) ==
    /\ Goes(r, "limit", "done")
    /\ Reply(r, "429")
    /\ UNCHANGED <<vars, cache>> /\ Unseen

Allowed(r) ==
    /\ Goes(r, "limit", "breaker")
    /\ UNCHANGED <<vars, answer, cache>> /\ Unseen

(* The breaker middleware: Execute returns ErrCircuitOpen. *)
Open(r) ==
    /\ Refuse(r)
    /\ Goes(r, "breaker", "done")
    /\ Reply(r, "open")
    /\ UNCHANGED cache /\ Unseen

Enter(r) ==
    /\ Admit(r)
    /\ Goes(r, "breaker", "retry")
    /\ UNCHANGED <<answer, cache>> /\ Unseen

(* Mutant of Take: the balancer stays with its target. *)
TakeSame == UNCHANGED turn

Take == turn' = (turn + 1) % Targets

AfterAttempt(r, s) ==
    IF s = "bad" /\ attempt[r] < MaxAttempts THEN "sleep" ELSE "flush"

(* One attempt: the balancer takes the next target, and the response of    *)
(* that backend is kept, or the 502 of the reverse proxy's error handler.  *)
(* A retryable one is followed by a sleep and another attempt.             *)
Try(r) ==
    /\ at[r] = "retry"
    /\ Take
    /\ \E s \in Results :
          /\ result' = [result EXCEPT ![r] = s]
          /\ at' = [at EXCEPT ![r] = AfterAttempt(r, s)]
    /\ UNCHANGED <<vars, request, attempt, answer, cache, recorded>>

Wake(r) ==
    /\ Goes(r, "sleep", "retry")
    /\ attempt' = [attempt EXCEPT ![r] = @ + 1]
    /\ UNCHANGED <<vars, request, result, answer, cache, turn, recorded>>

(* Mutant of Record: the breaker is inside the retry. *)
RecordAttempt(r) ==
    /\ at[r] \in {"sleep", "flush"}
    /\ IF result[r] \in {"error", "bad"} THEN Fail(r) ELSE Succeed(r)
    /\ at' = [at EXCEPT ![r] = IF at[r] = "flush" THEN "store" ELSE "breaker"]
    /\ attempt' = [attempt EXCEPT ![r] = IF at[r] = "flush" THEN @ ELSE @ + 1]
    /\ IF at[r] = "flush" THEN Reply(r, result[r]) ELSE UNCHANGED answer
    /\ recorded' = [recorded EXCEPT ![r] = @ + 1]
    /\ UNCHANGED <<request, result, cache, turn>>

(* The retry middleware has flushed the last response, which the breaker   *)
(* middleware passes on and judges: Execute records the result.            *)
Record(r) ==
    /\ Goes(r, "flush", "store")
    /\ IF result[r] \in {"error", "bad"} THEN Fail(r) ELSE Succeed(r)
    /\ Reply(r, result[r])
    /\ recorded' = [recorded EXCEPT ![r] = @ + 1]
    /\ UNCHANGED <<request, attempt, result, cache, turn>>

(* The handler panics, as the reverse proxy does when the copy of a body   *)
(* fails, after the balancer took a target for the attempt: retry, breaker *)
(* and cache are unwound, nobody records anything.                         *)
Abort(r) ==
    /\ Panic(r)
    /\ Goes(r, "retry", "done")
    /\ Take
    /\ UNCHANGED <<request, attempt, result, recorded, answer, cache>>

(* Mutant of Store: every response to a GET is stored. *)
StoreAny(r) ==
    /\ Goes(r, "store", "done")
    /\ cache' = IF request[r].kind = "get"
                   THEN [cache EXCEPT ![request[r].uri] = answer[r]] ELSE cache
    /\ UNCHANGED <<vars, answer>> /\ Unseen

(* The cache middleware, once the handlers below have returned. *)
Store(r) ==
    /\ Goes(r, "store", "done")
    /\ cache' = IF request[r].kind = "get" /\ answer[r] = "ok"
                   THEN [cache EXCEPT ![request[r].uri] = "ok"] ELSE cache
    /\ UNCHANGED <<vars, answer>> /\ Unseen

Expire(u) ==
    /\ cache[u] # "none"
    /\ cache' = [cache EXCEPT ![u] = "none"]
    /\ UNCHANGED <<vars, at, answer>> /\ Unseen

(* A step of the handlers for a request that has arrived. *)
Handle(r) ==
    \/ Unauthorized(r) \/ Authorized(r)
    \/ Preflight(r) \/ PassCORS(r)
    \/ Hit(r) \/ Miss(r)
    \/ TooMany(r) \/ Allowed(r)
    \/ Open(r) \/ Enter(r)
    \/ Try(r) \/ Wake(r) \/ Record(r) \/ Abort(r)
    \/ Store(r)

ChainNext ==
    \/ \E r \in Callers :
          \/ \E q \in RequestType : Arrive(r, q)
          \/ Handle(r)
          \/ Leave(r)
    \/ \E u \in Uris : Expire(u)
    \/ Tick /\ UNCHANGED chainVars

ChainSpec == ChainInit /\ [][ChainNext]_systemVars

-----------------------------------------------------------------------------
(* What each handler may rely on: past the authentication there is a key,  *)
(* before the breaker's record there is no result of it and no answer, and *)
(* the record, the answer and the latest attempt agree.                    *)
RequestInv(r) ==
    /\ at[r] = "idle" => answer[r] = "none"
    /\ at[r] \notin {"idle", "auth", "done"} => request[r].key
    /\ at[r] \notin {"idle", "auth", "cors", "done"}
       => request[r].kind # "preflight"
    /\ at[r] \notin {"store", "done"} => answer[r] = "none" /\ recorded[r] = 0
    /\ at[r] \in {"idle", "auth", "cors", "cache", "limit", "breaker"}
       => result[r] = "none"
    /\ at[r] = "sleep" => attempt[r] < MaxAttempts
    /\ at[r] = "flush" => result[r] # "none"
    /\ at[r] \in {"retry", "sleep", "flush"} <=> pc[r] = "running"
    /\ at[r] = "store" => recorded[r] = 1 /\ answer[r] = result[r]
    /\ answer[r] = "401" => ~request[r].key
    /\ answer[r] = "204" => request[r].key /\ request[r].kind = "preflight"
    /\ at[r] = "done" /\ answer[r] \notin {"401", "204"}
       => request[r].key /\ request[r].kind # "preflight"
    /\ at[r] = "done" /\ answer[r] \in Results /\ result[r] # "none"
       => recorded[r] = 1
    /\ at[r] = "done" => recorded[r] \in 0..1
    /\ answer[r] \in Answers \ Results => recorded[r] = 0

ChainInv ==
    /\ ChainTypeOK
    /\ \A r \in Callers : RequestInv(r)
    /\ \A u \in Uris : cache[u] \in {"ok", "none"}

(* Nobody without a key is shown a response of upstream, not even one that *)
(* somebody with a key has brought into the cache; and the cache replays   *)
(* successes only, never an error or a refusal of an inner handler.        *)
EarnedAnswers ==
    /\ \A r \in Callers : answer[r] \in Results => request[r].key
    /\ \A u \in Uris : cache[u] \in {"ok", "none"}

(* A request that reached upstream is one result for the breaker, however  *)
(* often it was retried; a refused or replayed one is none.                *)
OneResultPerRequest ==
    \A r \in Callers :
        /\ recorded[r] <= 1
        /\ answer[r] = result[r] /\ result[r] # "none" => recorded[r] = 1
        /\ answer[r] \in {"401", "204", "429", "open"} => recorded[r] = 0
=============================================================================
