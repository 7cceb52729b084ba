-------------------------------- MODULE Proxy --------------------------------
(***************************************************************************)
(* The forwarding handler of internal/proxy: ServeHTTP's retry loop around *)
(* the circuit breaker that all requests share.  The goroutine that serves *)
(* a connection is a caller of the breaker and handles one request after   *)
(* another; client, upstream and clock are the environment.                *)
(***************************************************************************)
EXTENDS CircuitBreaker, Sequences

CONSTANTS
    MaxRetries, \* cfg.MaxRetries
    RetryDelay  \* cfg.RetryDelay, in ticks

ASSUME RetryAssumption ==
    /\ MaxRetries \in Nat
    /\ RetryDelay \in Nat

VARIABLES
    at,      \* at[r]: "idle" (no request), "trying" or "sleeping"
    attempt, \* attempt[r]: the loop variable
    timer,   \* timer[r]: what is left of time.Sleep(RetryDelay)
    body,    \* body[r]: the request body, "none", "unread" or "spent"
    answers  \* answers[r]: the statuses written for the current request

loopVars == <<at, attempt, timer, body, answers>>
proxyVars == <<vars, loopVars>>

(* 2xx and 3xx/4xx are relayed from upstream, 502 and 503 are ServeHTTP's. *)
Statuses == {"2xx", "4xx", "502", "503"}

PTypeOK ==
    /\ TypeOK
    /\ at \in [Callers -> {"idle", "trying", "sleeping"}]
    /\ attempt \in [Callers -> 0..MaxRetries]
    /\ timer \in [Callers -> 0..RetryDelay]
    /\ body \in [Callers -> {"none", "unread", "spent"}]
    /\ answers \in [Callers -> Seq(Statuses)]

PInit ==
    /\ Init
    /\ at = [r \in Callers |-> "idle"]
    /\ attempt = [r \in Callers |-> 0]
    /\ timer = [r \in Callers |-> 0]
    /\ body = [r \in Callers |-> "none"]
    /\ answers = [r \in Callers |-> <<>>]

-----------------------------------------------------------------------------
(* net/http hands ServeHTTP a request, with or without a body. *)
Arrive(r) ==
    /\ at[r] = "idle"
    /\ at' = [at EXCEPT ![r] = "trying"]
    /\ attempt' = [attempt EXCEPT ![r] = 0]
    /\ \E b \in {"none", "unread"} : body' = [body EXCEPT ![r] = b]
    /\ answers' = [answers EXCEPT ![r] = <<>>]
    /\ UNCHANGED <<vars, timer>>

Answer(r, status) ==
    /\ answers' = [answers EXCEPT ![r] = Append(@, status)]
    /\ at' = [at EXCEPT ![r] = "idle"]

(* cb.Execute lets the attempt through: forward runs without the mutex. *)
StartForward(r) ==
    /\ at[r] = "trying"
    /\ Admit(r)
    /\ UNCHANGED loopVars

(* Mutant of CircuitOpen: no return after the 503. *)
CircuitOpenFallsThrough(r) ==
    /\ at[r] = "trying"
    /\ Refuse(r)
    /\ answers' = [answers EXCEPT ![r] = Append(@, "503")]
    /\ at' = [at EXCEPT ![r] = IF attempt[r] < MaxRetries THEN "trying" ELSE "idle"]
    /\ attempt' = [attempt EXCEPT ![r] = IF @ < MaxRetries THEN @ + 1 ELSE @]
    /\ UNCHANGED <<timer, body>>

(* ErrCircuitOpen is answered at once, with no further attempt. *)
CircuitOpen(r) ==
    /\ at[r] = "trying"
    /\ Refuse(r)
    /\ Answer(r, "503")
    /\ UNCHANGED <<attempt, timer, body>>

(* buildRequest passes r.Body on, and client.Do closes it.  A later        *)
(* attempt finds a closed body and cannot be sent.                         *)
Spend(b) == IF b = "unread" THEN "spent" ELSE b

(* forward returns nil for every status below 500. *)
ForwardOK(r) ==
    /\ body[r] # "spent"
    /\ Succeed(r)
    /\ \E status \in {"2xx", "4xx"} : Answer(r, status)
    /\ body' = [body EXCEPT ![r] = Spend(@)]
    /\ UNCHANGED <<attempt, timer>>

(* Mutant of RetryLater: the attempts are not counted. *)
RetryForEver(r) ==
    /\ Fail(r)
    /\ at' = [at EXCEPT ![r] = "sleeping"]
    /\ timer' = [timer EXCEPT ![r] = RetryDelay]
    /\ body' = [body EXCEPT ![r] = Spend(@)]
    /\ UNCHANGED <<attempt, answers>>

(* forward returns an error: no response within cfg.RequestTimeout, a      *)
(* client that went away, a spent body, or a status of 500 and above.      *)
RetryLater(r) ==
    /\ attempt[r] < MaxRetries
    /\ Fail(r)
    /\ attempt' = [attempt EXCEPT ![r] = @ + 1]
    /\ at' = [at EXCEPT ![r] = "sleeping"]
    /\ timer' = [timer EXCEPT ![r] = RetryDelay]
    /\ body' = [body EXCEPT ![r] = Spend(@)]
    /\ UNCHANGED answers

GiveUp(r) ==
    /\ attempt[r] = MaxRetries
    /\ Fail(r)
    /\ Answer(r, "502")
    /\ body' = [body EXCEPT ![r] = Spend(@)]
    /\ UNCHANGED <<attempt, timer>>

Wake(r) ==
    /\ at[r] = "sleeping"
    /\ timer[r] = 0
    /\ at' = [at EXCEPT ![r] = "trying"]
    /\ UNCHANGED <<vars, attempt, timer, body, answers>>

(* One clock for the breaker and for the sleeping requests. *)
Pass ==
    /\ age < Timeout \/ \E r \in Callers : timer[r] > 0
    /\ age' = AtMost(age + 1, Timeout)
    /\ timer' = [r \in Callers |-> IF timer[r] > 0 THEN timer[r] - 1 ELSE 0]
    /\ UNCHANGED <<state, failureCount, successCount, pc>>
    /\ UNCHANGED <<at, attempt, body, answers>>

(* What the goroutine of r does on its own or when upstream lets it go on. *)
Progress(r) ==
    \/ StartForward(r)
    \/ CircuitOpen(r)
    \/ ForwardOK(r)
    \/ RetryLater(r)
    \/ GiveUp(r)
    \/ Wake(r)

PNext ==
    \/ Pass
    \/ \E r \in Callers : Arrive(r) \/ Progress(r)

PSpec == PInit /\ [][PNext]_proxyVars

(* The clock runs, goroutines are scheduled, and client.Do ends because    *)
(* the client of New has a timeout.  Requests need not arrive.             *)
PFairness ==
    /\ WF_proxyVars(Pass)
    /\ \A r \in Callers : WF_proxyVars(Progress(r))

-----------------------------------------------------------------------------
(* ServeHTTP writes exactly one response per request, and 502 means that   *)
(* the last allowed attempt failed: an early return never falls through to *)
(* the error after the loop, and no attempt runs after an answer.          *)
AnsweredOnce ==
    \A r \in Callers :
        /\ Len(answers[r]) <= 1
        /\ at[r] # "idle" => answers[r] = <<>>
        /\ at[r] = "idle" => pc[r] = "idle"
        /\ answers[r] = <<"502">> => attempt[r] = MaxRetries

(* Every request is answered, whatever upstream and the breaker do. *)
EveryRequestAnswered ==
    \A r \in Callers : at[r] # "idle" ~> at[r] = "idle"

(* When upstream stops failing and requests keep coming, the breaker ends  *)
(* up closed: retries left over from the bad times cannot keep it open.    *)
HealthyUpstreamCloses ==
    (/\ <>[][\A r \in Callers : ~Fail(r)]_proxyVars
     /\ []<><<\E r \in Callers : Arrive(r)>>_proxyVars)
    => <>[](state = "closed")
=============================================================================
