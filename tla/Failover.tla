------------------------------ MODULE Failover ------------------------------
(***************************************************************************)
(* The failover of internal/middleware/failover.go: one request at a time, *)
(* since requests share nothing here.  The next handler forwards it, as    *)
(* net/http's reverse proxy does: the transport closes the request body,   *)
(* whatever becomes of the attempt, and a failure is answered with a 502.  *)
(***************************************************************************)
EXTENDS Naturals

CONSTANT Count \* len(cfg.Backends)

ConfigOK == Count \in Nat

Backends == 1..Count

Unavailable == Count + 1

VARIABLES
    valid,  \* the backends whose URL parses
    next,   \* the backend that the loop is at, Count + 1 after it
    body,   \* r.Body: "none", "unread" or "closed"
    heard,  \* history: heard[b] is what came of backend b, see Outcomes
    answer  \* what the client is sent: 0 before, the response of a backend,
            \* or Unavailable, the 502 after the loop

vars == <<valid, next, body, heard, answer>>

(* A retryable status, or an error that the next handler answers with one; *)
(* a status that is not retryable; and an error before anything was sent.  *)
Outcomes == {"retryable", "usable", "unsent"}

TypeOK ==
    /\ valid \subseteq Backends
    /\ next \in 1..Count + 1
    /\ body \in {"none", "unread", "closed"}
    /\ heard \in [Backends -> Outcomes \union {"none", "skipped"}]
    /\ answer \in 0..Unavailable

Start ==
    /\ next' = 1
    /\ body' \in {"none", "unread"}
    /\ heard' = [b \in Backends |-> "none"]
    /\ answer' = 0

Init ==
    /\ valid \in SUBSET Backends
    /\ next = 1
    /\ body \in {"none", "unread"}
    /\ heard = [b \in Backends |-> "none"]
    /\ answer = 0

-----------------------------------------------------------------------------
At(b) == answer = 0 /\ next = b

(* url.Parse fails: continue. *)
Skip(b) ==
    /\ At(b)
    /\ b \notin valid
    /\ heard' = [heard EXCEPT ![b] = "skipped"]
    /\ next' = b + 1
    /\ UNCHANGED <<valid, body, answer>>

(* A body that is closed cannot be sent, any other request can: then the   *)
(* backend, or its absence, decides.                                       *)
Possible == IF body = "closed" THEN {"unsent"} ELSE {"retryable", "usable"}

(* Mutant of Try: the last backend's response is sent whatever it is. *)
TryLast(b, outcome) ==
    /\ At(b)
    /\ b \in valid
    /\ outcome \in Possible
    /\ heard' = [heard EXCEPT ![b] = outcome]
    /\ body' = IF body = "none" THEN "none" ELSE "closed"
    /\ next' = b + 1
    /\ answer' = IF outcome = "retryable" /\ b < Count THEN answer ELSE b
    /\ UNCHANGED valid

(* The next handler is called with a clone of r, which has the same body;  *)
(* the response it leaves in the recorder is flushed unless retryable.     *)
Try(b, outcome) ==
    /\ At(b)
    /\ b \in valid
    /\ outcome \in Possible
    /\ heard' = [heard EXCEPT ![b] = outcome]
    /\ body' = IF body = "none" THEN "none" ELSE "closed"
    /\ next' = b + 1
    /\ answer' = IF outcome = "usable" THEN b ELSE answer
    /\ UNCHANGED valid

(* The loop has ended without an answer. *)
Exhausted ==
    /\ At(Count + 1)
    /\ answer' = Unavailable
    /\ UNCHANGED <<valid, next, body, heard>>

(* Another request. *)
Again ==
    /\ answer # 0
    /\ Start
    /\ UNCHANGED valid

Next ==
    \/ \E b \in Backends : Skip(b) \/ \E o \in Outcomes : Try(b, o)
    \/ Exhausted
    \/ Again

Spec == Init /\ [][Next]_vars

-----------------------------------------------------------------------------
(* The response that is sent is usable, and no backend before its own gave *)
(* one; a 502 means that none did, and without a body, that every one with *)
(* a URL was asked.                                                        *)
FirstUsableWins ==
    /\ answer \in Backends => heard[answer] = "usable"
    /\ \A b \in Backends :
          b < answer => heard[b] \in {"skipped", "retryable", "unsent"}
    /\ answer = Unavailable /\ body = "none"
       => \A b \in valid : heard[b] = "retryable"

(* failover.go:76: "all backends unavailable".  A request with a body says *)
(* so although only the first backend was asked.                           *)
ExhaustedMeansUnavailable ==
    answer = Unavailable => \A b \in valid : heard[b] = "retryable"
=============================================================================
