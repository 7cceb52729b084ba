------------------------------- MODULE Metrics -------------------------------
(***************************************************************************)
(* The counters of internal/middleware/metrics.go.  record updates them    *)
(* one after the other, each atomically, with nothing around the four; the *)
(* snapshot reads three of them one after the other, under the read lock   *)
(* of m.mu, which keeps out only the update of StatusCounts.               *)
(***************************************************************************)
EXTENDS Naturals, FiniteSets

CONSTANTS
    Requests,   \* the goroutines that serve requests
    MaxRequests \* bound on the requests recorded

ConfigOK == IsFiniteSet(Requests) /\ MaxRequests \in Nat

Statuses == {"ok", "error"} \* below 500, 500 and above

VARIABLES
    total,    \* TotalRequests
    errors,   \* TotalErrors
    spent,    \* TotalDuration, each request taking one unit
    counts,   \* StatusCounts
    step,     \* step[r]: what record does next for r's request
    result,   \* result[r]: the status it records
    scrape,   \* the snapshot: "idle", or what it loads next, holding m.mu
    shown     \* what the snapshot has loaded: total and errors

vars == <<total, errors, spent, counts, step, result, scrape, shown>>

TypeOK ==
    /\ {total, errors, spent} \subseteq 0..MaxRequests
    /\ counts \in [Statuses -> 0..MaxRequests]
    /\ step \in [Requests -> {"idle", "duration", "error", "counts"}]
    /\ result \in [Requests -> Statuses]
    /\ scrape \in {"idle", "errors", "duration"}
    /\ shown \in [total : 0..MaxRequests, errors : 0..MaxRequests]

Init ==
    /\ total = 0 /\ errors = 0 /\ spent = 0
    /\ counts = [s \in Statuses |-> 0]
    /\ step = [r \in Requests |-> "idle"]
    /\ result = [r \in Requests |-> "ok"]
    /\ scrape = "idle"
    /\ shown = [total |-> 0, errors |-> 0]

-----------------------------------------------------------------------------
(* The handler has returned: record begins. *)
AddRequest(r, s) ==
    /\ step[r] = "idle"
    /\ total < MaxRequests
    /\ total' = total + 1
    /\ step' = [step EXCEPT ![r] = "duration"]
    /\ result' = [result EXCEPT ![r] = s]
    /\ UNCHANGED <<errors, spent, counts, scrape, shown>>

AddDuration(r) ==
    /\ step[r] = "duration"
    /\ spent' = spent + 1
    /\ step' = [step EXCEPT ![r] = IF result[r] = "error" THEN "error" ELSE "counts"]
    /\ UNCHANGED <<total, errors, counts, result, scrape, shown>>

(* Mutant of AddError: an error is not counted by status. *)
AddErrorOnly(r) ==
    /\ step[r] = "error"
    /\ errors' = errors + 1
    /\ step' = [step EXCEPT ![r] = "idle"]
    /\ UNCHANGED <<total, spent, counts, result, scrape, shown>>

AddError(r) ==
    /\ step[r] = "error"
    /\ errors' = errors + 1
    /\ step' = [step EXCEPT ![r] = "counts"]
    /\ UNCHANGED <<total, spent, counts, result, scrape, shown>>

AddStatus(r) ==
    /\ step[r] = "counts"
    /\ scrape = "idle"
    /\ counts' = [counts EXCEPT ![result[r]] = @ + 1]
    /\ step' = [step EXCEPT ![r] = "idle"]
    /\ UNCHANGED <<total, errors, spent, result, scrape, shown>>

(* ServeHTTP: the read lock is taken, and the counters are loaded in turn. *)
LoadTotal ==
    /\ scrape = "idle"
    /\ scrape' = "errors"
    /\ shown' = [shown EXCEPT !.total = total]
    /\ UNCHANGED <<total, errors, spent, counts, step, result>>

LoadErrors ==
    /\ scrape = "errors"
    /\ scrape' = "duration"
    /\ shown' = [shown EXCEPT !.errors = errors]
    /\ UNCHANGED <<total, errors, spent, counts, step, result>>

(* TotalDuration is loaded and the answer is written. *)
Show ==
    /\ scrape = "duration"
    /\ scrape' = "idle"
    /\ UNCHANGED <<total, errors, spent, counts, step, result, shown>>

Next ==
    \/ \E r \in Requests, s \in Statuses : AddRequest(r, s)
    \/ \E r \in Requests : AddDuration(r) \/ AddError(r) \/ AddStatus(r)
    \/ LoadTotal \/ LoadErrors \/ Show

Spec == Init /\ [][Next]_vars

-----------------------------------------------------------------------------
At(steps) == Cardinality({r \in Requests : step[r] \in steps})

Failing(steps) ==
    Cardinality({r \in Requests : step[r] \in steps /\ result[r] = "error"})

(* The counters agree up to the requests that record is working on, and    *)
(* exactly when there are none.                                            *)
CountersAgree ==
    /\ total = counts["ok"] + counts["error"] + At({"duration", "error", "counts"})
    /\ total = spent + At({"duration"})
    /\ errors = counts["error"] + Failing({"counts"})
=============================================================================
