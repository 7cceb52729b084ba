-------------------------------- MODULE Dedupe --------------------------------
(***************************************************************************)
(* The request deduplication of internal/middleware/dedupe.go: a map of    *)
(* remembered responses, looked up under d.mu before the handler runs and  *)
(* written under d.mu after it returned, with the mutex free in between.   *)
(* Requests of methods that are not deduplicated do not reach this map.    *)
(***************************************************************************)
EXTENDS Naturals, FiniteSets

CONSTANTS
    Requests,     \* the goroutines that serve requests
    Fingerprints, \* method, URL and Idempotency-Key, hashed
    TTL           \* cfg.TTL, in ticks

ConfigOK == TTL \in Nat

VARIABLES
    seen,     \* the fingerprints in d.seen; entries are never removed
    left,     \* left[k]: ticks until d.seen[k].expiry, 0 when it has come
    handling, \* handling[r]: {}, or {k} while next.ServeHTTP serves r
    fresh     \* history: fresh[k], ticks left of the TTL that began when a
              \* response for k was completed last, 0 if that is over

vars == <<seen, left, handling, fresh>>

TypeOK ==
    /\ seen \subseteq Fingerprints
    /\ left \in [Fingerprints -> 0..TTL]
    /\ handling \in [Requests -> {{}} \union {{k} : k \in Fingerprints}]
    /\ fresh \in [Fingerprints -> 0..TTL]

Init ==
    /\ seen = {}
    /\ left = [k \in Fingerprints |-> 0]
    /\ handling = [r \in Requests |-> {}]
    /\ fresh = [k \in Fingerprints |-> 0]

-----------------------------------------------------------------------------
(* entry, exists := d.seen[key]; exists && time.Now().Before(entry.expiry) *)
Remembered(k) == k \in seen /\ left[k] > 0

(* The remembered response is sent again. *)
Replay(r, k) ==
    /\ handling[r] = {}
    /\ Remembered(k)
    /\ UNCHANGED vars

(* The request goes to the handler, with d.mu released. *)
Forward(r, k) ==
    /\ handling[r] = {}
    /\ ~Remembered(k)
    /\ handling' = [handling EXCEPT ![r] = {k}]
    /\ UNCHANGED <<seen, left, fresh>>

(* Mutants of Complete: an old entry stays; the expiry is one tick late.   *)
CompleteOnce(r, k) ==
    /\ k \in handling[r]
    /\ handling' = [handling EXCEPT ![r] = {}]
    /\ seen' = seen \union {k}
    /\ left' = IF k \in seen THEN left ELSE [left EXCEPT ![k] = TTL]
    /\ fresh' = [fresh EXCEPT ![k] = TTL]

CompleteLate(r, k) ==
    /\ k \in handling[r]
    /\ handling' = [handling EXCEPT ![r] = {}]
    /\ seen' = seen \union {k}
    /\ left' = [left EXCEPT ![k] = TTL + 1]
    /\ fresh' = [fresh EXCEPT ![k] = TTL]

(* The handler returns, with any status, and the response is remembered    *)
(* from now on, in place of the one a concurrent duplicate may have left.  *)
Complete(r, k) ==
    /\ k \in handling[r]
    /\ handling' = [handling EXCEPT ![r] = {}]
    /\ seen' = seen \union {k}
    /\ left' = [left EXCEPT ![k] = TTL]
    /\ fresh' = [fresh EXCEPT ![k] = TTL]

(* The handler panics: nothing is remembered. *)
Panic(r, k) ==
    /\ k \in handling[r]
    /\ handling' = [handling EXCEPT ![r] = {}]
    /\ UNCHANGED <<seen, left, fresh>>

Elapse(timers) == [k \in Fingerprints |-> IF timers[k] > 0 THEN timers[k] - 1 ELSE 0]

Running == \E k \in Fingerprints : left[k] > 0 \/ fresh[k] > 0

Tick ==
    /\ left' = Elapse(left)
    /\ fresh' = Elapse(fresh)
    /\ UNCHANGED <<seen, handling>>

Step ==
    \E r \in Requests, k \in Fingerprints :
        \/ Replay(r, k)
        \/ Forward(r, k)
        \/ Complete(r, k)
        \/ Panic(r, k)

Next == Step \/ (Running /\ Tick)

Spec == Init /\ [][Next]_vars

-----------------------------------------------------------------------------
(* No request reaches the handler within the TTL after the response of an  *)
(* equal one was completed: duplicates that reach it overlap in time.      *)
NoLateDuplicate ==
    [][\A r \in Requests, k \in Fingerprints :
         Forward(r, k) => fresh[k] = 0]_vars

(* dedupe.go:41-42: the middleware "short-circuits duplicate in-flight     *)
(* requests within the configured TTL window".  A duplicate that arrives   *)
(* while the first is in flight finds nothing and is forwarded.            *)
NoDuplicateInFlight ==
    \A k \in Fingerprints :
        Cardinality({r \in Requests : k \in handling[r]}) <= 1
=============================================================================
