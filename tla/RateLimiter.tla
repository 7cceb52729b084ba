----------------------------- MODULE RateLimiter -----------------------------
(***************************************************************************)
(* The token buckets of internal/ratelimiter/ratelimiter.go.  Allow takes  *)
(* two mutexes one after the other: r.mu to find or create the bucket of   *)
(* the key, then the bucket's own to refill it and take a token.  Between  *)
(* the two, other goroutines use the same bucket and time passes.          *)
(*                                                                         *)
(* The float64 tokens are counted in sub-tokens, Unit to a token, of which *)
(* RequestsPerSecond brings Rate per tick: exact arithmetic in place of    *)
(* the rounded one.                                                        *)
(***************************************************************************)
EXTENDS Integers

CONSTANTS
    Requests, \* the goroutines that call Allow
    Keys,     \* client keys, as clientKey returns them
    Burst,    \* cfg.Burst, in tokens
    Rate,     \* cfg.RequestsPerSecond, in sub-tokens per tick
    Unit,     \* sub-tokens per token
    MaxTime   \* bound on the clock

ASSUME RateAssumption ==
    /\ Burst \in Nat
    /\ Rate \in Nat
    /\ Unit \in Nat \ {0}
    /\ MaxTime \in Nat

VARIABLES
    clock,     \* time.Now()
    buckets,   \* the keys that have a bucket in r.buckets
    tokens,    \* tokens[k]: b.tokens, in sub-tokens
    lastRefil, \* lastRefil[k]: b.lastRefil
    looking    \* looking[r]: {}, or {k} between the two critical sections

vars == <<clock, buckets, tokens, lastRefil, looking>>

Full == Burst * Unit

TypeOK ==
    /\ clock \in 0..MaxTime
    /\ buckets \subseteq Keys
    /\ tokens \in [Keys -> 0..Full]
    /\ lastRefil \in [Keys -> 0..MaxTime]
    /\ looking \in [Requests -> {{}} \union {{k} : k \in Keys}]

(* tokens and lastRefil mean nothing for a key that has no bucket. *)
Init ==
    /\ clock = 0
    /\ buckets = {}
    /\ tokens = [k \in Keys |-> 0]
    /\ lastRefil = [k \in Keys |-> 0]
    /\ looking = [r \in Requests |-> {}]

-----------------------------------------------------------------------------
(* Allow, with r.mu held: a known key keeps its bucket ... *)
Find(r, k) ==
    /\ looking[r] = {}
    /\ k \in buckets
    /\ looking' = [looking EXCEPT ![r] = {k}]
    /\ UNCHANGED <<clock, buckets, tokens, lastRefil>>

(* Mutant of Create: the bucket is made without looking for one again. *)
CreateOver(r, k) ==
    /\ looking[r] = {}
    /\ looking' = [looking EXCEPT ![r] = {k}]
    /\ buckets' = buckets \union {k}
    /\ tokens' = [tokens EXCEPT ![k] = Full]
    /\ lastRefil' = [lastRefil EXCEPT ![k] = clock]
    /\ UNCHANGED clock

(* ... and a new one gets a full bucket. *)
Create(r, k) ==
    /\ looking[r] = {}
    /\ k \notin buckets
    /\ looking' = [looking EXCEPT ![r] = {k}]
    /\ buckets' = buckets \union {k}
    /\ tokens' = [tokens EXCEPT ![k] = Full]
    /\ lastRefil' = [lastRefil EXCEPT ![k] = clock]
    /\ UNCHANGED clock

(* Mutant of Refilled: no cap. *)
RefilledUncapped(k) == tokens[k] + (clock - lastRefil[k]) * Rate

(* The tokens that elapsed time has brought, capped at the burst. *)
Refilled(k) ==
    LET sum == tokens[k] + (clock - lastRefil[k]) * Rate
    IN  IF sum > Full THEN Full ELSE sum

(* Allow, with b.mu held, on bucket k: time.Now() is read here, so refills *)
(* of one bucket happen in the order of their times.                       *)
Refill(r, k) ==
    /\ k \in looking[r]
    /\ looking' = [looking EXCEPT ![r] = {}]
    /\ lastRefil' = [lastRefil EXCEPT ![k] = clock]
    /\ UNCHANGED <<clock, buckets>>

Grant(r, k) ==
    /\ Refill(r, k)
    /\ Refilled(k) >= Unit
    /\ tokens' = [tokens EXCEPT ![k] = Refilled(k) - Unit]

(* Mutant of Deny: the refill is lost, its time is kept. *)
DenyForgetting(r, k) ==
    /\ Refill(r, k)
    /\ Refilled(k) < Unit
    /\ UNCHANGED tokens

Deny(r, k) ==
    /\ Refill(r, k)
    /\ Refilled(k) < Unit
    /\ tokens' = [tokens EXCEPT ![k] = Refilled(k)]

Tick ==
    /\ clock < MaxTime
    /\ clock' = clock + 1
    /\ UNCHANGED <<buckets, tokens, lastRefil, looking>>

Next ==
    \/ Tick
    \/ \E r \in Requests, k \in Keys :
          \/ Find(r, k)
          \/ Create(r, k)
          \/ Grant(r, k)
          \/ Deny(r, k)

Spec == Init /\ [][Next]_vars
=============================================================================
