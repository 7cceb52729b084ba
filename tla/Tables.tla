-------------------------------- MODULE Tables --------------------------------
(***************************************************************************)
(* The components whose state is a table or a few counters under a mutex,  *)
(* and the two that keep a small state for one request: their constants    *)
(* and variables side by side, and what each of them promises.  They share *)
(* nothing but the goroutines that call them.                              *)
(***************************************************************************)
EXTENDS RateLimiterHistory

CONSTANTS
    Uris, MaxEntries, CacheTTL, MaxFetch, \* the cache
    Fingerprints, DedupeTTL,              \* the deduplication
    WindowSize, Threshold, Gap,           \* the breach log
    MaxRequests,                          \* the metrics
    Targets, Size, MaxCalls,              \* the balancer
    MinLength, MaxLength,                 \* the compression
    Count                                 \* the failover

VARIABLES
    entries, fetches,
    seen, left, handling, fresh,
    codes, pos, full, since, warning, recent, own,
    total, errors, spent, counts, step, result, scrape, shown,
    counter, wraps, sentTo,
    length, copied, pc, status, buf, committed, head, sent,
    valid, next, body, heard, answer

cacheVars == <<entries, fetches>>
dedupeVars == <<seen, left, handling, fresh>>
breachVars == <<codes, pos, full, since, warning, recent, own>>
metricsVars == <<total, errors, spent, counts, step, result, scrape, shown>>
balancerVars == <<counter, wraps, sentTo>>
compressVars == <<length, copied, pc, status, buf, committed, head, sent>>
failoverVars == <<valid, next, body, heard, answer>>

Cache == INSTANCE ResponseCache WITH Keys <- Uris, TTL <- CacheTTL
Dedupe == INSTANCE Dedupe WITH TTL <- DedupeTTL
Breach == INSTANCE BreachLog
Metrics == INSTANCE Metrics
Balancer == INSTANCE Balancer WITH sent <- sentTo
Compress == INSTANCE Compress
Failover == INSTANCE Failover

ASSUME TablesAssumption ==
    /\ Cache!ConfigOK
    /\ Dedupe!ConfigOK
    /\ Breach!ConfigOK
    /\ Metrics!ConfigOK
    /\ Balancer!ConfigOK
    /\ Compress!ConfigOK
    /\ Failover!ConfigOK

-----------------------------------------------------------------------------
(* The type invariants (RateLimiter's is in WindowInv). *)
TableTypes ==
    /\ Cache!TypeOK
    /\ Dedupe!TypeOK
    /\ Breach!TypeOK
    /\ Metrics!TypeOK
    /\ Balancer!TypeOK
    /\ Compress!TypeOK
    /\ Failover!TypeOK

(* ResponseCache: how old a served response can be. *)
StalenessBound == Cache!StalenessBound

(* Dedupe: no duplicate reaches the handler late. *)
NoLateDuplicate == Dedupe!NoLateDuplicate

(* BreachLog: warnings speak of the last results, ... *)
RingIsRecent == Breach!RingIsRecent

(* ... and no goroutine repeats its own within Gap. *)
OneWarningEach == Breach!OneWarningEach

(* Metrics: the counters agree. *)
CountersAgree == Metrics!CountersAgree

(* Balancer: the round robin is even. *)
Even == Balancer!Even

(* Compress: what is written is delivered, compressed if long enough. *)
DeliversWritten == Compress!DeliversWritten

(* Failover: the first usable response is the one sent. *)
FirstUsableWins == Failover!FirstUsableWins
=============================================================================
