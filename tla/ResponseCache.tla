---------------------------- MODULE ResponseCache ----------------------------
(***************************************************************************)
(* The GET cache of internal/middleware/cache.go.  get and set are one     *)
(* critical section each; between them the handler fetches the response    *)
(* with the mutex free, so fills of one key overlap and a slow one stores  *)
(* an old response over a new one.  Upstream is the environment: it        *)
(* publishes new versions of a resource and may fail.                      *)
(*                                                                         *)
(* Of a response only its staleness matters: 0 while upstream still has    *)
(* that version, and n + 1 when it replaced it n ticks ago.                *)
(***************************************************************************)
EXTENDS Naturals, FiniteSets

CONSTANTS
    Requests,   \* the goroutines that serve GET requests
    Keys,       \* request URIs
    MaxEntries, \* cfg.MaxEntries
    TTL,        \* cfg.TTL, in ticks
    MaxFetch    \* bound, in ticks, on a fetch: upstream's own timeouts

ConfigOK ==
    /\ MaxEntries \in Nat
    /\ TTL \in Nat
    /\ MaxFetch \in Nat

VARIABLES
    entries, \* c.entries, a function on the keys it holds: the entry's age,
             \* since set, and its staleness
    fetches  \* a function on the requests inside the handler: the key, the
             \* time spent, and whether a response has been read, how stale

vars == <<entries, fetches>>

Horizon == TTL + MaxFetch + 2

Entry == [age : 0..TTL + 1, stale : 0..Horizon]
Fetch == [key : Keys, time : 0..MaxFetch, read : BOOLEAN, stale : 0..Horizon]

(* The map holds at most MaxEntries responses, or one when that is zero.   *)
TypeOK ==
    /\ DOMAIN entries \subseteq Keys
    /\ Cardinality(DOMAIN entries) <= IF MaxEntries = 0 THEN 1 ELSE MaxEntries
    /\ \A k \in DOMAIN entries : entries[k] \in Entry
    /\ DOMAIN fetches \subseteq Requests
    /\ \A r \in DOMAIN fetches : fetches[r] \in Fetch

Init ==
    /\ entries = [k \in {} |-> TRUE]
    /\ fetches = [r \in {} |-> TRUE]

Only(f, S) == [x \in S |-> f[x]]

With(f, x, y) == [z \in DOMAIN f \union {x} |-> IF z = x THEN y ELSE f[z]]

-----------------------------------------------------------------------------
(* get: an entry is good up to and including its expiry. *)
Usable(k) == k \in DOMAIN entries /\ entries[k].age <= TTL

(* Mutant of Hit: using an entry renews it. *)
HitRenewing(r, k) ==
    /\ r \notin DOMAIN fetches
    /\ Usable(k)
    /\ entries' = [entries EXCEPT ![k].age = 0]
    /\ UNCHANGED fetches

(* A hit: the response is sent from memory. *)
Hit(r, k) ==
    /\ r \notin DOMAIN fetches
    /\ Usable(k)
    /\ UNCHANGED vars

(* get deletes an entry that has expired, and the handler is called. *)
Miss(r, k) ==
    /\ r \notin DOMAIN fetches
    /\ ~Usable(k)
    /\ entries' = Only(entries, DOMAIN entries \ {k})
    /\ fetches' = With(fetches, r, [key |-> k, time |-> 0, read |-> FALSE, stale |-> 0])

(* Upstream answers with the current version of the resource. *)
Read(r) ==
    /\ r \in DOMAIN fetches
    /\ ~fetches[r].read
    /\ fetches' = [fetches EXCEPT ![r].read = TRUE]
    /\ UNCHANGED entries

EndFetch(r) == fetches' = Only(fetches, DOMAIN fetches \ {r})

(* The handler returns a status other than 200, or panics: no entry. *)
NotCached(r) ==
    /\ r \in DOMAIN fetches
    /\ EndFetch(r)
    /\ UNCHANGED entries

(* set: a full map loses an arbitrary entry first, even when the key that  *)
(* is set is already in it.                                                *)
Kept ==
    IF Cardinality(DOMAIN entries) >= MaxEntries /\ DOMAIN entries # {}
       THEN {DOMAIN entries \ {v} : v \in DOMAIN entries}
       ELSE {DOMAIN entries}

Store(r) ==
    /\ r \in DOMAIN fetches
    /\ fetches[r].read
    /\ \E kept \in Kept :
          entries' = With(Only(entries, kept), fetches[r].key,
                          [age |-> 0, stale |-> fetches[r].stale])
    /\ EndFetch(r)

(* Upstream replaces the resource: copies of it are stale from now on. *)
Publish(k) ==
    /\ entries' = [q \in DOMAIN entries |->
                     IF q = k /\ entries[q].stale = 0
                        THEN [entries[q] EXCEPT !.stale = 1] ELSE entries[q]]
    /\ fetches' = [r \in DOMAIN fetches |->
                     IF fetches[r].key = k /\ fetches[r].read /\ fetches[r].stale = 0
                        THEN [fetches[r] EXCEPT !.stale = 1] ELSE fetches[r]]

Older(n) == IF n > 0 /\ n < Horizon THEN n + 1 ELSE n

Tick ==
    /\ \A r \in DOMAIN fetches : fetches[r].time < MaxFetch
    /\ entries' = [k \in DOMAIN entries |->
                     [age |-> IF Usable(k) THEN entries[k].age + 1 ELSE TTL + 1,
                      stale |-> Older(entries[k].stale)]]
    /\ fetches' = [r \in DOMAIN fetches |->
                     [fetches[r] EXCEPT !.time = @ + 1, !.stale = Older(@)]]

Next ==
    \/ \E r \in Requests, k \in Keys : Hit(r, k) \/ Miss(r, k)
    \/ \E r \in Requests : Read(r) \/ NotCached(r) \/ Store(r)
    \/ \E k \in Keys : Publish(k)
    \/ Tick

Spec == Init /\ [][Next]_vars

-----------------------------------------------------------------------------
(* The cache never serves a version that upstream replaced longer ago than *)
(* the TTL plus the time the fetch that stored it may have taken: a slow   *)
(* fill may store an old response over a new one, but no replay starts the *)
(* TTL of an old response again.                                           *)
StalenessBound ==
    \A k \in Keys : Usable(k) => entries[k].stale <= TTL + MaxFetch + 1
=============================================================================
