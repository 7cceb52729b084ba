---------------------------- MODULE TablesProofs ----------------------------
(***************************************************************************)
(* What the rate limiter and the other components of Tables promise, for   *)
(* every value of their constants that their configuration admits.         *)
(***************************************************************************)
EXTENDS Tables, FiniteSetTheorems, SequenceTheorems, TLAPS

(* RateLimiter: the bound, for every burst, rate, number of keys and       *)
(* number of overlapping requests.                                         *)
LEMMA FullIsNat == Full \in Nat
    BY RateAssumption DEF Full

(* What time brings in a whole is what it brings in two parts. *)
LEMMA RateSplits ==
    ASSUME NEW a \in Nat, NEW b \in Nat, NEW c \in Nat
    PROVE  (c - b) * Rate + Rate * (b - a) = Rate * (c - a)
    BY RateAssumption

LEMMA RateIsMonotone ==
    ASSUME NEW n \in Nat
    PROVE  n * Rate \in Nat /\ Rate * n \in Nat
    BY RateAssumption

(* A refill neither destroys tokens nor exceeds the burst, and brings no   *)
(* more than the time since the last one allows.                           *)
LEMMA RefilledFacts ==
    ASSUME TypeOK, NEW k \in Keys, lastRefil[k] <= clock
    PROVE  /\ Refilled(k) \in 0..Full
           /\ Refilled(k) >= tokens[k]
           /\ Refilled(k) <= tokens[k] + (clock - lastRefil[k]) * Rate
<1> DEFINE brought == (clock - lastRefil[k]) * Rate
<1>1. clock - lastRefil[k] \in Nat
    BY RateAssumption DEF TypeOK
<1>2. brought \in Nat
    BY <1>1, RateIsMonotone
<1>3. tokens[k] \in 0..Full
    BY DEF TypeOK
<1>4. Refilled(k) = IF tokens[k] + brought > Full THEN Full ELSE tokens[k] + brought
    BY DEF Refilled
<1> HIDE DEF brought
<1>5. /\ Refilled(k) \in 0..Full
      /\ Refilled(k) >= tokens[k]
      /\ Refilled(k) <= tokens[k] + brought
    BY <1>2, <1>3, <1>4, FullIsNat
<1>. QED
    BY <1>5 DEF brought

LEMMA InitWindowInv == HInit => WindowInv
<1> SUFFICES ASSUME HInit PROVE WindowInv
    OBVIOUS
<1>1. HTypeOK
    BY RateAssumption, FullIsNat DEF HInit, Init, HTypeOK, TypeOK
<1>2. 0 + Unit * (0 - 0) <= Full + Rate * (0 - 0)
    BY RateAssumption, FullIsNat
<1>. QED
    BY <1>1, <1>2 DEF HInit, Init, WindowInv

(* The part of WindowInv about one key. *)
KeyInv(k) ==
    /\ lastRefil[k] <= clock
    /\ markGranted[k] <= granted[k]
    /\ k \notin buckets \/ lastRefil[k] < markTime
          => granted[k] = markGranted[k]
    /\ lastRefil[k] >= markTime
          => tokens[k] + Unit * (granted[k] - markGranted[k])
                <= Full + Rate * (lastRefil[k] - markTime)

LEMMA WindowInvByKey ==
    WindowInv <=> /\ HTypeOK
                  /\ markTime <= clock
                  /\ \A r \in Requests : looking[r] \subseteq buckets
                  /\ \A k \in Keys : KeyInv(k)
    BY DEF WindowInv, KeyInv

(* A bucket that is only looked up, or belongs to another key, is left     *)
(* alone, and time only makes the clock grow.                              *)
LEMMA KeyInvKept ==
    ASSUME HTypeOK, HTypeOK', NEW k \in Keys, KeyInv(k),
           clock <= clock', markTime' = markTime,
           markGranted'[k] = markGranted[k], granted'[k] = granted[k],
           tokens'[k] = tokens[k], lastRefil'[k] = lastRefil[k],
           k \in buckets => k \in buckets'
    PROVE  KeyInv(k)'
    BY RateAssumption DEF KeyInv, HTypeOK, TypeOK

LEMMA StepHTypeOK == WindowInv /\ [HNext]_allVars => HTypeOK'
<1> SUFFICES ASSUME WindowInv, [HNext]_allVars
             PROVE  HTypeOK'
    OBVIOUS
<1> USE RateAssumption, FullIsNat
<1> USE DEF WindowInv, HTypeOK, TypeOK
<1>1. CASE Mark
    BY <1>1 DEF Mark, vars, fullVars
<1>2. CASE Tick /\ UNCHANGED <<granted, windowVars, fullVars>>
    BY <1>2 DEF Tick, windowVars, fullVars
<1>3. ASSUME NEW r \in Requests, NEW k \in Keys,
             Find(r, k), UNCHANGED <<granted, windowVars, fullVars>>
      PROVE  HTypeOK'
    BY <1>3 DEF Find, windowVars, fullVars
<1>4. ASSUME NEW r \in Requests, NEW k \in Keys, HCreate(r, k)
      PROVE  HTypeOK'
    BY <1>4 DEF HCreate, Create, NoteFull, windowVars
<1>5. ASSUME NEW r \in Requests, NEW k \in Keys, HGrant(r, k)
      PROVE  HTypeOK'
  <2>1. Refilled(k) - Unit \in 0..Full
    BY <1>5, RefilledFacts DEF HGrant, Grant
  <2>. QED
    BY <1>5, <2>1 DEF HGrant, Grant, Refill, NoteFull, windowVars
<1>6. ASSUME NEW r \in Requests, NEW k \in Keys, HDeny(r, k)
      PROVE  HTypeOK'
  <2>1. Refilled(k) \in 0..Full
    BY <1>6, RefilledFacts
  <2>. QED
    BY <1>6, <2>1 DEF HDeny, Deny, Refill, NoteFull, windowVars
<1>7. CASE UNCHANGED allVars
    BY <1>7 DEF allVars, vars, windowVars, fullVars
<1>. QED
    BY <1>1, <1>2, <1>3, <1>4, <1>5, <1>6, <1>7 DEF HNext

(* Granted or refused, the key that is refilled stays within the bound. *)
LEMMA TakeKeepsKeyInv ==
    ASSUME HTypeOK, HTypeOK', NEW k \in buckets, k \in Keys, KeyInv(k),
           markTime <= clock,
           UNCHANGED <<clock, markTime, markGranted, buckets>>,
           lastRefil'[k] = clock,
           NEW n \in {0, 1},
           granted'[k] = granted[k] + n,
           tokens'[k] = Refilled(k) - n * Unit
    PROVE  KeyInv(k)'
<1> USE RateAssumption, FullIsNat
<1> DEFINE g == granted[k] - markGranted[k]
<1>1. /\ g \in Nat
      /\ granted'[k] - markGranted'[k] = g + n
      /\ markGranted'[k] <= granted'[k]
    BY DEF KeyInv, HTypeOK
<1>2. /\ Unit * (g + n) = Unit * g + n * Unit
      /\ Unit * g \in Nat
      /\ n * Unit \in Nat
  <2>1. n * Unit \in Nat
    OBVIOUS
  <2>2. Unit * g \in Nat
    BY <1>1
  <2>3. Unit * (g + n) = Unit * g + n * Unit
    BY <1>1
  <2>. QED
    BY <2>1, <2>2, <2>3
<1>3. /\ Refilled(k) \in 0..Full
      /\ Refilled(k) <= tokens[k] + (clock - lastRefil[k]) * Rate
    BY RefilledFacts DEF HTypeOK, KeyInv
<1>4. tokens'[k] + Unit * (g + n) = Refilled(k) + Unit * g
    BY <1>2, <1>3
<1>5. Refilled(k) + Unit * g <= Full + Rate * (clock - markTime)
  <2>1. CASE lastRefil[k] < markTime
    <3>1. g = 0
      BY <2>1 DEF KeyInv, HTypeOK
    <3>2. Rate * (clock - markTime) \in Nat
      <4>1. clock - markTime \in Nat
        BY DEF HTypeOK, TypeOK
      <4>. QED
        BY <4>1, RateIsMonotone
    <3>3. Unit * g = 0
      BY <3>1
    <3>. QED
      BY <1>3, <3>2, <3>3
  <2>2. CASE lastRefil[k] >= markTime
    <3>1. tokens[k] + Unit * g <= Full + Rate * (lastRefil[k] - markTime)
      BY <2>2 DEF KeyInv
    <3>2. (clock - lastRefil[k]) * Rate + Rate * (lastRefil[k] - markTime)
             = Rate * (clock - markTime)
      BY RateSplits DEF HTypeOK, TypeOK
    <3>3. /\ tokens[k] \in Int
          /\ (clock - lastRefil[k]) * Rate \in Int
          /\ Rate * (lastRefil[k] - markTime) \in Int
          /\ Rate * (clock - markTime) \in Int
      BY DEF HTypeOK, TypeOK
    <3>. QED
      BY <1>2, <1>3, <3>1, <3>2, <3>3
  <2>. QED
    BY <2>1, <2>2 DEF HTypeOK, TypeOK
<1>6. tokens'[k] + Unit * (granted'[k] - markGranted'[k])
         <= Full + Rate * (lastRefil'[k] - markTime')
    BY <1>1, <1>4, <1>5
<1>7. lastRefil'[k] <= clock' /\ ~(lastRefil'[k] < markTime')
    BY DEF HTypeOK, TypeOK
<1>. QED
    BY <1>1, <1>6, <1>7 DEF KeyInv

LEMMA StepWindowInv == WindowInv /\ [HNext]_allVars => WindowInv'
<1> SUFFICES ASSUME WindowInv, [HNext]_allVars
             PROVE  WindowInv'
    OBVIOUS
<1> USE RateAssumption, FullIsNat
<1>1. /\ HTypeOK
      /\ HTypeOK'
      /\ markTime <= clock
      /\ \A r \in Requests : looking[r] \subseteq buckets
      /\ \A k \in Keys : KeyInv(k)
    BY StepHTypeOK, WindowInvByKey
<1>2. ASSUME markTime' <= clock',
             \A r \in Requests : looking'[r] \subseteq buckets',
             \A k \in Keys : KeyInv(k)'
      PROVE  WindowInv'
    BY <1>1, <1>2 DEF WindowInv, KeyInv
<1>3. CASE Mark
  <2>1. markTime' = clock /\ clock' = clock
    BY <1>3 DEF Mark, vars
  <2>2. \A r \in Requests : looking'[r] \subseteq buckets'
    BY <1>1, <1>3 DEF Mark, vars
  <2>3. ASSUME NEW k \in Keys
        PROVE  KeyInv(k)'
    <3> DEFINE before == Rate * (lastRefil'[k] - markTime')
    <3>1. /\ markGranted'[k] = granted'[k]
          /\ granted'[k] \in Nat
          /\ tokens'[k] \in 0..Full
          /\ lastRefil'[k] \in 0..MaxTime
          /\ lastRefil'[k] <= clock'
      BY <1>1, <1>3 DEF Mark, vars, KeyInv, HTypeOK, TypeOK
    <3>2. Unit * (granted'[k] - markGranted'[k]) = 0
      BY <3>1
    <3>3. lastRefil'[k] >= markTime' => before = 0
      <4>1. lastRefil'[k] >= markTime' => lastRefil'[k] - markTime' = 0
        BY <1>1, <2>1, <3>1 DEF HTypeOK, TypeOK
      <4>. QED
        BY <4>1
    <3> HIDE DEF before
    <3>4. lastRefil'[k] >= markTime'
            => tokens'[k] + Unit * (granted'[k] - markGranted'[k]) <= Full + before
      BY <3>1, <3>2, <3>3
    <3>5. ~(markGranted'[k] > granted'[k])
      BY <3>1
    <3>. QED
      BY <3>1, <3>4, <3>5 DEF KeyInv, before
  <2>4. markTime' <= clock'
    BY <1>1, <2>1 DEF HTypeOK, TypeOK
  <2>. QED
    BY <1>2, <2>2, <2>3, <2>4
<1>4. CASE Tick /\ UNCHANGED <<granted, windowVars, fullVars>>
  <2>1. /\ clock' = clock + 1
        /\ UNCHANGED <<buckets, tokens, lastRefil, looking>>
        /\ UNCHANGED <<granted, markTime, markGranted>>
    BY <1>4 DEF Tick, windowVars
  <2>2. markTime' <= clock' /\ clock <= clock'
    BY <1>1, <2>1 DEF HTypeOK, TypeOK
  <2>3. ASSUME NEW k \in Keys
        PROVE  KeyInv(k)'
    BY <1>1, <2>1, <2>2, KeyInvKept
  <2>. QED
    BY <1>1, <1>2, <2>1, <2>2, <2>3
<1>5. ASSUME NEW r \in Requests, NEW q \in Keys,
             Find(r, q), UNCHANGED <<granted, windowVars, fullVars>>
      PROVE  WindowInv'
  <2>1. /\ UNCHANGED <<clock, buckets, tokens, lastRefil>>
        /\ UNCHANGED <<granted, markTime, markGranted>>
        /\ \A p \in Requests : looking'[p] \subseteq buckets'
    BY <1>1, <1>5 DEF Find, windowVars, HTypeOK, TypeOK
  <2>2. clock <= clock'
    BY <1>1, <2>1 DEF HTypeOK, TypeOK
  <2>3. ASSUME NEW k \in Keys
        PROVE  KeyInv(k)'
    BY <1>1, <2>1, <2>2, KeyInvKept
  <2>. QED
    BY <1>1, <1>2, <2>1, <2>2, <2>3
<1>6. ASSUME NEW r \in Requests, NEW q \in Keys, HCreate(r, q)
      PROVE  WindowInv'
  <2>1. /\ UNCHANGED <<clock, granted, markTime, markGranted>>
        /\ \A p \in Requests : looking'[p] \subseteq buckets'
        /\ buckets \subseteq buckets'
        /\ clock <= clock'
    BY <1>1, <1>6 DEF HCreate, Create, windowVars, HTypeOK, TypeOK
  <2>2. ASSUME NEW k \in Keys, k # q
        PROVE  KeyInv(k)'
    <3>1. tokens'[k] = tokens[k] /\ lastRefil'[k] = lastRefil[k]
      BY <1>1, <1>6, <2>2 DEF HCreate, Create, HTypeOK, TypeOK
    <3>. QED
      BY <1>1, <2>1, <3>1, KeyInvKept
  <2>3. KeyInv(q)'
    <3>1. /\ tokens'[q] = Full
          /\ lastRefil'[q] = clock'
          /\ granted'[q] = markGranted'[q]
          /\ granted'[q] \in Nat
      BY <1>1, <1>6, <2>1 DEF HCreate, Create, KeyInv, HTypeOK, TypeOK
    <3>2. Unit * (granted'[q] - markGranted'[q]) = 0
      BY <3>1
    <3>3. Rate * (lastRefil'[q] - markTime') \in Nat
      <4>1. lastRefil'[q] - markTime' \in Nat
        BY <1>1, <2>1, <3>1 DEF HTypeOK, TypeOK
      <4>. QED
        BY <4>1, RateIsMonotone
    <3>. QED
      BY <1>1, <2>1, <3>1, <3>2, <3>3 DEF KeyInv, HTypeOK, TypeOK
  <2>. QED
    BY <1>1, <1>2, <2>1, <2>2, <2>3
<1>7. ASSUME NEW r \in Requests, NEW q \in Keys,
             Refill(r, q),
             UNCHANGED windowVars,
             NEW n \in {0, 1},
             granted' = [granted EXCEPT ![q] = @ + n],
             tokens' = [tokens EXCEPT ![q] = Refilled(q) - n * Unit]
      PROVE  WindowInv'
  <2>1. /\ UNCHANGED <<clock, buckets, markTime, markGranted>>
        /\ q \in buckets
        /\ clock <= clock'
    BY <1>1, <1>7 DEF Refill, windowVars, HTypeOK, TypeOK
  <2>2. \A p \in Requests : looking'[p] \subseteq buckets'
    BY <1>1, <1>7, <2>1 DEF Refill, HTypeOK, TypeOK
  <2>3. ASSUME NEW k \in Keys, k # q
        PROVE  KeyInv(k)'
    <3>1. /\ tokens'[k] = tokens[k]
          /\ lastRefil'[k] = lastRefil[k]
          /\ granted'[k] = granted[k]
      BY <1>1, <1>7, <2>3 DEF Refill, HTypeOK, TypeOK
    <3>. QED
      BY <1>1, <2>1, <3>1, KeyInvKept
  <2>4. KeyInv(q)'
    <3>1. /\ lastRefil'[q] = clock
          /\ granted'[q] = granted[q] + n
          /\ tokens'[q] = Refilled(q) - n * Unit
      BY <1>1, <1>7 DEF Refill, HTypeOK, TypeOK
    <3>. QED
      BY <1>1, <2>1, <3>1, TakeKeepsKeyInv
  <2>. QED
    BY <1>1, <1>2, <2>1, <2>2, <2>3, <2>4
<1>8. ASSUME NEW r \in Requests, NEW q \in Keys, HGrant(r, q)
      PROVE  WindowInv'
  <2>1. /\ Refill(r, q)
        /\ UNCHANGED windowVars
        /\ granted' = [granted EXCEPT ![q] = @ + 1]
        /\ tokens' = [tokens EXCEPT ![q] = Refilled(q) - Unit]
    BY <1>8 DEF HGrant, Grant
  <2>2. Refilled(q) - Unit = Refilled(q) - 1 * Unit
    OBVIOUS
  <2>. QED
    BY <1>7, <2>1, <2>2
<1>9. ASSUME NEW r \in Requests, NEW q \in Keys, HDeny(r, q)
      PROVE  WindowInv'
  <2>1. /\ Refill(r, q)
        /\ UNCHANGED windowVars
        /\ UNCHANGED granted
        /\ tokens' = [tokens EXCEPT ![q] = Refilled(q)]
    BY <1>9 DEF HDeny, Deny
  <2>2. granted' = [granted EXCEPT ![q] = @ + 0]
    BY <1>1, <2>1 DEF HTypeOK
  <2>3. Refilled(q) = Refilled(q) - 0 * Unit
    <3>1. Refilled(q) \in Int
      BY <1>1, RefilledFacts DEF HTypeOK, KeyInv
    <3>. QED
      BY <3>1
  <2>. QED
    BY <1>7, <2>1, <2>2, <2>3
<1>10. CASE UNCHANGED allVars
  <2>1. UNCHANGED vars /\ UNCHANGED <<granted, markTime, markGranted>>
    BY <1>10 DEF allVars, windowVars
  <2>2. clock <= clock'
    BY <1>1, <2>1 DEF vars, HTypeOK, TypeOK
  <2>3. ASSUME NEW k \in Keys
        PROVE  KeyInv(k)'
    BY <1>1, <2>1, <2>2, KeyInvKept DEF vars
  <2>. QED
    BY <1>1, <1>2, <2>1, <2>2, <2>3 DEF vars
<1>. QED
    BY <1>3, <1>4, <1>5, <1>6, <1>8, <1>9, <1>10 DEF HNext

(* Between its last refill and now a key is granted nothing, and the bound *)
(* only grows.                                                             *)
LEMMA WindowInvImpliesBound == WindowInv => WindowBound
<1> SUFFICES ASSUME WindowInv, NEW k \in Keys
             PROVE  Unit * (granted[k] - markGranted[k])
                       <= Full + Rate * (clock - markTime)
    BY DEF WindowBound
<1> USE RateAssumption, FullIsNat
<1>1. /\ HTypeOK
      /\ markTime <= clock
      /\ KeyInv(k)
    BY WindowInvByKey
<1>2. Rate * (clock - markTime) \in Nat
  <2>1. clock - markTime \in Nat
    BY <1>1 DEF HTypeOK, TypeOK
  <2>. QED
    BY <2>1, RateIsMonotone
<1>3. CASE lastRefil[k] < markTime
  <2>1. granted[k] - markGranted[k] = 0
    BY <1>1, <1>3 DEF KeyInv, HTypeOK
  <2>2. Unit * (granted[k] - markGranted[k]) = 0
    BY <2>1
  <2>. QED
    BY <1>2, <2>2
<1>4. CASE lastRefil[k] >= markTime
  <2>1. tokens[k] + Unit * (granted[k] - markGranted[k])
           <= Full + Rate * (lastRefil[k] - markTime)
    BY <1>1, <1>4 DEF KeyInv
  <2>2. (clock - lastRefil[k]) * Rate + Rate * (lastRefil[k] - markTime)
           = Rate * (clock - markTime)
    BY <1>1, <1>4, RateSplits DEF KeyInv, HTypeOK, TypeOK
  <2>3. (clock - lastRefil[k]) * Rate \in Nat
    <3>1. clock - lastRefil[k] \in Nat
      BY <1>1 DEF KeyInv, HTypeOK, TypeOK
    <3>. QED
      BY <3>1, RateIsMonotone
  <2>4. /\ tokens[k] \in Nat
        /\ Unit * (granted[k] - markGranted[k]) \in Int
        /\ Rate * (lastRefil[k] - markTime) \in Int
    BY <1>1 DEF HTypeOK, TypeOK
  <2>. QED
    BY <1>2, <2>1, <2>2, <2>3, <2>4
<1>. QED
    BY <1>1, <1>3, <1>4 DEF HTypeOK, TypeOK

(* In every window of time a key is granted at most the burst plus the     *)
(* rate times the length of the window.                                    *)
THEOREM RateIsBounded == HSpec => []WindowBound
<1>. QED
    BY InitWindowInv, StepWindowInv, WindowInvImpliesBound, PTL DEF HSpec

(* The types hold, and every key being looked at has a bucket. *)
THEOREM RateInvariant == HSpec => []WindowInv
<1>. QED
    BY InitWindowInv, StepWindowInv, PTL DEF HSpec

-----------------------------------------------------------------------------
(* Since its bucket was last full, a key was granted what the bucket had   *)
(* then, and what time has brought until its last refill, less what it     *)
(* still holds: nothing was lost, for the bucket has not been full since.  *)
SinceFull(k) ==
    /\ fullTime[k] <= lastRefil[k]
    /\ tokens[k] + Unit * (granted[k] - fullGranted[k])
          = Full + Rate * (lastRefil[k] - fullTime[k])

EarnedInv == WindowInv /\ \A k \in buckets : SinceFull(k)

(* What a refill finds, when it does not find the bucket full.             *)
LEMMA RefillsExactly ==
    ASSUME HTypeOK, NEW k \in Keys, lastRefil[k] <= clock, SinceFull(k),
           Refilled(k) # Full
    PROVE  /\ Refilled(k) \in 0..Full
           /\ fullTime[k] <= clock
           /\ Refilled(k) + Unit * (granted[k] - fullGranted[k])
                 = Full + Rate * (clock - fullTime[k])
<1> USE RateAssumption, FullIsNat
<1> DEFINE brought == (clock - lastRefil[k]) * Rate
           used == Unit * (granted[k] - fullGranted[k])
           before == Rate * (lastRefil[k] - fullTime[k])
           until == Rate * (clock - fullTime[k])
<1>1. /\ clock \in Nat /\ lastRefil[k] \in Nat /\ fullTime[k] \in Nat
      /\ tokens[k] \in 0..Full /\ granted[k] \in Nat /\ fullGranted[k] \in Nat
    BY DEF HTypeOK, TypeOK
<1>2. Refilled(k) = tokens[k] + brought
    BY DEF Refilled
<1>3. brought + before = until
    BY <1>1, RateSplits
<1>4. brought \in Int /\ used \in Int /\ before \in Int /\ until \in Int
    BY <1>1
<1>5. tokens[k] + used = Full + before
    BY DEF SinceFull
<1>6. Refilled(k) \in 0..Full
    BY RefilledFacts DEF HTypeOK
<1>7. fullTime[k] <= clock
    BY <1>1 DEF SinceFull
<1> HIDE DEF brought, used, before, until
<1>8. Refilled(k) + used = Full + until
    BY <1>1, <1>2, <1>3, <1>4, <1>5
<1>. QED
    BY <1>6, <1>7, <1>8 DEF used, until

(* The bucket of another key, and one that is only looked up, is as it was. *)
LEMMA SinceFullKept ==
    ASSUME NEW k, SinceFull(k),
           tokens'[k] = tokens[k], lastRefil'[k] = lastRefil[k],
           granted'[k] = granted[k],
           fullTime'[k] = fullTime[k], fullGranted'[k] = fullGranted[k]
    PROVE  SinceFull(k)'
    BY DEF SinceFull

(* Granted or refused, the refilled bucket accounts for its tokens.        *)
LEMMA TakeKeepsSinceFull ==
    ASSUME HTypeOK, NEW k \in Keys, lastRefil[k] <= clock, SinceFull(k),
           NEW n \in {0, 1},
           clock' = clock,
           lastRefil'[k] = clock,
           granted'[k] = granted[k] + n,
           tokens'[k] = Refilled(k) - n * Unit,
           fullTime'[k] = IF Refilled(k) = Full THEN clock ELSE fullTime[k],
           fullGranted'[k] = IF Refilled(k) = Full THEN granted[k] ELSE fullGranted[k]
    PROVE  SinceFull(k)'
<1> USE RateAssumption, FullIsNat
<1>1. /\ clock \in Nat /\ granted[k] \in Nat /\ fullGranted[k] \in Nat
      /\ fullTime[k] \in Nat
    BY DEF HTypeOK, TypeOK
<1>2. CASE Refilled(k) = Full
  <2>1. granted'[k] - fullGranted'[k] = n /\ lastRefil'[k] - fullTime'[k] = 0
    BY <1>1, <1>2
  <2>2. Unit * n = n * Unit /\ n * Unit \in Nat /\ Rate * 0 = 0
    OBVIOUS
  <2>3. tokens'[k] + Unit * (granted'[k] - fullGranted'[k]) = Full
    BY <1>2, <2>1, <2>2
  <2>. QED
    BY <1>1, <1>2, <2>1, <2>2, <2>3 DEF SinceFull
<1>3. CASE Refilled(k) # Full
  <2> DEFINE g == granted[k] - fullGranted[k]
             until == Rate * (clock - fullTime[k])
  <2>1. /\ Refilled(k) \in 0..Full /\ fullTime[k] <= clock
        /\ Refilled(k) + Unit * g = Full + until
    BY <1>3, RefillsExactly
  <2>2. granted'[k] - fullGranted'[k] = g + n
    BY <1>1, <1>3
  <2>3. g \in Int /\ Unit * (g + n) = Unit * g + n * Unit
    BY <1>1
  <2>4. Unit * g \in Int /\ n * Unit \in Int /\ until \in Int
    BY <1>1
  <2> HIDE DEF g
  <2>5. tokens'[k] + Unit * (g + n) = Full + until
    BY <2>1, <2>3, <2>4
  <2>. QED
    BY <1>3, <2>1, <2>2, <2>5 DEF SinceFull
<1>. QED
    BY <1>2, <1>3

LEMMA StepEarnedInv == EarnedInv /\ [HNext]_allVars => EarnedInv'
<1> SUFFICES ASSUME EarnedInv, [HNext]_allVars
             PROVE  \A k \in buckets' : SinceFull(k)'
    BY StepWindowInv DEF EarnedInv
<1>1. /\ HTypeOK /\ buckets \subseteq Keys
      /\ \A r \in Requests : looking[r] \subseteq buckets
      /\ \A k \in buckets : SinceFull(k)
      /\ \A k \in Keys : lastRefil[k] <= clock
    BY DEF EarnedInv, WindowInv, HTypeOK, TypeOK
<1>2. CASE UNCHANGED <<buckets, tokens, lastRefil, granted, fullTime, fullGranted>>
    BY <1>1, <1>2, SinceFullKept
<1>3. ASSUME NEW r \in Requests, NEW q \in Keys, HCreate(r, q)
      PROVE  \A k \in buckets' : SinceFull(k)'
  <2>1. /\ buckets' = buckets \union {q}
        /\ tokens' = [tokens EXCEPT ![q] = Full]
        /\ lastRefil' = [lastRefil EXCEPT ![q] = clock]
        /\ fullTime' = [fullTime EXCEPT ![q] = clock]
        /\ fullGranted' = [fullGranted EXCEPT ![q] = granted[q]]
        /\ granted' = granted
    BY <1>3 DEF HCreate, Create, NoteFull
  <2>2. SinceFull(q)'
    <3>1. /\ tokens'[q] = Full /\ lastRefil'[q] = clock /\ fullTime'[q] = clock
          /\ granted'[q] - fullGranted'[q] = 0 /\ clock \in Nat
      BY <1>1, <2>1 DEF HTypeOK, TypeOK
    <3>2. Unit * 0 = 0 /\ Rate * (clock - clock) = 0
      BY <3>1, RateAssumption
    <3>. QED
      BY <3>1, <3>2, FullIsNat DEF SinceFull
  <2>3. ASSUME NEW k \in buckets, k # q
        PROVE  SinceFull(k)'
    <3>1. /\ tokens'[k] = tokens[k] /\ lastRefil'[k] = lastRefil[k]
          /\ fullTime'[k] = fullTime[k] /\ fullGranted'[k] = fullGranted[k]
      BY <1>1, <2>1, <2>3 DEF HTypeOK, TypeOK
    <3>. QED
      BY <1>1, <2>1, <3>1, SinceFullKept
  <2>. QED
    BY <2>1, <2>2, <2>3
<1>4. ASSUME NEW r \in Requests, NEW q \in Keys, Refill(r, q),
             NoteFull(q, Refilled(q) = Full), NEW n \in {0, 1},
             granted' = [granted EXCEPT ![q] = @ + n],
             tokens' = [tokens EXCEPT ![q] = Refilled(q) - n * Unit]
      PROVE  \A k \in buckets' : SinceFull(k)'
  <2>1. /\ q \in buckets /\ buckets' = buckets /\ clock' = clock
        /\ lastRefil' = [lastRefil EXCEPT ![q] = clock]
    BY <1>1, <1>4 DEF Refill
  <2>2. SinceFull(q)'
    <3>1. /\ lastRefil'[q] = clock /\ granted'[q] = granted[q] + n
          /\ tokens'[q] = Refilled(q) - n * Unit
      BY <1>1, <1>4, <2>1 DEF HTypeOK, TypeOK
    <3>2. /\ fullTime'[q] = IF Refilled(q) = Full THEN clock ELSE fullTime[q]
          /\ fullGranted'[q] = IF Refilled(q) = Full THEN granted[q] ELSE fullGranted[q]
      BY <1>1, <1>4 DEF NoteFull, HTypeOK
    <3>. QED
      BY <1>1, <2>1, <3>1, <3>2, TakeKeepsSinceFull
  <2>3. ASSUME NEW k \in buckets, k # q
        PROVE  SinceFull(k)'
    <3>1. /\ tokens'[k] = tokens[k] /\ lastRefil'[k] = lastRefil[k]
          /\ granted'[k] = granted[k]
      BY <1>1, <1>4, <2>1, <2>3 DEF HTypeOK, TypeOK
    <3>2. fullTime'[k] = fullTime[k] /\ fullGranted'[k] = fullGranted[k]
      BY <1>1, <1>4, <2>3 DEF NoteFull, HTypeOK
    <3>. QED
      BY <1>1, <3>1, <3>2, SinceFullKept
  <2>. QED
    BY <2>1, <2>2, <2>3
<1>5. ASSUME NEW r \in Requests, NEW q \in Keys, HGrant(r, q)
      PROVE  \A k \in buckets' : SinceFull(k)'
  <2>1. /\ Refill(r, q) /\ NoteFull(q, Refilled(q) = Full)
        /\ granted' = [granted EXCEPT ![q] = @ + 1]
        /\ tokens' = [tokens EXCEPT ![q] = Refilled(q) - Unit]
    BY <1>5 DEF HGrant, Grant
  <2>2. Unit = 1 * Unit
    BY RateAssumption
  <2>. QED
    BY <1>4, <2>1, <2>2
<1>6. ASSUME NEW r \in Requests, NEW q \in Keys, HDeny(r, q)
      PROVE  \A k \in buckets' : SinceFull(k)'
  <2>1. /\ Refill(r, q) /\ NoteFull(q, Refilled(q) = Full)
        /\ granted' = granted
        /\ tokens' = [tokens EXCEPT ![q] = Refilled(q)]
    BY <1>6 DEF HDeny, Deny
  <2>2. granted' = [granted EXCEPT ![q] = @ + 0]
    BY <1>1, <2>1 DEF HTypeOK
  <2>3. Refilled(q) = Refilled(q) - 0 * Unit
    <3>1. Refilled(q) \in Int
      BY <1>1, RefilledFacts DEF HTypeOK
    <3>. QED
      BY <3>1, RateAssumption
  <2>. QED
    BY <1>4, <2>1, <2>2, <2>3
<1>7. CASE Mark
    BY <1>2, <1>7 DEF Mark, vars, fullVars
<1>8. CASE Tick /\ UNCHANGED <<granted, windowVars, fullVars>>
    BY <1>2, <1>8 DEF Tick, fullVars
<1>9. ASSUME NEW r \in Requests, NEW q \in Keys,
             Find(r, q), UNCHANGED <<granted, windowVars, fullVars>>
      PROVE  \A k \in buckets' : SinceFull(k)'
    BY <1>2, <1>9 DEF Find, fullVars
<1>10. CASE UNCHANGED allVars
    BY <1>2, <1>10 DEF allVars, vars, fullVars
<1>. QED
    BY <1>3, <1>5, <1>6, <1>7, <1>8, <1>9, <1>10 DEF HNext

(* A refusal finds less than a token, and what a refill finds is all that  *)
(* is left of what the key was due since its bucket was full.              *)
LEMMA DenialStep ==
    ASSUME EarnedInv, HNext, NEW r \in Requests, NEW k \in Keys, Deny(r, k)
    PROVE  Unit * (granted[k] + 1 - fullGranted'[k])
              > Full + Rate * (clock - fullTime'[k])
<1> USE RateAssumption, FullIsNat
<1>1. /\ HTypeOK /\ lastRefil[k] <= clock /\ k \in buckets /\ SinceFull(k)
      /\ looking[r] \in {{}} \union {{q} : q \in Keys}
    BY DEF EarnedInv, WindowInv, HTypeOK, TypeOK, Deny, Refill
<1>2. Refilled(k) < Unit /\ looking' = [looking EXCEPT ![r] = {}] /\ k \in looking[r]
    BY DEF Deny, Refill
<1>3. NoteFull(k, Refilled(k) = Full)
  <2>1. looking \in [Requests -> {{}} \union {{q} : q \in Keys}]
    BY <1>1 DEF HTypeOK, TypeOK
  <2>2. looking' # looking
    BY <1>2, <2>1
  <2>3. ASSUME NEW p \in Requests, NEW q \in Keys, looking[p] = {},
               looking' = [looking EXCEPT ![p] = {q}]
        PROVE  FALSE
    <3>1. looking'[p] = {q} /\ looking[p] = {} /\ (p = r => looking'[p] = {})
      BY <1>2, <2>1, <2>3
    <3>2. looking'[p] = looking[p] \/ p = r
      BY <1>2, <2>1
    <3>. QED
      BY <3>1, <3>2
  <2>4. ASSUME NEW p \in Requests, NEW q \in Keys, Refill(p, q)
        PROVE  q = k
    <3>1. q \in looking[p] /\ looking'[p] = {}
      BY <2>1, <2>4 DEF Refill
    <3>2. p = r
      BY <1>2, <2>1, <3>1
    <3>. QED
      BY <1>2, <2>1, <3>1, <3>2
  <2>5. ~Mark /\ ~Tick
    BY <2>2 DEF Mark, Tick, vars
  <2>6. PICK p \in Requests, q \in Keys :
           Find(p, q) \/ HCreate(p, q) \/ HGrant(p, q) \/ HDeny(p, q)
    BY <2>5 DEF HNext
  <2>7. HGrant(p, q) \/ HDeny(p, q)
    BY <2>3, <2>6 DEF Find, HCreate, Create
  <2>8. q = k
    BY <2>4, <2>7 DEF HGrant, Grant, HDeny, Deny
  <2>. QED
    BY <2>7, <2>8 DEF HGrant, HDeny
<1>4. /\ clock \in Nat /\ granted[k] \in Nat /\ fullGranted[k] \in Nat
      /\ fullTime[k] \in Nat
    BY <1>1 DEF HTypeOK, TypeOK
<1>5. CASE Refilled(k) = Full
  <2>1. fullTime'[k] = clock /\ fullGranted'[k] = granted[k]
    BY <1>1, <1>3, <1>5 DEF NoteFull, HTypeOK
  <2>2. granted[k] + 1 - granted[k] = 1 /\ clock - clock = 0
    BY <1>4
  <2>3. Unit * 1 = Unit /\ Rate * 0 = 0
    OBVIOUS
  <2>. QED
    BY <1>2, <1>5, <2>1, <2>2, <2>3
<1>6. CASE Refilled(k) # Full
  <2> DEFINE g == granted[k] - fullGranted[k]
             until == Rate * (clock - fullTime[k])
  <2>1. fullTime'[k] = fullTime[k] /\ fullGranted'[k] = fullGranted[k]
    BY <1>3, <1>6 DEF NoteFull
  <2>2. Refilled(k) \in 0..Full /\ Refilled(k) + Unit * g = Full + until
    BY <1>1, <1>6, RefillsExactly
  <2>3. granted[k] + 1 - fullGranted[k] = g + 1 /\ g \in Int
    BY <1>4
  <2>4. Unit * (g + 1) = Unit * g + Unit /\ Unit * g \in Int /\ until \in Int
    BY <1>4, <2>3
  <2> HIDE DEF g
  <2>5. Unit * (g + 1) > Full + until
    BY <1>2, <2>2, <2>4
  <2>. QED
    BY <2>1, <2>3, <2>5
<1>. QED
    BY <1>5, <1>6

(* No refill is lost to rounding, to the cap or to a refusal: a request is *)
(* refused only when its key has used up, since its bucket was last full,  *)
(* the burst and all that time has brought, to less than one token.        *)
THEOREM DenialsAreEarned == HSpec => DenialIsEarned
<1>1. HInit => EarnedInv
    BY InitWindowInv DEF HInit, Init, EarnedInv
<1>2. EarnedInv /\ [HNext]_allVars
      => [\A r \in Requests, k \in Keys :
            Deny(r, k) => Unit * (granted[k] + 1 - fullGranted'[k])
                             > Full + Rate * (clock - fullTime'[k])]_allVars
    BY DenialStep
<1>. QED
    BY <1>1, <1>2, StepEarnedInv, PTL DEF HSpec, DenialIsEarned

-----------------------------------------------------------------------------
(* Dedupe: a response remembered last is the one whose TTL is counted, so  *)
(* a fresh one is in the map and has not expired.                          *)
FreshInv ==
    /\ Dedupe!TypeOK
    /\ \A k \in Fingerprints : fresh[k] <= left[k] /\ (left[k] > 0 => k \in seen)

LEMMA StepFreshInv == FreshInv /\ [Dedupe!Next]_dedupeVars => FreshInv'
<1> SUFFICES ASSUME FreshInv, [Dedupe!Next]_dedupeVars PROVE FreshInv'
    OBVIOUS
<1> USE TablesAssumption DEF FreshInv, Dedupe!TypeOK, Dedupe!ConfigOK
<1>1. CASE UNCHANGED dedupeVars
    BY <1>1 DEF dedupeVars
<1>2. CASE Dedupe!Tick
    BY <1>2 DEF Dedupe!Tick, Dedupe!Elapse
<1>3. ASSUME NEW r \in Requests, NEW k \in Fingerprints, Dedupe!Forward(r, k)
      PROVE  FreshInv'
    BY <1>3 DEF Dedupe!Forward
<1>4. ASSUME NEW r \in Requests, NEW k \in Fingerprints, Dedupe!Complete(r, k)
      PROVE  FreshInv'
    BY <1>4 DEF Dedupe!Complete
<1>5. ASSUME NEW r \in Requests, NEW k \in Fingerprints, Dedupe!Panic(r, k)
      PROVE  FreshInv'
    BY <1>5 DEF Dedupe!Panic
<1>6. ASSUME NEW r \in Requests, NEW k \in Fingerprints, Dedupe!Replay(r, k)
      PROVE  FreshInv'
    BY <1>6 DEF Dedupe!Replay, Dedupe!vars
<1>. QED
    BY <1>1, <1>2, <1>3, <1>4, <1>5, <1>6 DEF Dedupe!Next, Dedupe!Step

LEMMA InitFreshInv == Dedupe!Init => FreshInv
    BY TablesAssumption DEF Dedupe!Init, FreshInv, Dedupe!TypeOK, Dedupe!ConfigOK

(* No request is handled within the TTL after the response of an equal one *)
(* was completed, whatever overlapped before.                              *)
THEOREM DuplicatesOverlap == Dedupe!Spec => NoLateDuplicate
<1>1. FreshInv /\ [Dedupe!Next]_dedupeVars
      => [\A r \in Requests, k \in Fingerprints :
            Dedupe!Forward(r, k) => fresh[k] = 0]_dedupeVars
    BY TablesAssumption DEF FreshInv, Dedupe!TypeOK, Dedupe!ConfigOK,
        Dedupe!Forward, Dedupe!Remembered
<1>. QED
    BY InitFreshInv, <1>1, StepFreshInv, PTL
    DEF Dedupe!Spec, NoLateDuplicate, Dedupe!NoLateDuplicate, dedupeVars, Dedupe!vars

-----------------------------------------------------------------------------
(* BreachLog: the window's own clock runs no later than a goroutine's, and *)
(* one that is about to warn has let Gap pass since it last did.           *)
GapInv ==
    /\ since \in 0..Gap + 1
    /\ own \in [Requests -> 0..Gap + 1]
    /\ \A r \in Requests : since <= own[r] /\ (r \in warning => own[r] > Gap)

LEMMA StepGapInv == GapInv /\ [Breach!Next]_breachVars => GapInv'
<1> SUFFICES ASSUME GapInv, [Breach!Next]_breachVars PROVE GapInv'
    OBVIOUS
<1> USE TablesAssumption DEF GapInv, Breach!ConfigOK
<1>1. CASE UNCHANGED breachVars
    BY <1>1 DEF breachVars
<1>2. CASE Breach!Tick
    BY <1>2 DEF Breach!Tick, Breach!Later
<1>3. ASSUME NEW r \in Requests, Breach!Warn(r)
      PROVE  GapInv'
    BY <1>3 DEF Breach!Warn
<1>4. ASSUME NEW r \in Requests, NEW e \in BOOLEAN, Breach!Record(r, e)
      PROVE  GapInv'
  <2>1. UNCHANGED <<since, own>>
    BY <1>4 DEF Breach!Record
  <2>2. \A q \in Requests : q \in warning' => q \in warning \/ since > Gap
    BY <1>4 DEF Breach!Record, Breach!Breach
  <2>. QED
    BY <2>1, <2>2
<1>. QED
    BY <1>1, <1>2, <1>3, <1>4 DEF Breach!Next

LEMMA InitGapInv == Breach!Init => GapInv
    BY TablesAssumption DEF Breach!Init, GapInv, Breach!ConfigOK

(* Between two warnings of one goroutine, more than Gap has passed.        *)
THEOREM WarningsKeepTheGap == Breach!Spec => OneWarningEach
<1>1. GapInv /\ [Breach!Next]_breachVars
      => [\A r \in Requests : Breach!Warn(r) => own[r] > Gap]_breachVars
    BY DEF GapInv, Breach!Warn
<1>. QED
    BY InitGapInv, <1>1, StepGapInv, PTL
    DEF Breach!Spec, OneWarningEach, Breach!OneWarningEach, breachVars, Breach!vars

-----------------------------------------------------------------------------
(* Failover: the loop has passed the backends before "next", each of which *)
(* failed or was skipped unless it answered, and the answer ends it.       *)
LoopInv ==
    /\ Failover!TypeOK
    /\ answer \in Failover!Backends => next = answer + 1 /\ heard[answer] = "usable"
    /\ answer = Failover!Unavailable => next = Count + 1
    /\ \A b \in Failover!Backends :
          b < next /\ b # answer =>
             /\ heard[b] \in {"skipped", "retryable", "unsent"}
             /\ body = "none" /\ b \in valid => heard[b] = "retryable"

LEMMA StepLoopInv == LoopInv /\ [Failover!Next]_failoverVars => LoopInv'
<1> SUFFICES ASSUME LoopInv, [Failover!Next]_failoverVars PROVE LoopInv'
    OBVIOUS
<1> USE TablesAssumption
    DEF LoopInv, Failover!TypeOK, Failover!ConfigOK, Failover!Backends,
        Failover!Unavailable, Failover!Outcomes
<1>1. CASE UNCHANGED failoverVars
    BY <1>1 DEF failoverVars
<1>2. ASSUME NEW b \in Failover!Backends, Failover!Skip(b)
      PROVE  LoopInv'
    BY <1>2 DEF Failover!Skip, Failover!At
<1>3. ASSUME NEW b \in Failover!Backends, NEW o \in Failover!Outcomes,
             Failover!Try(b, o)
      PROVE  LoopInv'
    BY <1>3 DEF Failover!Try, Failover!At, Failover!Possible
<1>4. CASE Failover!Exhausted
    BY <1>4 DEF Failover!Exhausted, Failover!At
<1>5. CASE Failover!Again
    BY <1>5 DEF Failover!Again, Failover!Start
<1>. QED
    BY <1>1, <1>2, <1>3, <1>4, <1>5 DEF Failover!Next

LEMMA InitLoopInv == Failover!Init => LoopInv
    BY TablesAssumption
    DEF Failover!Init, LoopInv, Failover!TypeOK, Failover!ConfigOK,
        Failover!Backends, Failover!Unavailable

(* The client is sent the first usable response there is, and a 502 only   *)
(* after every backend of the configuration had its turn.                  *)
THEOREM UsableResponseSent == Failover!Spec => []FirstUsableWins
<1>1. LoopInv => FirstUsableWins
    BY TablesAssumption
    DEF LoopInv, FirstUsableWins, Failover!FirstUsableWins, Failover!TypeOK,
        Failover!ConfigOK, Failover!Backends, Failover!Unavailable
<1>. QED
    BY InitLoopInv, <1>1, StepLoopInv, PTL DEF Failover!Spec, failoverVars, Failover!vars

-----------------------------------------------------------------------------
(* Compress: nothing is committed before the buffer is full, and once it   *)
(* is, every byte that was copied is on its way with the handler's status. *)
WriterInv ==
    /\ Compress!TypeOK
    /\ copied = IF committed THEN sent ELSE buf
    /\ pc = "done" => committed
    /\ pc = "head" => ~committed /\ buf = 0
    /\ committed /\ status # 0 => head.status = status
    /\ committed /\ pc # "done" => head.gzip
    /\ committed => (head.gzip <=> copied > 0 /\ copied >= MinLength)
    /\ ~committed /\ buf > 0 => buf < MinLength

LEMMA StepWriterInv == WriterInv /\ [Compress!Next]_compressVars => WriterInv'
<1> SUFFICES ASSUME WriterInv, [Compress!Next]_compressVars PROVE WriterInv'
    OBVIOUS
<1> USE TablesAssumption DEF WriterInv, Compress!TypeOK, Compress!ConfigOK
<1>1. CASE UNCHANGED compressVars
    BY <1>1 DEF compressVars
<1>2. ASSUME NEW s \in {200, 404}, Compress!WriteHeader(s)
      PROVE  WriterInv'
    BY <1>2 DEF Compress!WriteHeader
<1>3. ASSUME NEW n \in 1..MaxLength, Compress!Copy(n)
      PROVE  WriterInv'
  <2>1. CASE Compress!WriteBuffered(n)
    BY <1>3, <2>1 DEF Compress!Copy, Compress!WriteBuffered, Compress!Fills,
        Compress!Reported
  <2>2. CASE Compress!WriteFilling(n)
    BY <1>3, <2>2 DEF Compress!Copy, Compress!WriteFilling, Compress!Fills,
        Compress!Reported, Compress!Commit
  <2>3. CASE Compress!WriteThrough(n)
    BY <1>3, <2>3 DEF Compress!Copy, Compress!WriteThrough, Compress!Fills,
        Compress!Reported
  <2>. QED
    BY <1>3, <2>1, <2>2, <2>3 DEF Compress!Copy
<1>4. CASE Compress!Panic
    BY <1>4 DEF Compress!Panic
<1>5. CASE Compress!Flush
  <2>1. CASE committed
    BY <1>5, <2>1 DEF Compress!Flush, Compress!Over
  <2>2. CASE ~committed
    <3>1. /\ pc' = "done" /\ committed' /\ sent' = buf
          /\ head' = [status |-> IF status = 0 THEN 200 ELSE status, gzip |-> FALSE]
          /\ UNCHANGED <<length, copied, status, buf>>
      BY <1>5, <2>2 DEF Compress!Flush, Compress!Commit
    <3>2. ~head'.gzip /\ (status # 0 => head'.status = status)
      BY <3>1
    <3>3. Compress!TypeOK'
      BY <2>2, <3>1
    <3>. QED
      BY <2>2, <3>1, <3>2, <3>3
  <2>. QED
    BY <2>1, <2>2
<1>. QED
    BY <1>1, <1>2, <1>3, <1>4, <1>5 DEF Compress!Next

LEMMA InitWriterInv == Compress!Init => WriterInv
<1> SUFFICES ASSUME Compress!Init PROVE WriterInv
    OBVIOUS
<1>1. Compress!TypeOK
  <2>1. head \in [status : {0, 200, 404}, gzip : BOOLEAN]
    BY DEF Compress!Init
  <2>2. /\ length \in 0..MaxLength /\ copied = 0 /\ buf = 0 /\ sent = 0 /\ 0 \in 0..length
        /\ 0 \in 0..MaxLength /\ pc = "head" /\ status = 0 /\ committed = FALSE
    BY TablesAssumption DEF Compress!Init, Compress!ConfigOK
  <2>. QED
    BY <2>1, <2>2 DEF Compress!TypeOK
<1>. QED
    BY <1>1 DEF Compress!Init, WriterInv

(* Whatever the pieces in which a body comes, what is written is sent or   *)
(* buffered, and compressed exactly if it reaches MinLength.               *)
THEOREM WrittenIsDelivered == Compress!Spec => []DeliversWritten
<1>1. WriterInv => DeliversWritten
    BY DEF WriterInv, DeliversWritten, Compress!DeliversWritten
<1>. QED
    BY InitWriterInv, <1>1, StepWriterInv, PTL DEF Compress!Spec, compressVars, Compress!vars

-----------------------------------------------------------------------------
(* The remainder of the next number: what a round robin, and a ring, turns *)
(* on.                                                                     *)
LEMMA ResidueRange ==
    ASSUME NEW m \in Nat \ {0}, NEW n \in Nat
    PROVE  n % m \in 0..m - 1
    OBVIOUS

LEMMA Division ==
    ASSUME NEW m \in Nat \ {0}, NEW n \in Nat
    PROVE  n \div m \in Int /\ n = (m * (n \div m)) + (n % m)
    OBVIOUS

LEMMA NextResidue ==
    ASSUME NEW m \in Nat \ {0}, NEW n \in Nat
    PROVE  (n + 1) % m = IF n % m = m - 1 THEN 0 ELSE (n % m) + 1
<1> DEFINE q == n \div m
           r == n % m
           p == (n + 1) \div m
           s == (n + 1) % m
<1>1. n = (m * q) + r /\ r \in 0..m - 1 /\ q \in Int
    BY Division, ResidueRange
<1>2. n + 1 \in Nat
    OBVIOUS
<1>3. n + 1 = (m * p) + s /\ s \in 0..m - 1 /\ p \in Int
    BY <1>2, Division, ResidueRange
<1> SUFFICES s = IF r = m - 1 THEN 0 ELSE r + 1
    OBVIOUS
<1> HIDE DEF q, r, p, s
<1>4. m * p - m * q = m * (p - q)
    BY <1>1, <1>3
<1>5. m * (p - q) = r + 1 - s
    BY <1>1, <1>3, <1>4
<1>6. CASE p - q >= 2
  <2>1. m * (p - q) >= m * 2
    BY <1>1, <1>3, <1>6
  <2>. QED
    BY <1>1, <1>3, <1>5, <2>1
<1>7. CASE p - q <= -1
  <2>1. m * (p - q) <= m * (-1)
    BY <1>1, <1>3, <1>7
  <2>. QED
    BY <1>1, <1>3, <1>5, <2>1
<1>8. CASE p - q = 0
    BY <1>1, <1>3, <1>5, <1>8
<1>9. CASE p - q = 1
    BY <1>1, <1>3, <1>5, <1>9
<1>. QED
    BY <1>1, <1>3, <1>6, <1>7, <1>8, <1>9

-----------------------------------------------------------------------------
(* Balancer: in a round that is under way, the targets before its turn are *)
(* one request ahead of the others.                                        *)
Ahead(turn, i, j) == IF i < turn /\ turn <= j THEN 1 ELSE 0

RoundInv ==
    /\ Balancer!TypeOK
    /\ \A i, j \in 0..Targets - 1 :
          i < j => /\ sentTo[j] + Ahead(counter % Targets, i, j) <= sentTo[i]
                   /\ sentTo[i] <= sentTo[j] + Ahead(counter % Targets, i, j) + wraps

LEMMA StepRoundInv == RoundInv /\ [Balancer!Next]_balancerVars => RoundInv'
<1> SUFFICES ASSUME RoundInv, [Balancer!Next]_balancerVars PROVE RoundInv'
    OBVIOUS
<1> USE TablesAssumption DEF Balancer!ConfigOK
<1>1. CASE UNCHANGED balancerVars
    BY <1>1 DEF balancerVars, RoundInv, Balancer!TypeOK
<1>2. CASE Balancer!TakeNext
  <2> DEFINE turn == counter % Targets
             turned == counter' % Targets
             last == counter = Size - 1
  <2>1. /\ counter \in 0..Size - 1 /\ counter \in Nat /\ wraps \in Nat
        /\ sentTo \in [0..Targets - 1 -> Nat]
    BY DEF RoundInv, Balancer!TypeOK
  <2>2. turn \in 0..Targets - 1
    BY <2>1, ResidueRange
  <2>3. counter % Size = counter
    BY <2>1
  <2>4. counter' = IF last THEN 0 ELSE counter + 1
    BY <1>2, <2>1, <2>3, NextResidue DEF Balancer!TakeNext
  <2>5. wraps' = IF last THEN wraps + 1 ELSE wraps
    BY <1>2, <2>1, <2>4 DEF Balancer!TakeNext
  <2>6. /\ sentTo' \in [0..Targets - 1 -> Nat]
        /\ \A i \in 0..Targets - 1 :
              sentTo'[i] = IF i = turn THEN sentTo[i] + 1 ELSE sentTo[i]
    <3>1. sentTo' = [sentTo EXCEPT ![turn] = @ + 1]
      BY <1>2 DEF Balancer!TakeNext, Balancer!Selected
    <3> HIDE DEF turn
    <3>. QED
      BY <2>1, <2>2, <3>1
  <2>7. turned = IF last \/ turn = Targets - 1 THEN 0 ELSE turn + 1
    <3>1. (counter + 1) % Targets = IF turn = Targets - 1 THEN 0 ELSE turn + 1
      BY <2>1, NextResidue
    <3>2. 0 % Targets = 0
      OBVIOUS
    <3>. QED
      BY <2>1, <2>4, <3>1, <3>2
  <2>8. Balancer!TypeOK'
    BY <2>1, <2>4, <2>5, <2>6 DEF Balancer!TypeOK
  <2> HIDE DEF turn, turned, last
  <2>9. ASSUME NEW i \in 0..Targets - 1, NEW j \in 0..Targets - 1, i < j
        PROVE  /\ sentTo'[j] + Ahead(turned, i, j) <= sentTo'[i]
               /\ sentTo'[i] <= sentTo'[j] + Ahead(turned, i, j) + wraps'
    <3>1. /\ sentTo[j] + Ahead(turn, i, j) <= sentTo[i]
          /\ sentTo[i] <= sentTo[j] + Ahead(turn, i, j) + wraps
      BY <2>9 DEF RoundInv, turn
    <3>2. sentTo[i] \in Nat /\ sentTo[j] \in Nat
      BY <2>1
    <3>3. /\ sentTo'[i] = IF i = turn THEN sentTo[i] + 1 ELSE sentTo[i]
          /\ sentTo'[j] = IF j = turn THEN sentTo[j] + 1 ELSE sentTo[j]
      BY <2>6
    <3> DEFINE a == Ahead(turn, i, j)
               b == Ahead(turned, i, j)
    <3>4. /\ a \in {0, 1} /\ b \in {0, 1}
          /\ i = turn => a = 0
          /\ j = turn => a = 1
      BY <2>9 DEF Ahead
    <3>5. /\ last => b = 0 /\ wraps' = wraps + 1
          /\ ~last => /\ wraps' = wraps
                      /\ i = turn => b = 1
                      /\ j = turn => b = 0
                      /\ i # turn /\ j # turn => b = a
      <4>1. CASE last
        BY <2>2, <2>5, <2>7, <2>9, <4>1 DEF Ahead
      <4>2. CASE ~last
        <5>1. wraps' = wraps
          BY <2>5, <4>2
        <5>2. CASE turn = Targets - 1
          BY <2>7, <2>9, <4>2, <5>1, <5>2 DEF Ahead
        <5>3. CASE turn # Targets - 1
          <6>1. turned = turn + 1
            BY <2>7, <4>2, <5>3
          <6>. QED
            BY <2>2, <2>9, <4>2, <5>1, <6>1 DEF Ahead
        <5>. QED
          BY <5>2, <5>3
      <4>. QED
        BY <4>1, <4>2
    <3> SUFFICES sentTo'[j] + b <= sentTo'[i] /\ sentTo'[i] <= sentTo'[j] + b + wraps'
      OBVIOUS
    <3>6. sentTo[j] + a <= sentTo[i] /\ sentTo[i] <= sentTo[j] + a + wraps
      BY <3>1
    <3> HIDE DEF a, b
    <3>7. wraps \in Nat /\ i # j
      BY <2>1, <2>9
    <3>8. CASE i = turn
      <4>1. sentTo'[i] = sentTo[i] + 1 /\ sentTo'[j] = sentTo[j] /\ a = 0
        BY <3>3, <3>4, <3>7, <3>8
      <4>2. (b = 0 /\ wraps' = wraps + 1) \/ (b = 1 /\ wraps' = wraps)
        BY <3>5, <3>8
      <4>. QED
        BY <3>2, <3>6, <3>7, <4>1, <4>2
    <3>9. CASE j = turn
      <4>1. sentTo'[i] = sentTo[i] /\ sentTo'[j] = sentTo[j] + 1 /\ a = 1
        BY <3>3, <3>4, <3>7, <3>9
      <4>2. b = 0 /\ wraps' \in {wraps, wraps + 1}
        BY <3>5, <3>9
      <4>. QED
        BY <3>2, <3>6, <3>7, <4>1, <4>2
    <3>10. CASE i # turn /\ j # turn
      <4>1. sentTo'[i] = sentTo[i] /\ sentTo'[j] = sentTo[j]
        BY <3>3, <3>10
      <4>2. (b = 0 /\ wraps' = wraps + 1) \/ (b = a /\ wraps' = wraps)
        BY <3>5, <3>10
      <4>. QED
        BY <3>2, <3>4, <3>6, <3>7, <4>1, <4>2
    <3>. QED
      BY <3>8, <3>9, <3>10
  <2>. QED
    BY <2>8, <2>9 DEF RoundInv, turned
<1>. QED
    BY <1>1, <1>2 DEF Balancer!Next

LEMMA InitRoundInv == Balancer!Init => RoundInv
<1>1. 0 % Targets = 0
    BY TablesAssumption DEF Balancer!ConfigOK
<1>. QED
    BY <1>1, TablesAssumption
    DEF Balancer!Init, RoundInv, Ahead, Balancer!TypeOK, Balancer!ConfigOK

(* Any number of targets share the requests evenly, up to one request and  *)
(* to the rounds that the wrapping counter cut short.                      *)
THEOREM RoundRobinIsEven == Balancer!Spec => []Even
<1>1. RoundInv => Even
  <2> SUFFICES ASSUME RoundInv, NEW i \in 0..Targets - 1, NEW j \in 0..Targets - 1
               PROVE  sentTo[i] <= sentTo[j] + 1 + wraps
    BY DEF Even, Balancer!Even
  <2> USE TablesAssumption DEF Balancer!ConfigOK
  <2>1. sentTo[i] \in Nat /\ sentTo[j] \in Nat /\ wraps \in Nat
    BY DEF RoundInv, Balancer!TypeOK
  <2>2. \A x, y \in 0..Targets - 1 : Ahead(counter % Targets, x, y) \in {0, 1}
    BY DEF Ahead
  <2>3. CASE i < j
    BY <2>1, <2>2, <2>3 DEF RoundInv
  <2>4. CASE j < i
    BY <2>1, <2>2, <2>4 DEF RoundInv
  <2>5. CASE i = j
    BY <2>1, <2>5
  <2>. QED
    BY <2>3, <2>4, <2>5
<1>. QED
    BY InitRoundInv, <1>1, StepRoundInv, PTL DEF Balancer!Spec, balancerVars, Balancer!vars

-----------------------------------------------------------------------------
(* Metrics: the requests at some steps of record, and the failing ones.    *)
AtStep(steps) == {r \in Requests : step[r] \in steps}
FailingAt(steps) == {r \in Requests : step[r] \in steps /\ result[r] = "error"}

Recording == {"duration", "error", "counts"}

CountInv ==
    /\ total \in Nat /\ errors \in Nat /\ spent \in Nat
    /\ counts \in [Metrics!Statuses -> Nat]
    /\ step \in [Requests -> {"idle"} \union Recording]
    /\ result \in [Requests -> Metrics!Statuses]
    /\ \A r \in Requests : step[r] = "error" => result[r] = "error"
    /\ total = counts["ok"] + counts["error"] + Cardinality(AtStep(Recording))
    /\ total = spent + Cardinality(AtStep({"duration"}))
    /\ errors = counts["error"] + Cardinality(FailingAt({"counts"}))

(* The instance has its own copies of the operators of FiniteSets.         *)
LEMMA MetricsSets ==
    /\ IsFiniteSet(Requests)
    /\ \A S : Metrics!Cardinality(S) = Cardinality(S)
<1>1. Metrics!IsFiniteSet(Requests)
    BY TablesAssumption DEF Metrics!ConfigOK
<1>2. ASSUME NEW S PROVE Metrics!Cardinality(S) = Cardinality(S)
    BY Zenon DEF Metrics!Cardinality, Cardinality
<1>. QED
    BY <1>1, <1>2 DEF Metrics!IsFiniteSet, IsFiniteSet

LEMMA AtStepFinite ==
    ASSUME NEW steps
    PROVE  /\ IsFiniteSet(AtStep(steps)) /\ Cardinality(AtStep(steps)) \in Nat
           /\ IsFiniteSet(FailingAt(steps)) /\ Cardinality(FailingAt(steps)) \in Nat
<1>1. AtStep(steps) \subseteq Requests /\ FailingAt(steps) \subseteq Requests
    BY DEF AtStep, FailingAt
<1>2. IsFiniteSet(AtStep(steps)) /\ IsFiniteSet(FailingAt(steps))
    BY <1>1, MetricsSets, FS_Subset
<1>. QED
    BY <1>2, FS_CardinalityType

LEMMA StepCountInv == CountInv /\ [Metrics!Next]_metricsVars => CountInv'
<1> SUFFICES ASSUME CountInv, [Metrics!Next]_metricsVars PROVE CountInv'
    OBVIOUS
<1> USE DEF CountInv, Metrics!Statuses, Recording
<1>1. CASE UNCHANGED <<total, errors, spent, counts, step, result>>
  <2>1. /\ AtStep(Recording)' = AtStep(Recording)
        /\ AtStep({"duration"})' = AtStep({"duration"})
        /\ FailingAt({"counts"})' = FailingAt({"counts"})
    BY <1>1 DEF AtStep, FailingAt
  <2>. QED
    BY <1>1, <2>1
<1>2. ASSUME NEW r \in Requests, NEW s \in Metrics!Statuses, Metrics!AddRequest(r, s)
      PROVE  CountInv'
  <2>1. /\ r \notin AtStep(Recording) /\ AtStep(Recording)' = AtStep(Recording) \union {r}
        /\ r \notin AtStep({"duration"})
        /\ AtStep({"duration"})' = AtStep({"duration"}) \union {r}
        /\ FailingAt({"counts"})' = FailingAt({"counts"})
    BY <1>2 DEF Metrics!AddRequest, AtStep, FailingAt
  <2>2. /\ Cardinality(AtStep(Recording)') = Cardinality(AtStep(Recording)) + 1
        /\ Cardinality(AtStep({"duration"})') = Cardinality(AtStep({"duration"})) + 1
    <3> HIDE DEF Recording
    <3>1. IsFiniteSet(AtStep(Recording)) /\ IsFiniteSet(AtStep({"duration"}))
      BY AtStepFinite
    <3>. QED
      BY <2>1, <3>1, FS_AddElement
  <2>3. /\ step' \in [Requests -> {"idle"} \union Recording]
        /\ result' \in [Requests -> Metrics!Statuses]
        /\ \A q \in Requests : step'[q] = "error" => result'[q] = "error"
    BY <1>2 DEF Metrics!AddRequest
  <2>4. total' = total + 1 /\ UNCHANGED <<errors, spent, counts>>
    BY <1>2 DEF Metrics!AddRequest
  <2>. QED
    BY <2>1, <2>2, <2>3, <2>4, AtStepFinite
<1>3. ASSUME NEW r \in Requests, Metrics!AddDuration(r)
      PROVE  CountInv'
  <2>1. /\ AtStep(Recording)' = AtStep(Recording)
        /\ r \in AtStep({"duration"})
        /\ AtStep({"duration"})' = AtStep({"duration"}) \ {r}
        /\ FailingAt({"counts"})' = FailingAt({"counts"})
    BY <1>3 DEF Metrics!AddDuration, AtStep, FailingAt
  <2>2. Cardinality(AtStep({"duration"})') = Cardinality(AtStep({"duration"})) - 1
    BY <2>1, AtStepFinite, FS_RemoveElement
  <2>3. /\ step' \in [Requests -> {"idle"} \union Recording]
        /\ \A q \in Requests : step'[q] = "error" => result'[q] = "error"
    BY <1>3 DEF Metrics!AddDuration
  <2>4. spent' = spent + 1 /\ UNCHANGED <<total, errors, counts, result>>
    BY <1>3 DEF Metrics!AddDuration
  <2>. QED
    BY <2>1, <2>2, <2>3, <2>4, AtStepFinite
<1>4. ASSUME NEW r \in Requests, Metrics!AddError(r)
      PROVE  CountInv'
  <2>1. /\ AtStep(Recording)' = AtStep(Recording)
        /\ AtStep({"duration"})' = AtStep({"duration"})
        /\ r \notin FailingAt({"counts"})
        /\ FailingAt({"counts"})' = FailingAt({"counts"}) \union {r}
    BY <1>4 DEF Metrics!AddError, AtStep, FailingAt
  <2>2. Cardinality(FailingAt({"counts"})') = Cardinality(FailingAt({"counts"})) + 1
    BY <2>1, AtStepFinite, FS_AddElement
  <2>3. /\ step' \in [Requests -> {"idle"} \union Recording]
        /\ \A q \in Requests : step'[q] = "error" => result'[q] = "error"
    BY <1>4 DEF Metrics!AddError
  <2>4. errors' = errors + 1 /\ UNCHANGED <<total, spent, counts, result>>
    BY <1>4 DEF Metrics!AddError
  <2>. QED
    BY <2>1, <2>2, <2>3, <2>4, AtStepFinite
<1>5. ASSUME NEW r \in Requests, Metrics!AddStatus(r)
      PROVE  CountInv'
  <2>1. /\ r \in AtStep(Recording) /\ AtStep(Recording)' = AtStep(Recording) \ {r}
        /\ AtStep({"duration"})' = AtStep({"duration"})
        /\ r \in FailingAt({"counts"}) <=> result[r] = "error"
        /\ FailingAt({"counts"})' = FailingAt({"counts"}) \ {r}
    BY <1>5 DEF Metrics!AddStatus, AtStep, FailingAt
  <2>2. /\ Cardinality(AtStep(Recording)') = Cardinality(AtStep(Recording)) - 1
        /\ Cardinality(FailingAt({"counts"})')
             = IF result[r] = "error" THEN Cardinality(FailingAt({"counts"})) - 1
                                      ELSE Cardinality(FailingAt({"counts"}))
    BY <2>1, AtStepFinite, FS_RemoveElement
  <2>3. /\ step' \in [Requests -> {"idle"} \union Recording]
        /\ \A q \in Requests : step'[q] = "error" => result'[q] = "error"
    BY <1>5 DEF Metrics!AddStatus
  <2>4. UNCHANGED <<total, errors, spent, result>>
    BY <1>5 DEF Metrics!AddStatus
  <2>5. /\ counts' \in [Metrics!Statuses -> Nat]
        /\ counts'["ok"] = IF result[r] = "ok" THEN counts["ok"] + 1 ELSE counts["ok"]
        /\ counts'["error"] = IF result[r] = "error" THEN counts["error"] + 1
                                                     ELSE counts["error"]
    BY <1>5 DEF Metrics!AddStatus
  <2>6. counts["ok"] \in Nat /\ counts["error"] \in Nat /\ result[r] \in {"ok", "error"}
    OBVIOUS
  <2>. QED
    BY <2>1, <2>2, <2>3, <2>4, <2>5, <2>6, AtStepFinite
<1>6. CASE Metrics!LoadTotal \/ Metrics!LoadErrors \/ Metrics!Show
    BY <1>1, <1>6 DEF Metrics!LoadTotal, Metrics!LoadErrors, Metrics!Show
<1>7. CASE UNCHANGED metricsVars
    BY <1>1, <1>7 DEF metricsVars
<1>. QED
    BY <1>2, <1>3, <1>4, <1>5, <1>6, <1>7 DEF Metrics!Next

LEMMA InitCountInv == Metrics!Init => CountInv
<1> SUFFICES ASSUME Metrics!Init PROVE CountInv
    OBVIOUS
<1>1. AtStep(Recording) = {} /\ AtStep({"duration"}) = {} /\ FailingAt({"counts"}) = {}
    BY DEF Metrics!Init, AtStep, FailingAt, Recording
<1>. QED
    BY <1>1, FS_EmptySet DEF Metrics!Init, CountInv, Metrics!Statuses, Recording

(* However the updates of any number of requests interleave, the counters  *)
(* differ by exactly the requests that are between two updates.            *)
THEOREM CountersNeverDrift == Metrics!Spec => []CountersAgree
<1>1. CountInv => CountersAgree
  <2>1. /\ Metrics!At({"duration", "error", "counts"}) = Cardinality(AtStep(Recording))
        /\ Metrics!At({"duration"}) = Cardinality(AtStep({"duration"}))
        /\ Metrics!Failing({"counts"}) = Cardinality(FailingAt({"counts"}))
    BY MetricsSets DEF Metrics!At, Metrics!Failing, AtStep, FailingAt, Recording
  <2>. QED
    BY <2>1 DEF CountInv, CountersAgree, Metrics!CountersAgree
<1>. QED
    BY InitCountInv, <1>1, StepCountInv, PTL DEF Metrics!Spec, metricsVars, Metrics!vars

-----------------------------------------------------------------------------
(* BreachLog: the place in the ring of the i-th oldest result.             *)
Place(i) ==
    IF ~full THEN i
    ELSE IF pos + i <= WindowSize THEN pos + i ELSE pos + i - WindowSize

RingInv ==
    /\ codes \in [1..WindowSize -> BOOLEAN]
    /\ pos \in 0..WindowSize - 1
    /\ full \in BOOLEAN
    /\ recent \in Seq(BOOLEAN)
    /\ Len(recent) = IF full THEN WindowSize ELSE pos
    /\ \A i \in 1..Len(recent) : recent[i] = codes[Place(i)]

LEMMA StepRingInv == RingInv /\ [Breach!Next]_breachVars => RingInv'
<1> SUFFICES ASSUME RingInv, [Breach!Next]_breachVars PROVE RingInv'
    OBVIOUS
<1> USE TablesAssumption DEF Breach!ConfigOK
<1>1. CASE UNCHANGED <<codes, pos, full, recent>>
    BY <1>1 DEF RingInv, Place
<1>2. ASSUME NEW r \in Requests, NEW e \in BOOLEAN, Breach!Record(r, e)
      PROVE  RingInv'
  <2> DEFINE all == Append(recent, e)
  <2>1. /\ codes \in [1..WindowSize -> BOOLEAN] /\ pos \in 0..WindowSize - 1
        /\ full \in BOOLEAN /\ recent \in Seq(BOOLEAN) /\ WindowSize \in Nat \ {0}
        /\ Len(recent) = IF full THEN WindowSize ELSE pos
    BY DEF RingInv
  <2>2. pos' = IF pos = WindowSize - 1 THEN 0 ELSE pos + 1
    <3>1. pos' = (pos + 1) % WindowSize
      BY <1>2 DEF Breach!Record, Breach!Advance
    <3>2. pos % WindowSize = pos
      BY <2>1
    <3>3. (pos + 1) % WindowSize = IF pos % WindowSize = WindowSize - 1
                                      THEN 0 ELSE (pos % WindowSize) + 1
      <4>1. pos \in Nat
        BY <2>1
      <4>. QED
        BY <2>1, <4>1, NextResidue
    <3>. QED
      BY <3>1, <3>2, <3>3
  <2>3. full' \in BOOLEAN /\ (full' <=> full \/ pos = WindowSize - 1)
    <3>1. full' = (full \/ pos' = 0)
      BY <1>2 DEF Breach!Record, Breach!Advance
    <3>2. pos' = 0 <=> pos = WindowSize - 1
      BY <2>1, <2>2
    <3>. QED
      BY <2>1, <3>1, <3>2, Zenon
  <2>4. /\ codes' \in [1..WindowSize -> BOOLEAN]
        /\ \A i \in 1..WindowSize : codes'[i] = IF i = pos + 1 THEN e ELSE codes[i]
    BY <1>2, <2>1 DEF Breach!Record
  <2>5. /\ all \in Seq(BOOLEAN) /\ all # <<>> /\ Len(all) = Len(recent) + 1
        /\ \A i \in 1..Len(recent) + 1 :
              all[i] = IF i = Len(recent) + 1 THEN e ELSE recent[i]
    BY <2>1
  <2>6. recent' = IF Len(all) > WindowSize THEN Tail(all) ELSE all
    BY <1>2 DEF Breach!Record
  <2> HIDE DEF all
  <2>7. CASE full
    <3>1. /\ recent' \in Seq(BOOLEAN) /\ Len(recent') = WindowSize
          /\ \A i \in 1..WindowSize : recent'[i] = all[i + 1]
      <4>1. Len(all) = WindowSize + 1 /\ recent' = Tail(all)
        BY <2>1, <2>5, <2>6, <2>7
      <4>2. /\ Tail(all) \in Seq(BOOLEAN) /\ Len(Tail(all)) = Len(all) - 1
            /\ \A i \in 1..Len(Tail(all)) : Tail(all)[i] = all[i + 1]
        BY <2>5, HeadTailProperties
      <4>. QED
        BY <2>1, <4>1, <4>2
    <3>2. ASSUME NEW i \in 1..WindowSize
          PROVE  recent'[i] = codes'[Place(i)']
      <4>1. Place(i)' = IF i = WindowSize THEN pos + 1 ELSE Place(i + 1)
        <5>1. /\ Place(i)' = IF pos' + i <= WindowSize THEN pos' + i
                                                     ELSE pos' + i - WindowSize
              /\ Place(i + 1) = IF pos + (i + 1) <= WindowSize
                                   THEN pos + (i + 1) ELSE pos + (i + 1) - WindowSize
          BY <2>3, <2>7 DEF Place
        <5>2. CASE pos = WindowSize - 1
          BY <2>1, <2>2, <5>1, <5>2
        <5>3. CASE pos # WindowSize - 1
          BY <2>1, <2>2, <5>1, <5>3
        <5>. QED
          BY <5>2, <5>3
      <4>2. CASE i = WindowSize
        BY <2>1, <2>4, <2>5, <2>7, <3>1, <4>1, <4>2
      <4>3. CASE i # WindowSize
        <5>1. Place(i + 1) \in 1..WindowSize /\ Place(i + 1) # pos + 1
          BY <2>1, <2>7, <4>3 DEF Place
        <5>2. i + 1 \in 1..Len(recent) /\ all[i + 1] = recent[i + 1]
          BY <2>1, <2>5, <2>7, <4>3
        <5>3. recent[i + 1] = codes[Place(i + 1)]
          BY <5>2 DEF RingInv
        <5>. QED
          BY <2>4, <3>1, <4>1, <4>3, <5>1, <5>2, <5>3
      <4>. QED
        BY <4>2, <4>3
    <3>3. pos' \in 0..WindowSize - 1 /\ full'
      BY <2>1, <2>2, <2>3, <2>7
    <3>. QED
      BY <2>3, <2>4, <3>1, <3>2, <3>3 DEF RingInv
  <2>8. CASE ~full
    <3>1. recent' = all /\ Len(all) = pos + 1
      BY <2>1, <2>5, <2>6, <2>8
    <3>2. ASSUME NEW i \in 1..pos + 1
          PROVE  recent'[i] = codes'[Place(i)']
      <4>1. Place(i)' = i
        BY <2>1, <2>2, <2>3, <2>8 DEF Place
      <4>2. CASE i = pos + 1
        BY <2>1, <2>4, <2>5, <2>8, <3>1, <4>1, <4>2
      <4>3. CASE i # pos + 1
        <5>1. i \in 1..Len(recent) /\ Place(i) = i
          BY <2>1, <2>8, <4>3 DEF Place
        <5>2. recent[i] = codes[i]
          BY <5>1 DEF RingInv
        <5>. QED
          BY <2>1, <2>4, <2>5, <2>8, <3>1, <4>1, <4>3, <5>1, <5>2
      <4>. QED
        BY <4>2, <4>3
    <3>3. pos' \in 0..WindowSize - 1 /\ pos + 1 = IF full' THEN WindowSize ELSE pos'
      BY <2>1, <2>2, <2>3, <2>8
    <3>. QED
      BY <2>3, <2>4, <2>5, <3>1, <3>2, <3>3 DEF RingInv
  <2>. QED
    BY <2>1, <2>7, <2>8
<1>3. ASSUME NEW r \in Requests, Breach!Warn(r)
      PROVE  RingInv'
    BY <1>1, <1>3 DEF Breach!Warn
<1>4. CASE Breach!Tick
    BY <1>1, <1>4 DEF Breach!Tick
<1>5. CASE UNCHANGED breachVars
    BY <1>1, <1>5 DEF breachVars
<1>. QED
    BY <1>2, <1>3, <1>4, <1>5 DEF Breach!Next

(* The parts of the ring, put in order, are what was recorded last. *)
LEMMA RingInOrder == RingInv => RingIsRecent
<1> SUFFICES ASSUME RingInv PROVE RingIsRecent
    OBVIOUS
<1> DEFINE last == SubSeq(codes, 1, pos)
           first == SubSeq(codes, pos + 1, WindowSize)
<1>1. /\ WindowSize \in Nat \ {0} /\ codes \in [1..WindowSize -> BOOLEAN]
      /\ pos \in 0..WindowSize - 1 /\ full \in BOOLEAN /\ recent \in Seq(BOOLEAN)
      /\ Len(recent) = IF full THEN WindowSize ELSE pos
      /\ \A i \in 1..Len(recent) : recent[i] = codes[Place(i)]
    BY TablesAssumption DEF RingInv, Breach!ConfigOK
<1>2. /\ last \in Seq(BOOLEAN) /\ Len(last) = pos
      /\ \A i \in 1..pos : last[i] = codes[i]
  <2>1. \A i \in 1..pos : codes[i] \in BOOLEAN
    BY <1>1
  <2>2. 1 \in Int /\ pos \in Int
    BY <1>1
  <2>3. /\ SubSeq(codes, 1, pos) \in Seq(BOOLEAN)
        /\ Len(SubSeq(codes, 1, pos)) = IF 1 <= pos THEN pos - 1 + 1 ELSE 0
        /\ \A i \in 1..pos - 1 + 1 : SubSeq(codes, 1, pos)[i] = codes[1 + i - 1]
    BY <2>1, <2>2, SubSeqProperties
  <2>. QED
    BY <1>1, <2>3
<1>3. /\ first \in Seq(BOOLEAN) /\ Len(first) = WindowSize - pos
      /\ \A i \in 1..WindowSize - pos : first[i] = codes[pos + i]
  <2>1. \A i \in pos + 1..WindowSize : codes[i] \in BOOLEAN
    BY <1>1
  <2>2. pos + 1 \in Int /\ WindowSize \in Int
    BY <1>1
  <2>3. /\ SubSeq(codes, pos + 1, WindowSize) \in Seq(BOOLEAN)
        /\ Len(SubSeq(codes, pos + 1, WindowSize))
             = IF pos + 1 <= WindowSize THEN WindowSize - (pos + 1) + 1 ELSE 0
        /\ \A i \in 1..WindowSize - (pos + 1) + 1 :
              SubSeq(codes, pos + 1, WindowSize)[i] = codes[pos + 1 + i - 1]
    BY <2>1, <2>2, SubSeqProperties
  <2>. QED
    BY <1>1, <2>3
<1> HIDE DEF first, last
<1>4. CASE full
  <2>1. /\ first \o last \in Seq(BOOLEAN) /\ Len(first \o last) = WindowSize
        /\ \A i \in 1..WindowSize :
              (first \o last)[i] = IF i <= WindowSize - pos
                                      THEN first[i] ELSE last[i - (WindowSize - pos)]
    <3>1. /\ first \o last \in Seq(BOOLEAN)
          /\ Len(first \o last) = Len(first) + Len(last)
          /\ \A i \in 1..Len(first) + Len(last) :
                (first \o last)[i] = IF i <= Len(first) THEN first[i]
                                                       ELSE last[i - Len(first)]
      BY <1>2, <1>3, ConcatProperties
    <3>2. Len(first) + Len(last) = WindowSize
      BY <1>1, <1>2, <1>3
    <3>. QED
      BY <1>3, <3>1, <3>2
  <2>2. ASSUME NEW i \in 1..WindowSize
        PROVE  recent[i] = (first \o last)[i]
    <3>1. recent[i] = codes[IF pos + i <= WindowSize THEN pos + i
                                                    ELSE pos + i - WindowSize]
      BY <1>1, <1>4 DEF Place
    <3>2. CASE i <= WindowSize - pos
      BY <1>1, <1>3, <2>1, <3>1, <3>2
    <3>3. CASE ~(i <= WindowSize - pos)
      <4>1. i - (WindowSize - pos) = pos + i - WindowSize
        BY <1>1
      <4>2. pos + i - WindowSize \in 1..pos
        BY <1>1, <3>3
      <4>. QED
        BY <1>1, <1>2, <2>1, <3>1, <3>3, <4>1, <4>2
    <3>. QED
      BY <3>2, <3>3
  <2>3. recent = first \o last
    BY <1>1, <1>4, <2>1, <2>2, SeqEqual
  <2>. QED
    BY <1>4, <2>3 DEF RingIsRecent, Breach!RingIsRecent, first, last
<1>5. CASE ~full
  <2>1. \A i \in 1..pos : recent[i] = last[i]
    BY <1>1, <1>2, <1>5 DEF Place
  <2>2. recent = last
    BY <1>1, <1>2, <1>5, <2>1, SeqEqual
  <2>. QED
    BY <1>5, <2>2 DEF RingIsRecent, Breach!RingIsRecent, last
<1>. QED
    BY <1>1, <1>4, <1>5

LEMMA InitRingInv == Breach!Init => RingInv
<1> SUFFICES ASSUME Breach!Init PROVE RingInv
    OBVIOUS
<1>1. recent \in Seq(BOOLEAN) /\ Len(recent) = 0 /\ full = FALSE /\ pos = 0
    BY EmptySeq DEF Breach!Init
<1>2. codes \in [1..WindowSize -> BOOLEAN] /\ 0 \in 0..WindowSize - 1
    BY TablesAssumption DEF Breach!Init, Breach!ConfigOK
<1>3. \A i \in 1..Len(recent) : recent[i] = codes[Place(i)]
    BY <1>1
<1>. QED
    BY <1>1, <1>2, <1>3 DEF RingInv

(* A ring of any size holds the results that were recorded last, in order. *)
THEOREM RingHoldsTheLast == Breach!Spec => []RingIsRecent
<1>. QED
    BY InitRingInv, StepRingInv, RingInOrder, PTL DEF Breach!Spec, breachVars, Breach!vars

-----------------------------------------------------------------------------
(* ResponseCache: a response read during a fetch became stale after the    *)
(* fetch began, and a stored one no longer before its entry was set than   *)
(* its fetch may have taken.                                               *)
EntryOK(entry) ==
    entry \in Cache!Entry /\ entry.stale <= entry.age + MaxFetch + 1

FetchOK(fetch) ==
    fetch \in Cache!Fetch /\ fetch.stale <= fetch.time + 1

AgeInv ==
    /\ DOMAIN entries \subseteq Uris
    /\ \A k \in DOMAIN entries : EntryOK(entries[k])
    /\ \A r \in DOMAIN fetches : FetchOK(fetches[r])

(* A map that lost some entries. *)
LEMMA OnlySome ==
    ASSUME NEW f, NEW S
    PROVE  /\ DOMAIN Cache!Only(f, S) = S
           /\ \A z \in S : Cache!Only(f, S)[z] = f[z]
    BY DEF Cache!Only

(* The records that the actions make. *)
LEMMA NewFetch ==
    ASSUME NEW k \in Uris
    PROVE  FetchOK([key |-> k, time |-> 0, read |-> FALSE, stale |-> 0])
    BY TablesAssumption DEF FetchOK, Cache!Fetch, Cache!Horizon, Cache!ConfigOK

LEMMA NewEntry ==
    ASSUME NEW fetch, FetchOK(fetch)
    PROVE  EntryOK([age |-> 0, stale |-> fetch.stale])
    BY TablesAssumption
    DEF FetchOK, EntryOK, Cache!Fetch, Cache!Entry, Cache!Horizon, Cache!ConfigOK

LEMMA StaleEntry ==
    ASSUME NEW entry, EntryOK(entry)
    PROVE  EntryOK([entry EXCEPT !.stale = 1])
<1>1. entry \in Cache!Entry /\ entry.age \in Nat
    BY TablesAssumption DEF EntryOK, Cache!Entry, Cache!ConfigOK
<1>2. 1 \in 0..Cache!Horizon
    BY TablesAssumption DEF Cache!Horizon, Cache!ConfigOK
<1>3. /\ [entry EXCEPT !.stale = 1] \in Cache!Entry
      /\ [entry EXCEPT !.stale = 1].stale = 1
      /\ [entry EXCEPT !.stale = 1].age = entry.age
    BY <1>1, <1>2 DEF Cache!Entry
<1>. QED
    BY <1>1, <1>3, TablesAssumption DEF EntryOK, Cache!ConfigOK

LEMMA StaleFetch ==
    ASSUME NEW fetch, FetchOK(fetch)
    PROVE  /\ FetchOK([fetch EXCEPT !.stale = 1])
           /\ FetchOK([fetch EXCEPT !.read = TRUE])
<1>1. fetch \in Cache!Fetch /\ fetch.time \in Nat /\ fetch.stale <= fetch.time + 1
    BY TablesAssumption DEF FetchOK, Cache!Fetch, Cache!ConfigOK
<1>2. 1 \in 0..Cache!Horizon
    BY TablesAssumption DEF Cache!Horizon, Cache!ConfigOK
<1>3. /\ [fetch EXCEPT !.stale = 1] \in Cache!Fetch
      /\ [fetch EXCEPT !.stale = 1].stale = 1
      /\ [fetch EXCEPT !.stale = 1].time = fetch.time
    BY <1>1, <1>2 DEF Cache!Fetch
<1>4. /\ [fetch EXCEPT !.read = TRUE] \in Cache!Fetch
      /\ [fetch EXCEPT !.read = TRUE].stale = fetch.stale
      /\ [fetch EXCEPT !.read = TRUE].time = fetch.time
    BY <1>1 DEF Cache!Fetch
<1>. QED
    BY <1>1, <1>3, <1>4 DEF FetchOK

LEMMA OlderWithinHorizon ==
    ASSUME NEW n \in 0..Cache!Horizon
    PROVE  Cache!Older(n) \in 0..Cache!Horizon /\ Cache!Older(n) <= n + 1
    BY TablesAssumption DEF Cache!Older, Cache!Horizon, Cache!ConfigOK

LEMMA OlderEntry ==
    ASSUME NEW entry, EntryOK(entry)
    PROVE  EntryOK([age |-> IF entry.age <= CacheTTL THEN entry.age + 1 ELSE CacheTTL + 1,
                    stale |-> Cache!Older(entry.stale)])
<1> DEFINE age == IF entry.age <= CacheTTL THEN entry.age + 1 ELSE CacheTTL + 1
           stale == Cache!Older(entry.stale)
<1>1. CacheTTL \in Nat /\ MaxFetch \in Nat /\ Cache!Horizon = CacheTTL + MaxFetch + 2
    BY TablesAssumption DEF Cache!Horizon, Cache!ConfigOK
<1>2. /\ entry.age \in 0..CacheTTL + 1 /\ entry.stale \in 0..Cache!Horizon
      /\ entry.stale <= entry.age + MaxFetch + 1
    BY DEF EntryOK, Cache!Entry
<1>3. stale \in 0..Cache!Horizon /\ stale <= entry.stale + 1
    BY <1>2, OlderWithinHorizon
<1> HIDE DEF stale
<1>4. age \in 0..CacheTTL + 1 /\ stale <= age + MaxFetch + 1
    BY <1>1, <1>2, <1>3
<1> HIDE DEF age
<1>5. EntryOK([age |-> age, stale |-> stale])
    BY <1>3, <1>4 DEF EntryOK, Cache!Entry
<1>. QED
    BY <1>5 DEF age, stale

LEMMA OlderFetch ==
    ASSUME NEW fetch, FetchOK(fetch), fetch.time < MaxFetch
    PROVE  FetchOK([fetch EXCEPT !.time = @ + 1, !.stale = Cache!Older(@)])
<1> DEFINE new == [fetch EXCEPT !.time = @ + 1, !.stale = Cache!Older(@)]
<1>1. /\ MaxFetch \in Nat /\ fetch \in Cache!Fetch
      /\ fetch.time \in 0..MaxFetch /\ fetch.stale \in 0..Cache!Horizon
      /\ fetch.stale <= fetch.time + 1
    BY TablesAssumption DEF FetchOK, Cache!Fetch, Cache!ConfigOK
<1>2. /\ Cache!Older(fetch.stale) \in 0..Cache!Horizon
      /\ Cache!Older(fetch.stale) <= fetch.stale + 1
    BY <1>1, OlderWithinHorizon
<1>3. fetch.time + 1 \in 0..MaxFetch
    BY <1>1
<1>4. /\ new \in Cache!Fetch /\ new.time = fetch.time + 1
      /\ new.stale = Cache!Older(fetch.stale)
    BY <1>1, <1>2, <1>3 DEF Cache!Fetch
<1>5. Cache!Older(fetch.stale) <= fetch.time + 1 + 1
  <2>1. Cache!Horizon \in Nat
    BY TablesAssumption DEF Cache!Horizon, Cache!ConfigOK
  <2>. QED
    BY <1>1, <1>2, <2>1
<1> HIDE DEF new
<1>6. FetchOK(new)
    BY <1>4, <1>5 DEF FetchOK
<1>. QED
    BY <1>6 DEF new

LEMMA StepAgeInv == AgeInv /\ [Cache!Next]_cacheVars => AgeInv'
<1> SUFFICES ASSUME AgeInv, [Cache!Next]_cacheVars PROVE AgeInv'
    OBVIOUS
<1> USE DEF AgeInv
<1>1. CASE UNCHANGED cacheVars
    BY <1>1 DEF cacheVars
<1>2. ASSUME NEW r \in Requests, NEW k \in Uris, Cache!Hit(r, k)
      PROVE  AgeInv'
    BY <1>1, <1>2 DEF Cache!Hit, Cache!vars, cacheVars
<1>3. ASSUME NEW r \in Requests, NEW k \in Uris, Cache!Miss(r, k)
      PROVE  AgeInv'
  <2> DEFINE new == [key |-> k, time |-> 0, read |-> FALSE, stale |-> 0]
  <2>1. /\ entries' = Cache!Only(entries, DOMAIN entries \ {k})
        /\ fetches' = Cache!With(fetches, r, new)
    BY <1>3 DEF Cache!Miss
  <2>2. FetchOK(new)
    BY NewFetch
  <2> HIDE DEF new
  <2>3. \A q \in DOMAIN fetches' : FetchOK(fetches'[q])
    <3>1. /\ DOMAIN fetches' = DOMAIN fetches \union {r}
          /\ \A q \in DOMAIN fetches \union {r} :
                fetches'[q] = IF q = r THEN new ELSE fetches[q]
      BY <2>1 DEF Cache!With
    <3>. QED
      BY <2>2, <3>1
  <2>4. DOMAIN entries' \subseteq Uris /\ \A q \in DOMAIN entries' : EntryOK(entries'[q])
    BY <2>1, OnlySome
  <2>. QED
    BY <2>3, <2>4
<1>4. ASSUME NEW r \in Requests, Cache!Read(r)
      PROVE  AgeInv'
  <2>1. /\ DOMAIN fetches' = DOMAIN fetches
        /\ \A q \in DOMAIN fetches :
              fetches'[q] = IF q = r THEN [fetches[q] EXCEPT !.read = TRUE] ELSE fetches[q]
    BY <1>4 DEF Cache!Read
  <2>2. \A q \in DOMAIN fetches' : FetchOK(fetches'[q])
    BY <2>1, StaleFetch
  <2>. QED
    BY <1>4, <2>2 DEF Cache!Read
<1>5. ASSUME NEW r \in Requests, Cache!NotCached(r)
      PROVE  AgeInv'
  <2>1. fetches' = Cache!Only(fetches, DOMAIN fetches \ {r}) /\ UNCHANGED entries
    BY <1>5 DEF Cache!NotCached, Cache!EndFetch
  <2>. QED
    BY <2>1, OnlySome
<1>6. ASSUME NEW r \in Requests, Cache!Store(r)
      PROVE  AgeInv'
  <2> DEFINE new == [age |-> 0, stale |-> fetches[r].stale]
  <2>1. PICK kept \in SUBSET DOMAIN entries :
           entries' = Cache!With(Cache!Only(entries, kept), fetches[r].key, new)
    BY <1>6 DEF Cache!Store, Cache!Kept
  <2>2. /\ r \in DOMAIN fetches
        /\ fetches' = Cache!Only(fetches, DOMAIN fetches \ {r})
    BY <1>6 DEF Cache!Store, Cache!EndFetch
  <2>3. FetchOK(fetches[r])
    BY <2>2
  <2>4. EntryOK(new) /\ fetches[r].key \in Uris
    BY <2>3, NewEntry DEF FetchOK, Cache!Fetch
  <2> HIDE DEF new
  <2>5. /\ DOMAIN entries' = kept \union {fetches[r].key}
        /\ \A k \in DOMAIN entries' :
              entries'[k] = IF k = fetches[r].key THEN new ELSE entries[k]
    <3> DEFINE rest == Cache!Only(entries, kept)
    <3>1. DOMAIN rest = kept /\ \A k \in kept : rest[k] = entries[k]
      BY OnlySome
    <3> HIDE DEF rest
    <3>2. entries' = Cache!With(rest, fetches[r].key, new)
      BY <2>1 DEF rest
    <3>3. /\ DOMAIN entries' = DOMAIN rest \union {fetches[r].key}
          /\ \A k \in DOMAIN rest \union {fetches[r].key} :
                entries'[k] = IF k = fetches[r].key THEN new ELSE rest[k]
      BY <3>2 DEF Cache!With
    <3>. QED
      BY <3>1, <3>3
  <2>6. DOMAIN entries' \subseteq Uris /\ \A k \in DOMAIN entries' : EntryOK(entries'[k])
    BY <2>4, <2>5
  <2>. QED
    BY <2>2, <2>6, OnlySome
<1>7. ASSUME NEW k \in Uris, Cache!Publish(k)
      PROVE  AgeInv'
  <2>1. /\ DOMAIN entries' = DOMAIN entries
        /\ \A q \in DOMAIN entries :
              \/ entries'[q] = entries[q]
              \/ entries'[q] = [entries[q] EXCEPT !.stale = 1]
    BY <1>7 DEF Cache!Publish
  <2>2. /\ DOMAIN fetches' = DOMAIN fetches
        /\ \A q \in DOMAIN fetches :
              \/ fetches'[q] = fetches[q]
              \/ fetches'[q] = [fetches[q] EXCEPT !.stale = 1]
    BY <1>7 DEF Cache!Publish
  <2>. QED
    <3>1. \A q \in DOMAIN entries' : EntryOK(entries'[q])
      BY <2>1, StaleEntry
    <3>2. \A q \in DOMAIN fetches' : FetchOK(fetches'[q])
      BY <2>2, StaleFetch
    <3>. QED
      BY <2>1, <3>1, <3>2
<1>8. CASE Cache!Tick
  <2>1. /\ DOMAIN entries' = DOMAIN entries
        /\ \A k \in DOMAIN entries :
              entries'[k] = [age |-> IF entries[k].age <= CacheTTL
                                        THEN entries[k].age + 1 ELSE CacheTTL + 1,
                             stale |-> Cache!Older(entries[k].stale)]
    BY <1>8 DEF Cache!Tick, Cache!Usable
  <2>2. /\ DOMAIN fetches' = DOMAIN fetches
        /\ \A r \in DOMAIN fetches :
              /\ fetches[r].time < MaxFetch
              /\ fetches'[r] = [fetches[r] EXCEPT !.time = @ + 1,
                                                  !.stale = Cache!Older(@)]
    BY <1>8 DEF Cache!Tick
  <2>3. \A k \in DOMAIN entries' : EntryOK(entries'[k])
    BY <2>1, OlderEntry
  <2>4. \A r \in DOMAIN fetches' : FetchOK(fetches'[r])
    BY <2>2, OlderFetch
  <2>. QED
    BY <2>1, <2>3, <2>4
<1>. QED
    BY <1>1, <1>2, <1>3, <1>4, <1>5, <1>6, <1>7, <1>8 DEF Cache!Next

(* Whatever fills overlap, no response is served longer after upstream     *)
(* replaced it than the TTL and the time of one fetch.                     *)
THEOREM StalenessIsBounded == Cache!Spec => []StalenessBound
<1>1. Cache!Init => AgeInv
    BY DEF Cache!Init, AgeInv
<1>2. AgeInv => StalenessBound
  <2> SUFFICES ASSUME AgeInv, NEW k \in Uris, Cache!Usable(k)
               PROVE  entries[k].stale <= CacheTTL + MaxFetch + 1
    BY DEF StalenessBound, Cache!StalenessBound
  <2>1. k \in DOMAIN entries /\ entries[k].age <= CacheTTL
    BY DEF Cache!Usable
  <2>2. /\ entries[k].age \in Nat /\ entries[k].stale \in Nat
        /\ entries[k].stale <= entries[k].age + MaxFetch + 1
    BY <2>1, TablesAssumption
    DEF AgeInv, EntryOK, Cache!Entry, Cache!Horizon, Cache!ConfigOK
  <2>. QED
    BY <2>1, <2>2, TablesAssumption DEF Cache!ConfigOK
<1>. QED
    BY <1>1, <1>2, StepAgeInv, PTL DEF Cache!Spec, cacheVars, Cache!vars

-----------------------------------------------------------------------------
(* The type invariants, each from the invariant above.  Metrics: the bound *)
(* on the requests recorded bounds all of the counters.                    *)
LEMMA CountBounds ==
    ASSUME CountInv
    PROVE  /\ counts["ok"] \in 0..total /\ counts["error"] \in 0..total
           /\ spent \in 0..total /\ errors \in 0..total
<1> DEFINE recording == Cardinality(AtStep(Recording))
           failing == Cardinality(FailingAt({"counts"}))
           adding == Cardinality(AtStep({"duration"}))
<1>1. recording \in Nat /\ failing \in Nat /\ adding \in Nat
    BY AtStepFinite
<1>2. failing <= recording
  <2>1. IsFiniteSet(AtStep(Recording))
    BY AtStepFinite
  <2>2. FailingAt({"counts"}) \subseteq AtStep(Recording)
    BY DEF FailingAt, AtStep, Recording
  <2>. QED
    BY <2>1, <2>2, FS_Subset
<1>3. counts["ok"] \in Nat /\ counts["error"] \in Nat
    BY DEF CountInv, Metrics!Statuses
<1>4. /\ total \in Nat /\ spent \in Nat /\ errors \in Nat
      /\ total = counts["ok"] + counts["error"] + recording
      /\ total = spent + adding
      /\ errors = counts["error"] + failing
    BY DEF CountInv
<1> HIDE DEF recording, failing, adding
<1>. QED
    BY <1>1, <1>2, <1>3, <1>4

MetricsInv ==
    /\ CountInv
    /\ total \in 0..MaxRequests
    /\ scrape \in {"idle", "errors", "duration"}
    /\ shown \in [total : 0..MaxRequests, errors : 0..MaxRequests]

LEMMA StepMetricsInv == MetricsInv /\ [Metrics!Next]_metricsVars => MetricsInv'
<1> SUFFICES ASSUME MetricsInv, [Metrics!Next]_metricsVars PROVE MetricsInv'
    OBVIOUS
<1>1. MaxRequests \in Nat
    BY TablesAssumption DEF Metrics!ConfigOK
<1>2. total \in 0..MaxRequests /\ errors \in 0..MaxRequests
  <2>1. total \in 0..MaxRequests /\ errors \in 0..total
    BY CountBounds DEF MetricsInv
  <2>. QED
    BY <1>1, <2>1
<1>3. CountInv'
    BY StepCountInv DEF MetricsInv
<1>4. CASE UNCHANGED metricsVars
    BY <1>3, <1>4 DEF metricsVars, MetricsInv
<1>5. ASSUME NEW r \in Requests, NEW s \in Metrics!Statuses, Metrics!AddRequest(r, s)
      PROVE  MetricsInv'
    BY <1>1, <1>2, <1>3, <1>5 DEF Metrics!AddRequest, MetricsInv
<1>6. ASSUME NEW r \in Requests,
             Metrics!AddDuration(r) \/ Metrics!AddError(r) \/ Metrics!AddStatus(r)
      PROVE  MetricsInv'
    BY <1>2, <1>3, <1>6
    DEF Metrics!AddDuration, Metrics!AddError, Metrics!AddStatus, MetricsInv
<1>7. CASE Metrics!LoadTotal \/ Metrics!LoadErrors \/ Metrics!Show
    BY <1>2, <1>3, <1>7 DEF Metrics!LoadTotal, Metrics!LoadErrors, Metrics!Show, MetricsInv
<1>. QED
    BY <1>4, <1>5, <1>6, <1>7 DEF Metrics!Next

LEMMA MetricsTypes == Metrics!Spec => []Metrics!TypeOK
<1>1. Metrics!Init => MetricsInv
  <2>1. Metrics!Init => CountInv
    BY InitCountInv
  <2>. QED
    BY <2>1, TablesAssumption DEF Metrics!Init, MetricsInv, Metrics!ConfigOK
<1>2. MetricsInv => Metrics!TypeOK
  <2> SUFFICES ASSUME MetricsInv PROVE Metrics!TypeOK
    OBVIOUS
  <2>1. CountInv /\ MaxRequests \in Nat /\ total \in 0..MaxRequests
    BY TablesAssumption DEF MetricsInv, Metrics!ConfigOK
  <2>2. /\ counts["ok"] \in 0..total /\ counts["error"] \in 0..total
        /\ spent \in 0..total /\ errors \in 0..total
    BY <2>1, CountBounds
  <2>3. {total, errors, spent} \subseteq 0..MaxRequests
    BY <2>1, <2>2
  <2>4. counts \in [Metrics!Statuses -> 0..MaxRequests]
    <3>1. counts["ok"] \in 0..MaxRequests /\ counts["error"] \in 0..MaxRequests
      BY <2>1, <2>2
    <3>2. counts \in [{"ok", "error"} -> Nat]
      BY <2>1 DEF CountInv, Metrics!Statuses
    <3>. QED
      BY <3>1, <3>2 DEF Metrics!Statuses
  <2>5. /\ step \in [Requests -> {"idle", "duration", "error", "counts"}]
        /\ result \in [Requests -> Metrics!Statuses]
    BY <2>1 DEF CountInv, Recording
  <2>. QED
    BY <2>3, <2>4, <2>5 DEF MetricsInv, Metrics!TypeOK
<1>. QED
    BY <1>1, <1>2, StepMetricsInv, PTL DEF Metrics!Spec, metricsVars, Metrics!vars

-----------------------------------------------------------------------------
(* ResponseCache: a full map loses an entry before it gets one.            *)
Room == IF MaxEntries = 0 THEN 1 ELSE MaxEntries

SizeInv ==
    /\ IsFiniteSet(DOMAIN entries)
    /\ Cardinality(DOMAIN entries) <= Room
    /\ DOMAIN fetches \subseteq Requests

(* The instance has its own copy of Cardinality.                           *)
LEMMA CacheSets == \A S : Cache!Cardinality(S) = Cardinality(S)
<1> SUFFICES ASSUME NEW S PROVE Cache!Cardinality(S) = Cardinality(S)
    OBVIOUS
<1>. QED
    BY Zenon DEF Cache!Cardinality, Cardinality

LEMMA StepSizeInv == SizeInv /\ [Cache!Next]_cacheVars => SizeInv'
<1> SUFFICES ASSUME SizeInv, [Cache!Next]_cacheVars PROVE SizeInv'
    OBVIOUS
<1>1. /\ MaxEntries \in Nat /\ Room \in Nat
      /\ IsFiniteSet(DOMAIN entries) /\ Cardinality(DOMAIN entries) \in Nat
      /\ Cardinality(DOMAIN entries) <= Room
    BY TablesAssumption, FS_CardinalityType DEF Cache!ConfigOK, Room, SizeInv
<1>2. CASE DOMAIN entries' = DOMAIN entries /\ DOMAIN fetches' \subseteq DOMAIN fetches
    BY <1>2 DEF SizeInv, Room
<1>3. CASE UNCHANGED cacheVars
    BY <1>2, <1>3 DEF cacheVars
<1>4. ASSUME NEW r \in Requests, NEW k \in Uris, Cache!Hit(r, k)
      PROVE  SizeInv'
    BY <1>2, <1>4 DEF Cache!Hit, Cache!vars
<1>5. ASSUME NEW r \in Requests, NEW k \in Uris, Cache!Miss(r, k)
      PROVE  SizeInv'
  <2>1. /\ DOMAIN entries' = DOMAIN entries \ {k}
        /\ DOMAIN fetches' = DOMAIN fetches \union {r}
    BY <1>5 DEF Cache!Miss, Cache!Only, Cache!With
  <2>2. /\ IsFiniteSet(DOMAIN entries \ {k})
        /\ Cardinality(DOMAIN entries \ {k}) \in Nat
        /\ Cardinality(DOMAIN entries \ {k}) <= Cardinality(DOMAIN entries)
    BY <1>1, FS_Subset, FS_CardinalityType
  <2>3. Cardinality(DOMAIN entries \ {k}) <= Room
    BY <1>1, <2>2
  <2>. QED
    BY <2>1, <2>2, <2>3 DEF SizeInv, Room
<1>6. ASSUME NEW r \in Requests, Cache!Read(r) \/ Cache!NotCached(r)
      PROVE  SizeInv'
    BY <1>2, <1>6 DEF Cache!Read, Cache!NotCached, Cache!EndFetch, Cache!Only
<1>7. ASSUME NEW r \in Requests, Cache!Store(r)
      PROVE  SizeInv'
  <2> DEFINE held == DOMAIN entries
             key == fetches[r].key
  <2>1. PICK kept \in Cache!Kept : DOMAIN entries' = kept \union {key}
    BY <1>7 DEF Cache!Store, Cache!Only, Cache!With
  <2>2. DOMAIN fetches' \subseteq DOMAIN fetches
    BY <1>7 DEF Cache!Store, Cache!EndFetch, Cache!Only
  <2>3. IsFiniteSet(kept) /\ Cardinality(kept) \in Nat /\ Cardinality(kept) + 1 <= Room
    <3>1. CASE Cardinality(held) >= MaxEntries /\ held # {}
      <4>1. PICK v \in held : kept = held \ {v}
        BY <3>1, CacheSets DEF Cache!Kept
      <4>2. IsFiniteSet(kept) /\ Cardinality(kept) = Cardinality(held) - 1
        BY <1>1, <4>1, FS_RemoveElement
      <4>3. Cardinality(kept) \in Nat
        BY <4>2, FS_CardinalityType
      <4>. QED
        BY <1>1, <4>2, <4>3
    <3>2. CASE ~(Cardinality(held) >= MaxEntries /\ held # {})
      <4>1. kept = held
        BY <3>2, CacheSets DEF Cache!Kept
      <4>2. CASE held = {}
        <5>1. Cardinality(held) = 0
          BY <4>2, FS_EmptySet
        <5>. QED
          BY <1>1, <4>1, <5>1 DEF Room
      <4>3. CASE Cardinality(held) < MaxEntries
        BY <1>1, <4>1, <4>3 DEF Room
      <4>4. held = {} \/ Cardinality(held) < MaxEntries
        <5> HIDE DEF held
        <5>1. Cardinality(held) \in Nat /\ MaxEntries \in Nat
          BY <1>1 DEF held
        <5>. QED
          BY <3>2, <5>1
      <4>. QED
        BY <4>2, <4>3, <4>4
    <3>. QED
      BY <3>1, <3>2
  <2>4. /\ IsFiniteSet(kept \union {key}) /\ Cardinality(kept \union {key}) \in Nat
        /\ \/ Cardinality(kept \union {key}) = Cardinality(kept)
           \/ Cardinality(kept \union {key}) = Cardinality(kept) + 1
    BY <2>3, FS_AddElement, FS_CardinalityType
  <2>5. Cardinality(kept \union {key}) <= Room
    BY <1>1, <2>3, <2>4
  <2>. QED
    BY <2>1, <2>2, <2>4, <2>5 DEF SizeInv, Room
<1>8. ASSUME NEW k \in Uris, Cache!Publish(k)
      PROVE  SizeInv'
    BY <1>2, <1>8 DEF Cache!Publish
<1>9. CASE Cache!Tick
    BY <1>2, <1>9 DEF Cache!Tick
<1>. QED
    BY <1>3, <1>4, <1>5, <1>6, <1>7, <1>8, <1>9 DEF Cache!Next

LEMMA CacheTypes == Cache!Spec => []Cache!TypeOK
<1>1. Cache!Init => AgeInv /\ SizeInv
    BY TablesAssumption, FS_EmptySet
    DEF Cache!Init, AgeInv, SizeInv, Room, Cache!ConfigOK
<1>2. AgeInv /\ SizeInv => Cache!TypeOK
    BY CacheSets
    DEF AgeInv, SizeInv, Room, Cache!TypeOK, EntryOK, FetchOK
<1>. QED
    BY <1>1, <1>2, StepAgeInv, StepSizeInv, PTL DEF Cache!Spec, cacheVars, Cache!vars

-----------------------------------------------------------------------------
(* BreachLog, and those whose invariant says it. *)
LEMMA BreachTypes == Breach!Spec => []Breach!TypeOK
<1> DEFINE WarningInv == warning \subseteq Requests
<1>1. Breach!Init => RingInv /\ GapInv /\ WarningInv
    BY InitRingInv, InitGapInv DEF Breach!Init
<1>2. WarningInv /\ [Breach!Next]_breachVars => WarningInv'
    BY DEF breachVars, Breach!Next, Breach!Record, Breach!Warn, Breach!Tick
<1>3. RingInv /\ GapInv /\ WarningInv => Breach!TypeOK
    BY TablesAssumption DEF RingInv, GapInv, Breach!TypeOK, Breach!ConfigOK
<1>. QED
    BY <1>1, <1>2, <1>3, StepRingInv, StepGapInv, PTL DEF Breach!Spec, breachVars, Breach!vars

LEMMA DedupeTypes == Dedupe!Spec => []Dedupe!TypeOK
<1>1. FreshInv => Dedupe!TypeOK
    BY DEF FreshInv
<1>. QED
    BY <1>1, InitFreshInv, StepFreshInv, PTL DEF Dedupe!Spec, dedupeVars, Dedupe!vars

LEMMA BalancerTypes == Balancer!Spec => []Balancer!TypeOK
<1>1. RoundInv => Balancer!TypeOK
    BY DEF RoundInv
<1>. QED
    BY <1>1, InitRoundInv, StepRoundInv, PTL DEF Balancer!Spec, balancerVars, Balancer!vars

LEMMA CompressTypes == Compress!Spec => []Compress!TypeOK
<1>1. WriterInv => Compress!TypeOK
    BY DEF WriterInv
<1>. QED
    BY <1>1, InitWriterInv, StepWriterInv, PTL DEF Compress!Spec, compressVars, Compress!vars

LEMMA FailoverTypes == Failover!Spec => []Failover!TypeOK
<1>1. LoopInv => Failover!TypeOK
    BY DEF LoopInv
<1>. QED
    BY <1>1, InitLoopInv, StepLoopInv, PTL DEF Failover!Spec, failoverVars, Failover!vars
=============================================================================
