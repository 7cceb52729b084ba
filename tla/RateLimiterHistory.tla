-------------------------- MODULE RateLimiterHistory --------------------------
(***************************************************************************)
(* RateLimiter with history variables: how many requests each key was      *)
(* granted, in total, at one arbitrary moment (the start of a window), and *)
(* when its bucket was last full.                                          *)
(***************************************************************************)
EXTENDS RateLimiter

VARIABLES
    granted,     \* granted[k]: requests of k allowed so far
    markTime,    \* the start of the window
    markGranted, \* granted at that moment
    fullTime,    \* fullTime[k]: when k's bucket was last found full
    fullGranted  \* fullGranted[k]: granted[k] at that moment

windowVars == <<markTime, markGranted>>
fullVars == <<fullTime, fullGranted>>
allVars == <<vars, granted, windowVars, fullVars>>

HTypeOK ==
    /\ TypeOK
    /\ granted \in [Keys -> Nat]
    /\ markTime \in 0..MaxTime
    /\ markGranted \in [Keys -> Nat]
    /\ fullTime \in [Keys -> 0..MaxTime]
    /\ fullGranted \in [Keys -> Nat]

HInit ==
    /\ Init
    /\ granted = [k \in Keys |-> 0]
    /\ markTime = 0
    /\ markGranted = [k \in Keys |-> 0]
    /\ fullTime = [k \in Keys |-> 0]
    /\ fullGranted = [k \in Keys |-> 0]

(* A window begins: any moment may be the one. *)
Mark ==
    /\ markTime = 0
    /\ markTime' = clock
    /\ markGranted' = granted
    /\ UNCHANGED <<vars, granted, fullVars>>

NoteFull(k, isFull) ==
    /\ fullTime' = IF isFull THEN [fullTime EXCEPT ![k] = clock] ELSE fullTime
    /\ fullGranted' = IF isFull THEN [fullGranted EXCEPT ![k] = granted[k]]
                                ELSE fullGranted

HCreate(r, k) ==
    /\ Create(r, k)
    /\ NoteFull(k, TRUE)
    /\ UNCHANGED <<granted, windowVars>>

HGrant(r, k) ==
    /\ Grant(r, k)
    /\ granted' = [granted EXCEPT ![k] = @ + 1]
    /\ NoteFull(k, Refilled(k) = Full)
    /\ UNCHANGED windowVars

HDeny(r, k) ==
    /\ Deny(r, k)
    /\ NoteFull(k, Refilled(k) = Full)
    /\ UNCHANGED <<granted, windowVars>>

HNext ==
    \/ Mark
    \/ Tick /\ UNCHANGED <<granted, windowVars, fullVars>>
    \/ \E r \in Requests, k \in Keys :
          \/ Find(r, k) /\ UNCHANGED <<granted, windowVars, fullVars>>
          \/ HCreate(r, k)
          \/ HGrant(r, k)
          \/ HDeny(r, k)

HSpec == HInit /\ [][HNext]_allVars

-----------------------------------------------------------------------------
(* The promise of the limiter: in any window, whenever it starts, a key is *)
(* granted at most the burst plus what the rate brings in the meantime,    *)
(* however its requests overlap.                                           *)
WindowBound ==
    \A k \in Keys :
        Unit * (granted[k] - markGranted[k]) <= Full + Rate * (clock - markTime)

(* Its converse: a request is refused only when the key has used up, since *)
(* its bucket was last full, all the burst and all that time has brought,  *)
(* to less than one token.  No refill is lost to rounding or to a refusal. *)
DenialIsEarned ==
    [][\A r \in Requests, k \in Keys :
         Deny(r, k) =>
            Unit * (granted[k] + 1 - fullGranted'[k])
                > Full + Rate * (clock - fullTime'[k])]_allVars

(* What makes WindowBound inductive: a bucket once found stays; at its     *)
(* last refill, the tokens left and those granted in the window were       *)
(* together within the bound; and no token was granted in a window that    *)
(* began after it.                                                         *)
WindowInv ==
    /\ HTypeOK
    /\ markTime <= clock
    /\ \A r \in Requests : looking[r] \subseteq buckets
    /\ \A k \in Keys :
        /\ lastRefil[k] <= clock
        /\ markGranted[k] <= granted[k]
        /\ k \notin buckets \/ lastRefil[k] < markTime
              => granted[k] = markGranted[k]
        /\ lastRefil[k] >= markTime
              => tokens[k] + Unit * (granted[k] - markGranted[k])
                    <= Full + Rate * (lastRefil[k] - markTime)
=============================================================================
