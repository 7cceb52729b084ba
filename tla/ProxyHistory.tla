---------------------------- MODULE ProxyHistory ----------------------------
(***************************************************************************)
(* Proxy with history variables: which requests contributed to the current *)
(* run of failures.                                                        *)
(***************************************************************************)
EXTENDS Proxy

VARIABLES
    struck,  \* struck[r]: r's current request failed since the last success
    strikers \* requests in the current run of failures, counted up to 2

strikeVars == <<struck, strikers>>
phVars == <<proxyVars, strikeVars>>

PHInit ==
    /\ PInit
    /\ struck = [r \in Callers |-> FALSE]
    /\ strikers = 0

PHArrive(r) ==
    /\ Arrive(r)
    /\ struck' = [struck EXCEPT ![r] = FALSE]
    /\ UNCHANGED strikers

PHFail(r) ==
    /\ RetryLater(r) \/ GiveUp(r)
    /\ struck' = [struck EXCEPT ![r] = TRUE]
    /\ strikers' = IF struck[r] THEN strikers ELSE AtMost(strikers + 1, 2)

PHForwardOK(r) ==
    /\ ForwardOK(r)
    /\ struck' = [q \in Callers |-> FALSE]
    /\ strikers' = 0

PHNext ==
    \/ Pass /\ UNCHANGED strikeVars
    \/ \E r \in Callers :
          \/ PHArrive(r)
          \/ PHFail(r)
          \/ PHForwardOK(r)
          \/ StartForward(r) /\ UNCHANGED strikeVars
          \/ CircuitOpen(r) /\ UNCHANGED strikeVars
          \/ Wake(r) /\ UNCHANGED strikeVars

PHSpec == PHInit /\ [][PHNext]_phVars

PHFairSpec == PHSpec /\ PFairness

-----------------------------------------------------------------------------
(* With fewer attempts per request than the threshold, as in the default   *)
(* configurations (4 and 5), no single request opens a closed breaker for  *)
(* everybody else, however often it is retried.                            *)
OneRequestCannotTrip ==
    [][/\ MaxRetries + 1 < FailureThreshold
       /\ state = "closed"
       /\ state' = "open"
       => strikers' >= 2]_phVars
=============================================================================
