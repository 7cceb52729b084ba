---------------------- MODULE CircuitBreakerRefinement ----------------------
(***************************************************************************)
(* CircuitBreaker implements BreakerContract.  The code turns half-open    *)
(* when somebody looks; to its callers it is half-open from the moment the *)
(* timeout has elapsed, in the state that currentState would return.       *)
(* Counters that the current state does not use may hold left-overs, which *)
(* the contract does not see.                                              *)
(***************************************************************************)
EXTENDS CircuitBreaker

Contract == INSTANCE BreakerContract WITH
    phase    <- CurrentState,
    strikes  <- IF state = "closed" THEN failureCount ELSE 0,
    credit   <- IF state = "halfOpen" THEN successCount ELSE 0,
    inFlight <- {c \in Callers : pc[c] = "running"}

(* Every behaviour of the breaker is one the contract allows: admissions,  *)
(* transitions and counted results, in the order the mutex gives them.     *)
ImplementsContract == Contract!Spec
=============================================================================
