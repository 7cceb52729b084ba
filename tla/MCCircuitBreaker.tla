-------------------------- MODULE MCCircuitBreaker --------------------------
(* The circuit breaker for TLC: the history that its safety properties     *)
(* speak of and the contract that it implements, in one state space.       *)
EXTENDS CircuitBreakerHistory, CircuitBreakerRefinement
=============================================================================
