----------------------------- MODULE MCMiddleware -----------------------------
(***************************************************************************)
(* The components whose state is a table or a few counters under a mutex,  *)
(* and those that belong to one request, checked in one run.  They share   *)
(* no state, so no interleaving of two of them is of interest: "part"      *)
(* selects the one that runs, and a behaviour is one of that component.    *)
(***************************************************************************)
EXTENDS Tables, RequestPath, ResponsePath

VARIABLE part

MInit ==
    /\ part \in {"ratelimiter", "cache", "dedupe", "breachlog", "metrics",
                 "balancer", "compress", "failover", "request", "response"}
    /\ HInit
    /\ Cache!Init
    /\ Dedupe!Init
    /\ Breach!Init
    /\ Metrics!Init
    /\ Balancer!Init
    /\ Compress!Init
    /\ part # "compress" => length = 0
    /\ Failover!Init
    /\ part # "failover" => valid = {} /\ body = "none"
    /\ Comes(IF part = "request" THEN Routes ELSE {<<>>})
    /\ Called(IF part = "response" THEN Nests ELSE {<<>>})
    /\ part # "response" => pieces = 1 /\ io.hdr[0] = {}

MNext ==
    /\ UNCHANGED part
    /\ IF part = "ratelimiter" THEN HNext ELSE UNCHANGED allVars
    /\ IF part = "cache" THEN Cache!Next ELSE UNCHANGED cacheVars
    /\ IF part = "dedupe" THEN Dedupe!Next ELSE UNCHANGED dedupeVars
    /\ IF part = "breachlog" THEN Breach!Next ELSE UNCHANGED breachVars
    /\ IF part = "metrics" THEN Metrics!Next ELSE UNCHANGED metricsVars
    /\ IF part = "balancer" THEN Balancer!Next ELSE UNCHANGED balancerVars
    /\ IF part = "compress" THEN Compress!Next ELSE UNCHANGED compressVars
    /\ IF part = "failover" THEN Failover!Next ELSE UNCHANGED failoverVars
    /\ IF part = "request" THEN PathNext ELSE UNCHANGED pathVars
    /\ IF part = "response" THEN RespNext ELSE UNCHANGED respVars

MSpec == MInit /\ [][MNext]_<<part, allVars, cacheVars, dedupeVars, breachVars,
                             metricsVars, balancerVars, compressVars, failoverVars,
                             pathVars, respVars>>

-----------------------------------------------------------------------------
(* The type invariants of the components. *)
ComponentTypes ==
    /\ TableTypes
    /\ PathTypeOK
    /\ RespTypeOK
=============================================================================
