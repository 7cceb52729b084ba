---------------------------- MODULE ChainHistory ----------------------------
(***************************************************************************)
(* Chain with a record, for the current request of each goroutine, of the  *)
(* backends it asked and of the turns that others took in between.         *)
(***************************************************************************)
EXTENDS Chain

VARIABLES
    asked, \* asked[r]: backends that were asked
    alone  \* alone[r]: nobody else asked one between r's attempts

history == <<asked, alone>>

HChainInit ==
    /\ ChainInit
    /\ asked = [r \in Callers |-> {}]
    /\ alone = [r \in Callers |-> TRUE]

(* An attempt of r, whether it gets a response or is aborted. *)
Asks(r) == at[r] = "retry" /\ at'[r] # "retry"

HChainNext ==
    /\ ChainNext
    /\ asked' = [r \in Callers |->
                   IF at'[r] = "idle" THEN {}
                   ELSE IF Asks(r) THEN asked[r] \union {turn} ELSE asked[r]]
    /\ alone' = [r \in Callers |->
                   \/ at'[r] = "idle"
                   \/ alone[r] /\ (asked[r] = {} \/ ~\E q \in Callers \ {r} : Asks(q))]

HChainSpec == HChainInit /\ [][HChainNext]_<<systemVars, history>>

-----------------------------------------------------------------------------
(* With as many attempts as there are backends, a request between whose    *)
(* attempts nobody else uses the balancer is answered with a gateway error *)
(* only when every backend was asked.                                      *)
GivesUpAfterAllBackends ==
    \A r \in Callers :
        answer[r] = "bad" /\ alone[r] /\ MaxAttempts >= Targets
        => asked[r] = Backends
=============================================================================
