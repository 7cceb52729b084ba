--------------------------- MODULE GatewayContract ---------------------------
(***************************************************************************)
(* What the gateway promises its clients, with nothing said of how: a      *)
(* request is told one status, one that its kind and its key allow, and is *)
(* over only then.  Requests overlap and are answered in any order.        *)
(***************************************************************************)
CONSTANTS
    Callers, \* the requests that can be in progress at once
    Statuses \* what an upstream answers

VARIABLES
    asked, \* asked[r]: "keyless", "preflight" or "call", "none" before
    told,  \* told[r]: the status that the client got, "none" before
    down   \* the process has ended

vars == <<asked, told, down>>

Sorts == {"keyless", "preflight", "call"}

Init ==
    /\ asked = [r \in Callers |-> "none"]
    /\ told = [r \in Callers |-> "none"]
    /\ down = FALSE

(* What upstream says is for calls with a key only.  They may be refused   *)
(* by the rate limit (429) or the breaker (open), and anything may be late *)
(* (504).                                                                  *)
Allowed(kind) ==
    {"504"} \union CASE kind = "keyless"   -> {"401"}
                     [] kind = "preflight" -> {"204"}
                     [] kind = "call"      -> Statuses \union {"429", "open"}

Ask(r, kind) ==
    /\ asked[r] = "none"
    /\ asked' = [asked EXCEPT ![r] = kind]
    /\ UNCHANGED told

Tell(r, s) ==
    /\ asked[r] \in Sorts
    /\ told[r] = "none"
    /\ s \in Allowed(asked[r])
    /\ told' = [told EXCEPT ![r] = s]
    /\ UNCHANGED asked

Over(r) ==
    /\ told[r] # "none"
    /\ asked' = [asked EXCEPT ![r] = "none"]
    /\ told' = [told EXCEPT ![r] = "none"]

Next ==
    \/ \E r \in Callers :
          /\ \/ \E kind \in Sorts : Ask(r, kind)
             \/ \E s \in UNION {Allowed(kind) : kind \in Sorts} : Tell(r, s)
             \/ Over(r)
          /\ ~down
          /\ UNCHANGED down
    \/ down' = TRUE /\ UNCHANGED <<asked, told>>

Spec == Init /\ [][Next]_vars
=============================================================================
