------------------------------- MODULE Balancer -------------------------------
(***************************************************************************)
(* The round robin of internal/balancer/balancer.go.  Next is one atomic   *)
(* addition to a counter of 64 bits and a look at the target it selects.   *)
(* The balancer middleware forwards each request to the target that Next   *)
(* gave it, whatever happened to the others.                               *)
(***************************************************************************)
EXTENDS Naturals

CONSTANTS
    Targets, \* len(b.targets); New refuses an empty list
    Size,    \* 2^64, the values of b.counter
    MaxCalls \* bound on the calls of Next

ConfigOK == Targets \in Nat \ {0} /\ Size \in Nat \ {0}

VARIABLES
    counter, \* b.counter
    wraps,   \* history: how often it wrapped around
    sent     \* history: sent[i], the requests that got target i

vars == <<counter, wraps, sent>>

TypeOK ==
    /\ counter \in 0..Size - 1
    /\ wraps \in Nat
    /\ sent \in [0..Targets - 1 -> Nat]

Init ==
    /\ counter = 0
    /\ wraps = 0
    /\ sent = [i \in 0..Targets - 1 |-> 0]

-----------------------------------------------------------------------------
(* Mutant of Selected: the last target is left out. *)
SelectedButLast(n) == n % (Targets - 1)

(* b.targets[idx % len(b.targets)] *)
Selected(n) == n % Targets

(* AddUint64 wraps around; what it returns less one is the old counter.    *)
TakeNext ==
    /\ wraps * Size + counter < MaxCalls
    /\ counter' = (counter + 1) % Size
    /\ wraps' = IF counter' = 0 THEN wraps + 1 ELSE wraps
    /\ sent' = [sent EXCEPT ![Selected(counter)] = @ + 1]

Next == TakeNext

Spec == Init /\ [][Next]_vars

-----------------------------------------------------------------------------
(* No target is ahead of another by more than one request, plus one for    *)
(* each time the counter wrapped around in the middle of a round.          *)
Even == \A i, j \in 0..Targets - 1 : sent[i] <= sent[j] + 1 + wraps
=============================================================================
