--------------------------- MODULE MiddlewareProofs ---------------------------
(***************************************************************************)
(* The behaviours of MCMiddleware are behaviours of each of its            *)
(* components, so what is proved of a component holds of them: the type    *)
(* invariants, and what the layers around the response promise.            *)
(***************************************************************************)
EXTENDS MCMiddleware, TablesProofs, RequestPathProofs, ResponsePathProofs

mVars == <<part, allVars, cacheVars, dedupeVars, breachVars, metricsVars, balancerVars,
           compressVars, failoverVars, pathVars, respVars>>

(* The parts that do not run begin with one of their own initial states:   *)
(* no layer at all is one way to nest the layers.                          *)
LEMMA NoLayers == <<>> \in Routes /\ <<>> \in Nests
<1>1. \A S : <<>> \in [1..0 -> S]
    OBVIOUS
<1>2. <<>> \in Routes
  <2>1. PICK layers \in Concerns : TRUE
    BY DEF Concerns
  <2>2. <<>> \in Orders(layers, 0)
    BY <1>1 DEF Orders
  <2>3. 0 \in 0..Depth
    BY PathAssumption
  <2>. QED
    BY <2>1, <2>2, <2>3 DEF Routes
<1>3. <<>> \in Nests
  <2>1. <<>> \in {s \in [1..0 -> Wrappers] : \A i, j \in 1..0 : s[i] = s[j] => i = j}
    BY <1>1
  <2>2. 0 \in 0..MaxWrappers
    BY WrapperAssumption
  <2>. QED
    BY <2>1, <2>2 DEF Nests
<1>. QED
    BY <1>2, <1>3

LEMMA InitialStates ==
    MInit => /\ HInit /\ Cache!Init /\ Dedupe!Init /\ Breach!Init /\ Metrics!Init
             /\ Balancer!Init /\ Compress!Init /\ Failover!Init /\ PathInit /\ RespInit
<1> SUFFICES ASSUME MInit
             PROVE  PathInit /\ RespInit
    BY DEF MInit
<1>1. PICK routes \in {Routes, {<<>>}} : Comes(routes)
    BY DEF MInit
<1>2. PICK nests \in {Nests, {<<>>}} : Called(nests)
    BY DEF MInit
<1>3. PathInit
    BY <1>1, NoLayers DEF Comes, PathInit
<1>4. RespInit
    BY <1>2, NoLayers DEF Called, RespInit
<1>. QED
    BY <1>3, <1>4

(* A step of the part that runs is a step of it, and the others stutter.   *)
LEMMA Steps ==
    [MNext]_mVars
      => /\ [HNext]_allVars
         /\ [Cache!Next]_cacheVars
         /\ [Dedupe!Next]_dedupeVars
         /\ [Breach!Next]_breachVars
         /\ [Metrics!Next]_metricsVars
         /\ [Balancer!Next]_balancerVars
         /\ [Compress!Next]_compressVars
         /\ [Failover!Next]_failoverVars
         /\ [PathNext]_pathVars
         /\ [RespNext]_respVars
<1>1. CASE UNCHANGED mVars
    BY <1>1 DEF mVars
<1>2. CASE MNext
    BY <1>2 DEF MNext
<1>. QED
    BY <1>1, <1>2

(* What is checked in one run is each component: the behaviours of         *)
(* MCMiddleware are behaviours of the part that runs, and of the others    *)
(* behaviours that stutter.                                                *)
THEOREM EachComponent ==
    MSpec => /\ HSpec /\ Cache!Spec /\ Dedupe!Spec /\ Breach!Spec /\ Metrics!Spec
             /\ Balancer!Spec /\ Compress!Spec /\ Failover!Spec /\ PathSpec /\ RespSpec
BY InitialStates, Steps, PTL
DEF MSpec, mVars, HSpec, PathSpec, RespSpec,
    Cache!Spec, Dedupe!Spec, Breach!Spec, Metrics!Spec, Balancer!Spec, Compress!Spec,
    Failover!Spec, cacheVars, Cache!vars, dedupeVars, Dedupe!vars, breachVars,
    Breach!vars, metricsVars, Metrics!vars, balancerVars, Balancer!vars,
    compressVars, Compress!vars, failoverVars, Failover!vars

(* Whatever its constants and whichever part runs, every component keeps   *)
(* its variables in their types.                                           *)
THEOREM TypesOfComponents == MSpec => []ComponentTypes
<1>1. /\ Cache!TypeOK /\ Dedupe!TypeOK /\ Breach!TypeOK /\ Metrics!TypeOK
      /\ Balancer!TypeOK /\ Compress!TypeOK /\ Failover!TypeOK
      /\ PathTypeOK /\ RespTypeOK
      => ComponentTypes
    BY DEF ComponentTypes, TableTypes
<1>. QED
    BY <1>1, EachComponent, CacheTypes, DedupeTypes, BreachTypes, MetricsTypes,
       BalancerTypes, CompressTypes, FailoverTypes, PathTypes, ResponseTypes, PTL

(* And all that the run checks of the components holds for every value of  *)
(* their constants: of the rate limiter and the tables, ...                *)
THEOREM TablesHold ==
    MSpec => /\ []WindowBound /\ DenialIsEarned
             /\ []StalenessBound /\ NoLateDuplicate
             /\ []RingIsRecent /\ OneWarningEach
             /\ []CountersAgree /\ []Even /\ []DeliversWritten /\ []FirstUsableWins
BY EachComponent, RateIsBounded, DenialsAreEarned, StalenessIsBounded, DuplicatesOverlap,
   RingHoldsTheLast, WarningsKeepTheGap, CountersNeverDrift, RoundRobinIsEven,
   WrittenIsDelivered, UsableResponseSent, PTL

(* ... and of the layers on the way of a request and of its response.      *)
THEOREM LayersHold ==
    MSpec => /\ []OnlyTheAdmitted /\ []RequestIntact
             /\ []TrueStatus /\ []HonestHead
BY EachComponent, Admission, Integrity, StatusTrue, HeadHonest, PTL
===============================================================================
