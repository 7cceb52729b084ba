---------------------------- MODULE ServingProofs ----------------------------
(***************************************************************************)
(* The handlers in which goroutines wait for others: the slots of the      *)
(* throttle for every capacity and every finite set of requests, what a    *)
(* health check reports for any number of overlapping checks and targets,  *)
(* and who reads what of a mirrored request.                               *)
(***************************************************************************)
EXTENDS MCServing, FiniteSetTheorems, TLAPS

LEMMA HoldersFinite == IsFiniteSet(Holders) /\ Cardinality(Holders) \in Nat
<1>1. Holders \subseteq Requests
    BY DEF Holders
<1>. QED
    BY <1>1, ThrottleAssumption, FS_Subset, FS_CardinalityType

LEMMA StepSlots ==
    TypeOK /\ SlotsAccountedFor /\ [Next]_vars => TypeOK' /\ SlotsAccountedFor'
<1> SUFFICES ASSUME TypeOK, SlotsAccountedFor, [Next]_vars
             PROVE  TypeOK' /\ SlotsAccountedFor'
    OBVIOUS
<1> USE ThrottleAssumption
<1> USE DEF TypeOK, SlotsAccountedFor
<1>1. CASE Tick
  <2>1. TypeOK'
    BY <1>1 DEF Tick
  <2>2. Holders' = Holders
    BY <1>1 DEF Tick, Holders
  <2>. QED
    BY <1>1, <2>1, <2>2 DEF Tick
<1>2. ASSUME NEW r \in Requests, Arrive(r)
      PROVE  TypeOK' /\ SlotsAccountedFor'
  <2>1. Holders' = Holders
    BY <1>2 DEF Arrive, Holders
  <2>. QED
    BY <1>2, <2>1 DEF Arrive
<1>3. ASSUME NEW r \in Requests, Acquire(r)
      PROVE  TypeOK' /\ SlotsAccountedFor'
  <2>1. Holders' = Holders \union {r} /\ r \notin Holders
    BY <1>3 DEF Acquire, Holders
  <2>2. Cardinality(Holders') = Cardinality(Holders) + 1
    BY <2>1, HoldersFinite, FS_AddElement
  <2>3. TypeOK'
    BY <1>3 DEF Acquire
  <2>. QED
    BY <1>3, <2>2, <2>3 DEF Acquire
<1>4. ASSUME NEW r \in Requests, Reject(r)
      PROVE  TypeOK' /\ SlotsAccountedFor'
  <2>1. Holders' = Holders
    BY <1>4 DEF Reject, Holders
  <2>. QED
    BY <1>4, <2>1 DEF Reject
<1>5. ASSUME NEW r \in Requests, Leave(r)
      PROVE  TypeOK' /\ SlotsAccountedFor'
  <2>1. Holders' = Holders
    BY <1>5 DEF Leave, Holders
  <2>. QED
    BY <1>5, <2>1 DEF Leave
<1>6. ASSUME NEW r \in Requests, Release(r)
      PROVE  TypeOK' /\ SlotsAccountedFor'
  <2>1. Holders' = Holders \ {r} /\ r \in Holders
    BY <1>6 DEF Release, Holders
  <2>2. Cardinality(Holders') = Cardinality(Holders) - 1
    BY <2>1, HoldersFinite, FS_RemoveElement
  <2>3. TypeOK'
    BY <1>6 DEF Release
  <2>. QED
    BY <1>6, <2>2, <2>3 DEF Release
<1>7. CASE UNCHANGED vars
    BY <1>7 DEF vars, Holders
<1>. QED
    BY <1>1, <1>2, <1>3, <1>4, <1>5, <1>6, <1>7 DEF Next

LEMMA InitSlots == Init => TypeOK /\ SlotsAccountedFor
<1> SUFFICES ASSUME Init PROVE TypeOK /\ SlotsAccountedFor
    OBVIOUS
<1>1. Holders = {}
    BY DEF Init, Holders
<1>. QED
    BY <1>1, ThrottleAssumption, FS_EmptySet DEF Init, TypeOK, SlotsAccountedFor

(* No slot of the semaphore is ever lost or counted twice, and never more  *)
(* than MaxConcurrent requests hold one.                                   *)
THEOREM SlotsHold ==
    Spec => [](SlotsAccountedFor /\ Cardinality(Holders) <= MaxConcurrent)
<1>1. TypeOK /\ SlotsAccountedFor
      => SlotsAccountedFor /\ Cardinality(Holders) <= MaxConcurrent
    BY ThrottleAssumption DEF TypeOK, SlotsAccountedFor
<1>. QED
    BY <1>1, InitSlots, StepSlots, PTL DEF Spec

(* A request that is leaving finds the token of its slot: the deferred     *)
(* receive does not block.                                                 *)
THEOREM ReleaseNeverBlocks ==
    Spec => [](\A r \in Requests : at[r] = "unwinding" => sem > 0)
<1>1. ASSUME TypeOK, SlotsAccountedFor, NEW r \in Requests, at[r] = "unwinding"
      PROVE  sem > 0
  <2>1. r \in Holders
    BY <1>1 DEF Holders
  <2>2. Cardinality(Holders) # 0
    BY <2>1, HoldersFinite, FS_EmptySet
  <2>. QED
    BY <1>1, <2>2, HoldersFinite DEF SlotsAccountedFor
<1>2. TypeOK /\ SlotsAccountedFor
      => \A r \in Requests : at[r] = "unwinding" => sem > 0
    BY <1>1
<1>. QED
    BY <1>2, InitSlots, StepSlots, PTL DEF Spec

-----------------------------------------------------------------------------
(* PeriodInv for one check and one of its targets. *)
ProbeInv(h, t) ==
    /\ probe[h][t] = "done" => t \in DOMAIN statuses
    /\ Busy(h) => /\ IF t \in up THEN t \in everUp ELSE t \in everDown
                  /\ gone[h] => cancelled
                  /\ probe[h][t] = "done" => Vouched(t, statuses[t])
    /\ ~Busy(h) => probe[h][t] \in {"none", "done"} /\ ~gone[h]
    /\ probe[h][t] = "healthy" => Vouched(t, TRUE)
    /\ probe[h][t] = "unhealthy" => Vouched(t, FALSE)

LEMMA PeriodInvParts ==
    PeriodInv <=> HTypeOK /\ \A h \in Checks, t \in Targets : ProbeInv(h, t)
    BY DEF PeriodInv, ProbeInv

LEMMA InitPeriodInv == HInit => PeriodInv
<1> SUFFICES ASSUME HInit PROVE PeriodInv
    OBVIOUS
<1>1. DOMAIN statuses = {}
    BY DEF HInit
<1>2. HTypeOK
    BY <1>1 DEF HInit, HTypeOK
<1>3. ASSUME NEW h \in Checks, NEW t \in Targets
      PROVE  ~Busy(h) /\ probe[h][t] = "none" /\ ~gone[h]
    BY DEF HInit, Busy
<1>. QED
    BY <1>2, <1>3 DEF PeriodInv

(* A write of the map keeps its type and its other entries. *)
LEMMA PutKeeps ==
    ASSUME HTypeOK, NEW t \in Targets, NEW healthy \in BOOLEAN, Put(t, healthy)
    PROVE  /\ DOMAIN statuses' = DOMAIN statuses \union {t}
           /\ statuses'[t] = healthy
           /\ \A s \in DOMAIN statuses \ {t} : statuses'[s] = statuses[s]
           /\ \A s \in DOMAIN statuses' : statuses'[s] \in BOOLEAN
<1>1. /\ DOMAIN statuses' = DOMAIN statuses \union {t}
      /\ \A s \in DOMAIN statuses \union {t} :
            statuses'[s] = IF s = t THEN healthy ELSE statuses[s]
    BY DEF Put
<1>2. \A s \in DOMAIN statuses : statuses[s] \in BOOLEAN
    BY DEF HTypeOK
<1>. QED
    BY <1>1, <1>2, Zenon

LEMMA StepPeriodInv == PeriodInv /\ [HNext]_healthVars => PeriodInv'
<1> SUFFICES ASSUME HTypeOK, \A h \in Checks, t \in Targets : ProbeInv(h, t),
                    [HNext]_healthVars
             PROVE  HTypeOK' /\ \A h \in Checks, t \in Targets : ProbeInv(h, t)'
    BY PeriodInvParts, PeriodInvParts' DEF PeriodInv, ProbeInv
<1>1. CASE UNCHANGED healthVars
    BY <1>1 DEF healthVars, codeVars, HTypeOK, ProbeInv, Vouched, Busy
<1>2. ASSUME NEW h \in Checks, Begin(h)
      PROVE  HTypeOK' /\ \A g \in Checks, t \in Targets : ProbeInv(g, t)'
  <2>1. HTypeOK'
    BY <1>2 DEF Begin, HTypeOK
  <2>2. CASE \E g \in Checks : Busy(g)
    <3>1. \A t \in Targets : IF t \in up THEN t \in everUp ELSE t \in everDown
      BY <2>2 DEF ProbeInv
    <3>2. UNCHANGED <<up, statuses, gone, everUp, everDown, cancelled>>
      BY <1>2, <2>2 DEF Begin
    <3>3. ASSUME NEW t \in Targets
          PROVE  ProbeInv(h, t)'
      BY <1>2, <3>1, <3>2 DEF Begin, HTypeOK, ProbeInv, Vouched, Busy
    <3>4. ASSUME NEW g \in Checks \ {h}, NEW t \in Targets
          PROVE  ProbeInv(g, t)'
      BY <1>2, <3>2 DEF Begin, HTypeOK, ProbeInv, Vouched, Busy
    <3>. QED
      BY <2>1, <3>3, <3>4
  <2>3. CASE ~\E g \in Checks : Busy(g)
    <3>1. everUp' = up /\ everDown' = Targets \ up /\ UNCHANGED <<up, gone, statuses>>
      BY <1>2, <2>3 DEF Begin
    <3>2. ASSUME NEW t \in Targets
          PROVE  ProbeInv(h, t)'
      BY <1>2, <3>1 DEF Begin, HTypeOK, ProbeInv, Vouched, Busy
    <3>3. ASSUME NEW g \in Checks \ {h}, NEW t \in Targets
          PROVE  ProbeInv(g, t)'
      BY <1>2, <2>3, <3>1 DEF Begin, HTypeOK, ProbeInv, Vouched, Busy
    <3>. QED
      BY <2>1, <3>2, <3>3
  <2>. QED
    BY <2>1, <2>2, <2>3
<1>3. ASSUME NEW h \in Checks, NEW s \in Targets, Heard(h, s)
      PROVE  HTypeOK' /\ \A g \in Checks, t \in Targets : ProbeInv(g, t)'
    BY <1>3 DEF Heard, HTypeOK, ProbeInv, Vouched, Busy
<1>4. ASSUME NEW h \in Checks, NEW s \in Targets, Interrupted(h, s)
      PROVE  HTypeOK' /\ \A g \in Checks, t \in Targets : ProbeInv(g, t)'
    BY <1>4 DEF Interrupted, HTypeOK, ProbeInv, Vouched, Busy
<1>5. ASSUME NEW h \in Checks, NEW s \in Targets, Record(h, s)
      PROVE  HTypeOK' /\ \A g \in Checks, t \in Targets : ProbeInv(g, t)'
  <2>1. Put(s, probe[h][s] = "healthy")
    BY <1>5 DEF Record
  <2>2. /\ DOMAIN statuses' = DOMAIN statuses \union {s}
        /\ statuses'[s] = (probe[h][s] = "healthy")
        /\ \A t \in DOMAIN statuses \ {s} : statuses'[t] = statuses[t]
        /\ \A t \in DOMAIN statuses' : statuses'[t] \in BOOLEAN
    BY <2>1, PutKeeps
  <2>3. Vouched(s, statuses'[s])
    BY <1>5, <2>2 DEF Record, ProbeInv
  <2>4. HTypeOK'
    BY <1>5, <2>2 DEF Record, HTypeOK
  <2>5. ASSUME NEW g \in Checks, NEW t \in Targets
        PROVE  ProbeInv(g, t)'
    BY <1>5, <2>2, <2>3 DEF Record, HTypeOK, ProbeInv, Vouched, Busy
  <2>. QED
    BY <2>4, <2>5
<1>6. ASSUME NEW h \in Checks, Report(h)
      PROVE  HTypeOK' /\ \A g \in Checks, t \in Targets : ProbeInv(g, t)'
    BY <1>6 DEF Report, Probed, HTypeOK, ProbeInv, Vouched, Busy
<1>7. ASSUME NEW h \in Checks, ClientGone(h)
      PROVE  HTypeOK' /\ \A g \in Checks, t \in Targets : ProbeInv(g, t)'
    BY <1>7 DEF ClientGone, HTypeOK, ProbeInv, Vouched, Busy
<1>8. ASSUME NEW s \in Targets, Recover(s) \/ Break(s)
      PROVE  HTypeOK' /\ \A g \in Checks, t \in Targets : ProbeInv(g, t)'
    BY <1>8 DEF Recover, Break, HTypeOK, ProbeInv, Vouched, Busy
<1>. QED
    BY <1>1, <1>2, <1>3, <1>4, <1>5, <1>6, <1>7, <1>8 DEF HNext, Progress

(* Every result in hand, and every one in the map that counts, was the     *)
(* case during the busy period.                                            *)
THEOREM PeriodHolds == HSpec => []PeriodInv
<1>. QED
    BY InitPeriodInv, StepPeriodInv, PTL DEF HSpec

(* A report rests on its busy period, whatever writes of other checks it   *)
(* finds in the map.                                                       *)
THEOREM ReportsRestOnThePeriod == HSpec => ReportsThePeriod
<1>1. ASSUME PeriodInv, [HNext]_healthVars, NEW h \in Checks, Report(h)
      PROVE  /\ answer'[h] = "200" => everUp = Targets
             /\ answer'[h] = "503" => everDown # {} \/ cancelled
  <2>1. /\ \A t \in Targets : t \in DOMAIN statuses /\ Vouched(t, statuses[t])
        /\ DOMAIN statuses \subseteq Targets /\ everUp \subseteq Targets
        /\ answer'[h] = IF AllHealthy THEN "200" ELSE "503"
    BY <1>1 DEF PeriodInv, Report, Probed, HTypeOK
  <2>2. CASE AllHealthy
    BY <2>1, <2>2 DEF AllHealthy, Vouched
  <2>3. CASE ~AllHealthy
    BY <2>1, <2>3 DEF AllHealthy, Vouched
  <2>. QED
    BY <2>1, <2>2, <2>3
<1>2. PeriodInv /\ [HNext]_healthVars
      => [\A h \in Checks : Report(h) =>
            /\ answer'[h] = "200" => everUp = Targets
            /\ answer'[h] = "503" => everDown # {} \/ cancelled]_healthVars
    BY <1>1
<1>. QED
    BY <1>2, PeriodHolds, PTL DEF HSpec, ReportsThePeriod

-----------------------------------------------------------------------------
(* What makes BothReadTheBody inductive: a reader has given what it has    *)
(* passed, whoever was told of the end is there, and only a request whose  *)
(* body was read whole is mirrored.                                        *)
MirrorInv ==
    /\ Shadow!TypeOK
    /\ pos = got
    /\ \A r \in Mirrored :
          /\ \A x \in Shadow!Readers : pos[r][x] <= length[r]
          /\ \A x \in eof[r] : pos[r][x] = length[r]
          /\ primary[r] \in {"idle", "buffering"} => mirror[r] = "none"
          /\ written[r] = "500" => primary[r] = "returned" /\ mirror[r] = "none"

LEMMA InitMirrorInv == Shadow!Init => MirrorInv
    BY ServingAssumption DEF Shadow!Init, MirrorInv, Shadow!TypeOK, Shadow!Readers

LEMMA StepMirrorInv == MirrorInv /\ [Shadow!Next]_shadowVars => MirrorInv'
<1> SUFFICES ASSUME MirrorInv, [Shadow!Next]_shadowVars
             PROVE  MirrorInv'
    OBVIOUS
<1> USE ServingAssumption DEF MirrorInv, Shadow!TypeOK
<1>1. ASSUME NEW r \in Mirrored, Shadow!Arrive(r) \/ Shadow!Serve(r)
      PROVE  MirrorInv'
  <2>1. CASE Shadow!Arrive(r)
    BY <2>1 DEF Shadow!Arrive
  <2>2. CASE Shadow!Serve(r)
    <3>1. /\ primary[r] = "buffering" /\ written[r] # "500"
          /\ primary' = [primary EXCEPT ![r] = "serving"]
          /\ mirror' = [mirror EXCEPT ![r] = "sending"]
          /\ UNCHANGED <<length, pos, got, eof, written>>
      BY <2>2 DEF Shadow!Serve
    <3>2. /\ primary' \in [Mirrored -> {"idle", "buffering", "serving", "returned"}]
          /\ mirror' \in [Mirrored -> {"none", "sending", "waiting", "done"}]
      BY <3>1
    <3>3. \A q \in Mirrored :
            /\ primary'[q] = IF q = r THEN "serving" ELSE primary[q]
            /\ mirror'[q] = IF q = r THEN "sending" ELSE mirror[q]
      BY <3>1
    <3>. QED
      BY <3>1, <3>2, <3>3
  <2>. QED
    BY <1>1, <2>1, <2>2
<1>2. ASSUME NEW r \in Mirrored, Shadow!BodyLost(r)
      PROVE  MirrorInv'
    BY <1>2 DEF Shadow!BodyLost
<1>3. ASSUME NEW r \in Mirrored, Shadow!Answer(r)
      PROVE  MirrorInv'
    BY <1>3 DEF Shadow!Answer, Shadow!Return
<1>4. ASSUME NEW r \in Mirrored, Shadow!Panic(r)
      PROVE  MirrorInv'
    BY <1>4 DEF Shadow!Panic, Shadow!Return
<1>5. ASSUME NEW r \in Mirrored, Shadow!Sent(r) \/ Shadow!MirrorEnds(r)
      PROVE  MirrorInv'
  <2>1. /\ mirror[r] # "none" /\ mirror' \in [Mirrored -> {"none", "sending", "waiting", "done"}]
        /\ \A q \in Mirrored : mirror[q] = "none" => mirror'[q] = "none"
        /\ UNCHANGED <<length, primary, pos, got, eof, written>>
    BY <1>5 DEF Shadow!Sent, Shadow!MirrorEnds
  <2>. QED
    BY <2>1
<1>6. ASSUME NEW r \in Mirrored, NEW x \in Shadow!Readers, NEW n \in 1..MaxBody,
             Shadow!Read(r, x, n)
      PROVE  MirrorInv'
  <2>1. /\ pos' = [pos EXCEPT ![r][x] = @ + n]
        /\ got' = [got EXCEPT ![r][x] = @ + n]
        /\ UNCHANGED <<length, primary, mirror, eof, written>>
    BY <1>6 DEF Shadow!Read, Shadow!Advance
  <2>2. /\ pos[r][x] + n \in 0..MaxBody /\ pos[r][x] + n <= length[r]
        /\ pos[r][x] # length[r]
    BY <1>6 DEF Shadow!Read
  <2>3. /\ pos' \in [Mirrored -> [Shadow!Readers -> 0..MaxBody]]
        /\ pos' = got'
    BY <2>1, <2>2
  <2>4. \A q \in Mirrored : \A y \in Shadow!Readers :
           pos'[q][y] = IF q = r /\ y = x THEN pos[r][x] + n ELSE pos[q][y]
    BY <2>1
  <2>. QED
    BY <2>1, <2>2, <2>3, <2>4
<1>7. ASSUME NEW r \in Mirrored, NEW x \in Shadow!Readers, Shadow!ReadEnd(r, x)
      PROVE  MirrorInv'
    BY <1>7 DEF Shadow!ReadEnd
<1>8. CASE UNCHANGED shadowVars
    BY <1>8 DEF shadowVars
<1>. QED
    BY <1>1, <1>2, <1>3, <1>4, <1>5, <1>6, <1>7, <1>8 DEF Shadow!Next

(* Whoever reads to the end of a mirrored request has read all of it, for  *)
(* any lengths and any interleaving of the pieces; and a request whose     *)
(* body was lost is not mirrored.                                          *)
THEOREM MirrorGetsTheBody == Shadow!Spec => []BothReadTheBody
<1>1. MirrorInv => BothReadTheBody
    BY DEF MirrorInv, BothReadTheBody, Shadow!BothReadTheBody
<1>. QED
    BY <1>1, InitMirrorInv, StepMirrorInv, PTL DEF Shadow!Spec, Shadow!vars, shadowVars

(* The types of the throttle and of the mirroring, in the composition that *)
(* is model-checked.                                                       *)
THEOREM ServingTypesHold == SSpec => []ServingTypes
<1>1. SInit => TypeOK /\ SlotsAccountedFor /\ MirrorInv
    BY InitSlots, InitMirrorInv DEF SInit
<1>2. [SNext]_allVars => [Next]_vars /\ [Shadow!Next]_shadowVars
    BY DEF SNext, allVars
<1>3. TypeOK /\ MirrorInv => ServingTypes
    BY DEF ServingTypes, MirrorInv
<1>. QED
    BY <1>1, <1>2, <1>3, StepSlots, StepMirrorInv, PTL DEF SSpec
=============================================================================
