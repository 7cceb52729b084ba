-------------------------- MODULE ResponsePathProofs --------------------------
(***************************************************************************)
(* Whatever wrappers a response goes through, in whatever order, and       *)
(* whenever the handler panics: the headers sent are true of the body, and *)
(* the status logged is the one sent.                                      *)
(***************************************************************************)
EXTENDS ResponsePath, WellFoundedInduction, TLAPS

(* The wrappers are there, and io is what writers can keep. *)
Nested == nest \in Seq(Wrappers)

Sane(s) == s \in Writers /\ (s.wire.status = "none" => s.wire = None /\ s.head = {})

LEMMA PlaceFacts ==
    ASSUME Nested
    PROVE  /\ Len(nest) \in Nat
           /\ Places = 1..Len(nest)
           /\ \A k \in Places : k \in Nat /\ k > 0 /\ nest[k] \in Wrappers
    BY DEF Nested, Places

-----------------------------------------------------------------------------
(* The innermost of some places is one of them, and no other is further in.*)
LEMMA InnermostFacts ==
    ASSUME NEW n \in Nat, NEW S \in SUBSET (1..n)
    PROVE  /\ Innermost(S) \in 0..n
           /\ Innermost(S) > 0 => Innermost(S) \in S
           /\ \A i \in S : i <= Innermost(S)
<1>1. CASE S = {}
    BY <1>1 DEF Innermost
<1>2. CASE S # {}
  <2> DEFINE T == {n - i : i \in S}
  <2>1. T \subseteq Nat /\ T # {}
    <3>1. \A i \in S : n - i \in Nat
      OBVIOUS
    <3>2. PICK i \in S : TRUE
      BY <1>2
    <3>3. n - i \in T
      OBVIOUS
    <3>. QED
      BY <3>1, <3>3
  <2>2. \E x \in T : \A y \in T : ~(<<y, x>> \in OpToRel(<, Nat))
    <3> HIDE DEF T
    <3>. QED
      BY <2>1, WFMin, NatLessThanWellFounded
  <2>3. PICK x \in T : \A y \in T : ~(<<y, x>> \in OpToRel(<, Nat))
    BY <2>2
  <2>4. PICK j \in S : x = n - j
    BY <2>3
  <2>5. \A i \in S : i <= j
    <3>1. TAKE i \in S
    <3>2. n - i \in T /\ n - i \in Nat /\ x \in Nat
      BY <2>3, <2>1
    <3>3. ~(<<n - i, x>> \in OpToRel(<, Nat))
      BY <3>2, <2>3
    <3>4. ~(n - i < x)
      BY <3>2, <3>3 DEF OpToRel
    <3>. QED
      BY <3>4, <2>4
  <2>6. Innermost(S) = CHOOSE h \in S : \A i \in S : i <= h
    BY <1>2 DEF Innermost
  <2>7. \E h \in S : \A i \in S : i <= h
    BY <2>5
  <2>8. Innermost(S) \in S /\ \A i \in S : i <= Innermost(S)
    BY <2>6, <2>7, Zenon
  <2>9. \A i \in S : i \in 1..n
    OBVIOUS
  <2>10. Innermost(S) \in 1..n
    BY <2>8, <2>9, Zenon
  <2>11. Innermost(S) \in 0..n
    BY <2>10
  <2>. QED
    BY <2>8, <2>11, Zenon
<1>. QED
    BY <1>1, <1>2

LEMMA MapFacts ==
    ASSUME Nested, NEW k \in 0..Len(nest)
    PROVE  /\ Map(k) \in 0..k
           /\ Map(k) > 0 => nest[Map(k)] = "proxyerror"
           /\ \A i \in Places : Map(k) < i /\ i <= k => nest[i] # "proxyerror"
<1> DEFINE S == {j \in 1..k : nest[j] = "proxyerror"}
<1>1. k \in Nat /\ S \in SUBSET (1..k) /\ Map(k) = Innermost(S)
    BY PlaceFacts DEF Map
<1>2. /\ Map(k) \in 0..k
      /\ Map(k) > 0 => Map(k) \in S
      /\ \A i \in S : i <= Map(k)
  <2> HIDE DEF S
  <2>. QED
    BY <1>1, InnermostFacts
<1>. QED
    BY <1>2, PlaceFacts

LEMMA KeeperFacts ==
    ASSUME Nested, NEW k \in 0..Len(nest)
    PROVE  /\ Keeper(k) \in 0..k
           /\ Keeper(k) > 0 => nest[Keeper(k)] \in {"transform", "proxyerror", "compress"}
           /\ \A i \in Places : Keeper(k) < i /\ i <= k =>
                 nest[i] \notin {"transform", "proxyerror", "compress"}
<1> DEFINE S == {j \in 1..k : nest[j] \in {"transform", "proxyerror", "compress"}}
<1>1. k \in Nat /\ S \in SUBSET (1..k) /\ Keeper(k) = Innermost(S)
    BY PlaceFacts DEF Keeper
<1>2. /\ Keeper(k) \in 0..k
      /\ Keeper(k) > 0 => Keeper(k) \in S
      /\ \A i \in S : i <= Keeper(k)
  <2> HIDE DEF S
  <2>. QED
    BY <1>1, InnermostFacts
<1>. QED
    BY <1>2, PlaceFacts

(* Wrapper k keeps the body that comes to it. *)
Holds(s, k) ==
    \/ nest[k] \in {"transform", "proxyerror"}
    \/ nest[k] = "compress" /\ ~s.open[k]

LEMMA HolderFacts ==
    ASSUME Nested, NEW k \in 0..Len(nest), NEW s
    PROVE  /\ Holder(s, k) \in 0..k
           /\ Holder(s, k) > 0 => Holds(s, Holder(s, k))
           /\ \A i \in Places : Holder(s, k) < i /\ i <= k => ~Holds(s, i)
<1> DEFINE S == {j \in 1..k : \/ nest[j] \in {"transform", "proxyerror"}
                              \/ nest[j] = "compress" /\ ~s.open[j]}
<1>1. k \in Nat /\ S \in SUBSET (1..k) /\ Holder(s, k) = Innermost(S)
    BY PlaceFacts DEF Holder
<1>2. /\ Holder(s, k) \in 0..k
      /\ Holder(s, k) > 0 => Holder(s, k) \in S
      /\ \A i \in S : i <= Holder(s, k)
  <2> HIDE DEF S
  <2>. QED
    BY <1>1, InnermostFacts
<1>. QED
    BY <1>2, PlaceFacts DEF Holds

(* Only the holder has these properties. *)
LEMMA HolderIs ==
    ASSUME Nested, NEW k \in 0..Len(nest), NEW s, NEW f \in 0..k,
           f > 0 => Holds(s, f),
           \A i \in Places : f < i /\ i <= k => ~Holds(s, i)
    PROVE  Holder(s, k) = f
<1>1. Holder(s, k) \in 0..k /\ k \in Nat /\ f \in Nat /\ Len(nest) \in Nat
    BY HolderFacts, PlaceFacts
<1>2. ~(Holder(s, k) < f)
  <2>. SUFFICES ASSUME Holder(s, k) < f PROVE FALSE
    OBVIOUS
  <2>1. f \in Places
    BY <1>1, PlaceFacts
  <2>. QED
    BY <2>1, HolderFacts, <1>1
<1>3. ~(f < Holder(s, k))
  <2>. SUFFICES ASSUME f < Holder(s, k) PROVE FALSE
    OBVIOUS
  <2>1. Holder(s, k) \in Places
    BY <1>1, PlaceFacts
  <2>. QED
    BY <2>1, HolderFacts, <1>1
<1>. QED
    BY <1>1, <1>2, <1>3

(* A handler has the same header map under the wrapper k and, if there is  *)
(* no proxyerror between them, under f.                                    *)
LEMMA MapSame ==
    ASSUME Nested, NEW k \in 0..Len(nest), NEW f \in 0..k,
           \A i \in Places : f < i /\ i <= k => nest[i] # "proxyerror"
    PROVE  Map(k) = Map(f)
<1>1. /\ Len(nest) \in Nat /\ k \in Nat /\ f \in Nat /\ f \in 0..Len(nest)
      /\ Places = 1..Len(nest)
    BY PlaceFacts
<1>2. {j \in 1..k : nest[j] = "proxyerror"} = {j \in 1..f : nest[j] = "proxyerror"}
    BY <1>1
<1>. QED
    BY <1>2 DEF Map

LEMMA MapOfHolder ==
    ASSUME Nested, NEW k \in 0..Len(nest), NEW s
    PROVE  Map(k) = Map(Holder(s, k))
    BY HolderFacts, MapSame DEF Holds

LEMMA MapOfKeeper ==
    ASSUME Nested, NEW k \in 0..Len(nest)
    PROVE  Map(k) = Map(Keeper(k))
    BY KeeperFacts, MapSame

(* The status may be kept further in than the body, never further out. *)
LEMMA KeeperInside ==
    ASSUME Nested, NEW k \in 0..Len(nest), NEW s
    PROVE  Holder(s, k) <= Keeper(k)
<1>1. Holder(s, k) \in 0..k /\ Keeper(k) \in 0..k /\ Len(nest) \in Nat /\ k \in Nat
    BY HolderFacts, KeeperFacts, PlaceFacts
<1>. SUFFICES ASSUME Keeper(k) < Holder(s, k) PROVE FALSE
    BY <1>1
<1>2. Holder(s, k) \in Places
    BY <1>1, PlaceFacts
<1>. QED
    BY <1>1, <1>2, HolderFacts, KeeperFacts DEF Holds

-----------------------------------------------------------------------------
(* What a headers middleware makes of the headers set so far. *)
Marked(D) == (D \ {"unwanted"}) \union {"added"}

(* A headers middleware between places j and k has not been passed yet. *)
Due(s, j, k) ==
    \E i \in Places : j < i /\ i <= k /\ nest[i] = "headers" /\ ~s.open[i]

LEMMA WritersFields ==
    ASSUME NEW s \in Writers
    PROVE  /\ s = [hdr |-> s.hdr, held |-> s.held, open |-> s.open,
                   logged |-> s.logged, wire |-> s.wire, head |-> s.head]
           /\ s.hdr \in [0..Len(nest) -> SUBSET Names]
           /\ s.held \in [Places -> Message]
           /\ s.open \in [Places -> BOOLEAN]
           /\ s.logged \in [Places -> Statuses \union {"none", "500"}]
           /\ s.wire \in Message
           /\ s.head \in SUBSET Names
    BY DEF Writers

LEMMA ChangeEffect ==
    ASSUME Nested, NEW s \in Writers, NEW k \in 0..Len(nest),
           NEW removed, NEW added, \A x \in added : x \in Names
    PROVE  LET t == Change(s, k, removed, added)
           IN /\ t \in Writers
              /\ t.held = s.held /\ t.open = s.open /\ t.logged = s.logged
              /\ t.wire = s.wire /\ t.head = s.head
              /\ t.hdr[Map(k)] = (s.hdr[Map(k)] \ removed) \union added
              /\ \A m \in 0..Len(nest) : m # Map(k) => t.hdr[m] = s.hdr[m]
<1> DEFINE t == Change(s, k, removed, added)
<1>1. Map(k) \in 0..Len(nest)
    BY MapFacts, PlaceFacts
<1>2. s.hdr \in [0..Len(nest) -> SUBSET Names]
    BY WritersFields
<1> DEFINE h == [s.hdr EXCEPT ![Map(k)] = (s.hdr[Map(k)] \ removed) \union added]
<1>4. /\ h \in [0..Len(nest) -> SUBSET Names]
      /\ h[Map(k)] = (s.hdr[Map(k)] \ removed) \union added
      /\ \A m \in 0..Len(nest) : m # Map(k) => h[m] = s.hdr[m]
    BY <1>1, <1>2
<1>5. t = [s EXCEPT !.hdr = h]
    BY DEF Change
<1> HIDE DEF t, h
<1>6. /\ t \in Writers
      /\ t.held = s.held /\ t.open = s.open /\ t.logged = s.logged
      /\ t.wire = s.wire /\ t.head = s.head /\ t.hdr = h
    BY <1>4, <1>5 DEF Writers
<1>. QED
    BY <1>4, <1>6 DEF t

(* From s to t, the header middlewares between places j and k are passed:  *)
(* they change the headers, once.                                          *)
HeadersPassed(s, t, j, k) ==
    /\ t.logged = s.logged
    /\ \A i \in Places :
          t.open[i] <=> s.open[i] \/ (j < i /\ i <= k /\ nest[i] = "headers")
    /\ t.hdr[Map(k)] = IF Due(s, j, k) THEN Marked(s.hdr[Map(k)]) ELSE s.hdr[Map(k)]
    /\ \A m \in 0..Len(nest) : m # Map(k) => t.hdr[m] = s.hdr[m]

LEMMA ApplyEffect ==
    ASSUME Nested, NEW s \in Writers, NEW k \in 0..Len(nest), NEW j \in 0..k
    PROVE  LET t == Apply(s, j, k)
           IN /\ t \in Writers
              /\ t.held = s.held /\ t.wire = s.wire /\ t.head = s.head
              /\ HeadersPassed(s, t, j, k)
<1> DEFINE t == Apply(s, j, k)
<1> SUFFICES /\ t \in Writers
             /\ t.held = s.held /\ t.logged = s.logged
             /\ t.wire = s.wire /\ t.head = s.head
             /\ \A i \in Places :
                   t.open[i] <=> s.open[i] \/ (j < i /\ i <= k /\ nest[i] = "headers")
             /\ t.hdr[Map(k)] = IF Due(s, j, k) THEN Marked(s.hdr[Map(k)])
                                                ELSE s.hdr[Map(k)]
             /\ \A m \in 0..Len(nest) : m # Map(k) => t.hdr[m] = s.hdr[m]
    BY DEF HeadersPassed
<1> DEFINE due == {i \in j + 1..k : nest[i] = "headers" /\ ~s.open[i]}
<1>1. /\ Len(nest) \in Nat /\ k \in Nat /\ j \in Nat /\ Places = 1..Len(nest)
      /\ k <= Len(nest)
    BY PlaceFacts
<1>2. due = {i \in Places : j < i /\ i <= k /\ nest[i] = "headers" /\ ~s.open[i]}
    BY <1>1
<1>3. Due(s, j, k) <=> due # {}
    BY <1>2 DEF Due
<1>4. CASE due = {}
  <2>1. t = s
    BY <1>4 DEF Apply
  <2>2. ~Due(s, j, k)
    BY <1>3, <1>4
  <2>3. \A i \in Places : j < i /\ i <= k /\ nest[i] = "headers" => s.open[i]
    BY <2>2 DEF Due
  <2>4. \A i \in Places :
           s.open[i] <=> s.open[i] \/ (j < i /\ i <= k /\ nest[i] = "headers")
    BY <2>3
  <2>. HIDE DEF t, due
  <2>. QED
    BY <2>1, <2>2, <2>4 DEF t
<1>5. CASE due # {}
  <2> DEFINE c == Change(s, k, {"unwanted"}, {"added"})
             o == [i \in Places |-> c.open[i] \/ i \in due]
  <2>1. t = [c EXCEPT !.open = o]
    BY <1>5 DEF Apply
  <2>2. /\ c \in Writers
        /\ c.held = s.held /\ c.open = s.open /\ c.logged = s.logged
        /\ c.wire = s.wire /\ c.head = s.head
        /\ c.hdr[Map(k)] = Marked(s.hdr[Map(k)])
        /\ \A m \in 0..Len(nest) : m # Map(k) => c.hdr[m] = s.hdr[m]
    <3> DEFINE R == {"unwanted"}
               A == {"added"}
    <3>1. \A x \in A : x \in Names
      BY DEF Names
    <3>2. c = Change(s, k, R, A)
      OBVIOUS
    <3>3. Marked(s.hdr[Map(k)]) = (s.hdr[Map(k)] \ R) \union A
      BY DEF Marked
    <3> HIDE DEF R, A, c
    <3>4. /\ c \in Writers
          /\ c.held = s.held /\ c.open = s.open /\ c.logged = s.logged
          /\ c.wire = s.wire /\ c.head = s.head
          /\ c.hdr[Map(k)] = (s.hdr[Map(k)] \ R) \union A
          /\ \A m \in 0..Len(nest) : m # Map(k) => c.hdr[m] = s.hdr[m]
      BY <3>1, <3>2, ChangeEffect
    <3>. QED
      BY <3>3, <3>4
  <2>3. c.open \in [Places -> BOOLEAN]
    <3> HIDE DEF c
    <3>. QED
      BY <2>2, WritersFields
  <2>4. o \in [Places -> BOOLEAN] /\ \A i \in Places : o[i] <=> c.open[i] \/ i \in due
    BY <2>3
  <2> HIDE DEF t, c, o
  <2>5. /\ t \in Writers
        /\ t.held = c.held /\ t.logged = c.logged /\ t.hdr = c.hdr
        /\ t.wire = c.wire /\ t.head = c.head /\ t.open = o
    BY <2>1, <2>2, <2>4 DEF Writers
  <2>6. \A i \in Places :
           t.open[i] <=> s.open[i] \/ (j < i /\ i <= k /\ nest[i] = "headers")
    <3>1. ASSUME NEW i \in Places
          PROVE  t.open[i] <=> s.open[i] \/ (j < i /\ i <= k /\ nest[i] = "headers")
      <4>1. t.open[i] <=> s.open[i] \/ i \in due
        BY <2>2, <2>4, <2>5
      <4>2. i \in due <=> j < i /\ i <= k /\ nest[i] = "headers" /\ ~s.open[i]
        BY <1>2
      <4> HIDE DEF due
      <4>. QED
        BY <4>1, <4>2
    <3>. QED
      BY <3>1
  <2> HIDE DEF due
  <2>. QED
    BY <1>3, <1>5, <2>2, <2>5, <2>6 DEF t
<1>. QED
    BY <1>4, <1>5

LEMMA BeginEffect ==
    ASSUME Nested, NEW s \in Writers, NEW status \in Statuses \union {"500"}
    PROVE  LET t == Begin(s, status)
           IN /\ t \in Writers
              /\ t.hdr = s.hdr /\ t.held = s.held /\ t.open = s.open
              /\ t.logged = s.logged
              /\ t.wire = [s.wire EXCEPT !.status =
                             IF s.wire.status = "none" THEN status ELSE @]
              /\ t.head = IF s.wire.status = "none" THEN s.hdr[0] ELSE s.head
<1> DEFINE t == Begin(s, status)
           w == [s.wire EXCEPT !.status = IF s.wire.status = "none" THEN status ELSE @]
<1>1. 0 \in 0..Len(nest)
    BY PlaceFacts
<1>2. s.hdr[0] \in SUBSET Names /\ s.wire \in Message /\ s.head \in SUBSET Names
    BY <1>1, WritersFields
<1>3. w \in Message
    BY <1>2 DEF Message
<1>4. t = [s EXCEPT !.wire = w,
                    !.head = IF s.wire.status = "none" THEN s.hdr[0] ELSE s.head]
  <2>1. CASE s.wire.status = "none"
    BY <2>1 DEF Begin, Writers
  <2>2. CASE s.wire.status # "none"
    <3>1. w = s.wire
      BY <2>2, <1>2 DEF Message
    <3>2. t = s
      BY <2>2 DEF Begin
    <3> HIDE DEF w, t
    <3>. QED
      BY <2>2, <3>1, <3>2, WritersFields DEF Writers
  <2>. QED
    BY <2>1, <2>2
<1> HIDE DEF t, w
<1>5. /\ t \in Writers
      /\ t.hdr = s.hdr /\ t.held = s.held /\ t.open = s.open
      /\ t.logged = s.logged /\ t.wire = w
      /\ t.head = IF s.wire.status = "none" THEN s.hdr[0] ELSE s.head
    BY <1>2, <1>3, <1>4 DEF Writers
<1>. QED
    BY <1>5 DEF t, w

(* A status is kept by the loggers that it passes, and then stays. *)
StatusPut(s, t, j, k, status) ==
    /\ HeadersPassed(s, t, j, k)
    /\ \A i \in Places :
          i < j \/ i > k \/ (j < i /\ nest[i] # "log") => t.held[i] = s.held[i]
    /\ \A i \in Places :
          j < i /\ i <= k /\ nest[i] = "log" => t.held[i].status = status
    /\ j > 0 =>
          /\ t.held[j] = [s.held[j] EXCEPT !.status =
                IF nest[j] = "proxyerror" /\ s.held[j].status # "none"
                   THEN s.held[j].status ELSE status]
          /\ t.wire = s.wire /\ t.head = s.head
    /\ j = 0 =>
          /\ t.wire = [s.wire EXCEPT !.status =
                         IF s.wire.status = "none" THEN status ELSE @]
          /\ t.head = IF s.wire.status = "none" THEN t.hdr[0] ELSE s.head

LEMMA PutStatusEffect ==
    ASSUME Nested, NEW s \in Writers, NEW k \in 0..Len(nest),
           NEW status \in Statuses \union {"500"}
    PROVE  /\ PutStatus(s, k, status) \in Writers
           /\ StatusPut(s, PutStatus(s, k, status), Keeper(k), k, status)
<1> DEFINE j == Keeper(k)
           a == Apply(s, j, k)
           keep == {i \in Places :
                      /\ j <= i /\ i <= k
                      /\ \/ nest[i] \in {"log", "transform", "compress"}
                         \/ nest[i] = "proxyerror" /\ s.held[i].status = "none"}
           h == [i \in Places |->
                   IF i \in keep THEN [s.held[i] EXCEPT !.status = status] ELSE s.held[i]]
           v == [a EXCEPT !.held = h]
           t == PutStatus(s, k, status)
<1>1. /\ Len(nest) \in Nat /\ k \in Nat /\ j \in 0..k /\ j \in Nat
      /\ Places = 1..Len(nest) /\ k <= Len(nest)
    BY PlaceFacts, KeeperFacts
<1>2. /\ a \in Writers
      /\ a.held = s.held /\ a.logged = s.logged
      /\ a.wire = s.wire /\ a.head = s.head
      /\ \A i \in Places :
            a.open[i] <=> s.open[i] \/ (j < i /\ i <= k /\ nest[i] = "headers")
      /\ a.hdr[Map(k)] = IF Due(s, j, k) THEN Marked(s.hdr[Map(k)])
                                         ELSE s.hdr[Map(k)]
      /\ \A m \in 0..Len(nest) : m # Map(k) => a.hdr[m] = s.hdr[m]
  <2> HIDE DEF j
  <2>1. /\ Apply(s, j, k) \in Writers
        /\ Apply(s, j, k).held = s.held
        /\ Apply(s, j, k).wire = s.wire /\ Apply(s, j, k).head = s.head
        /\ HeadersPassed(s, Apply(s, j, k), j, k)
    BY <1>1, ApplyEffect
  <2>. QED
    BY <2>1 DEF HeadersPassed
<1>3. t = IF j = 0 THEN Begin(v, status) ELSE v
  <2>1. v = [a EXCEPT !.held = [i \in Places |-> IF i \in keep
                THEN [@[i] EXCEPT !.status = status] ELSE @[i]]]
    <3>1. a.held = s.held
      BY <1>2
    <3> HIDE DEF a, keep
    <3>. QED
      BY <3>1
  <2>. QED
    BY <2>1 DEF PutStatus
<1>4. s.held \in [Places -> Message]
    BY WritersFields
<1>5. h \in [Places -> Message]
  <2>1. \A i \in Places : [s.held[i] EXCEPT !.status = status] \in Message
    BY <1>4 DEF Message
  <2> HIDE DEF keep
  <2>. QED
    BY <2>1, <1>4
<1>6. /\ \A i \in Places : h[i] = IF i \in keep
              THEN [s.held[i] EXCEPT !.status = status] ELSE s.held[i]
    OBVIOUS
<1>7. \A i \in Places : i < j \/ i > k \/ (j < i /\ nest[i] # "log") => i \notin keep
  <2>1. \A i \in Places : j < i /\ i <= k =>
           nest[i] \notin {"transform", "proxyerror", "compress"}
    BY KeeperFacts
  <2>. QED
    BY <2>1, <1>1
<1>8. \A i \in Places : j < i /\ i <= k /\ nest[i] = "log" => i \in keep
    BY <1>1
<1>9. j > 0 => j \in Places /\ (j \in keep <=> nest[j] # "proxyerror" \/ s.held[j].status = "none")
  <2>1. j > 0 => nest[j] \in {"transform", "proxyerror", "compress"}
    BY KeeperFacts
  <2>. QED
    BY <2>1, <1>1
<1> HIDE DEF j, a, keep, h
<1>10. /\ v \in Writers
       /\ v.logged = s.logged /\ v.open = a.open /\ v.hdr = a.hdr
       /\ v.wire = s.wire /\ v.head = s.head /\ v.held = h
    BY <1>2, <1>5 DEF Writers
<1> HIDE DEF v, t
<1>11. /\ t \in Writers
       /\ t.logged = s.logged /\ t.open = a.open /\ t.hdr = a.hdr /\ t.held = h
       /\ j > 0 => t.wire = s.wire /\ t.head = s.head
       /\ j = 0 =>
             /\ t.wire = [s.wire EXCEPT !.status =
                            IF s.wire.status = "none" THEN status ELSE @]
             /\ t.head = IF s.wire.status = "none" THEN t.hdr[0] ELSE s.head
    BY <1>1, <1>3, <1>10, BeginEffect
<1>12. \A i \in Places :
          /\ i < j \/ i > k \/ (j < i /\ nest[i] # "log") => t.held[i] = s.held[i]
          /\ j < i /\ i <= k /\ nest[i] = "log" => t.held[i].status = status
  <2>1. \A i \in Places : [s.held[i] EXCEPT !.status = status].status = status
    BY <1>4 DEF Message
  <2>. QED
    BY <1>6, <1>7, <1>8, <1>11, <2>1
<1>13. j > 0 => t.held[j] = [s.held[j] EXCEPT !.status =
                   IF nest[j] = "proxyerror" /\ s.held[j].status # "none"
                      THEN s.held[j].status ELSE status]
  <2>. SUFFICES ASSUME j > 0
                PROVE  t.held[j] = [s.held[j] EXCEPT !.status =
                          IF nest[j] = "proxyerror" /\ s.held[j].status # "none"
                             THEN s.held[j].status ELSE status]
    OBVIOUS
  <2>1. j \in Places /\ s.held[j] \in Message
    BY <1>4, <1>9
  <2>2. [s.held[j] EXCEPT !.status = s.held[j].status] = s.held[j]
    BY <2>1 DEF Message
  <2>. QED
    BY <1>6, <1>9, <1>11, <2>1, <2>2
<1>14. HeadersPassed(s, t, j, k)
    BY <1>2, <1>11 DEF HeadersPassed
<1>. QED
    BY <1>11, <1>12, <1>13, <1>14 DEF j, t, StatusPut

-----------------------------------------------------------------------------
(* A status that is not given is a 200. *)
Eff(status) == IF status = "none" THEN "ok" ELSE status

(* What writer f has got, and the headers that go with it. *)
Stored(s, f) == IF f = 0 THEN s.wire ELSE s.held[f]

Heads(s, f) == IF f = 0 /\ s.wire.status # "none" THEN s.head ELSE s.hdr[Map(f)]

LEMMA StoredType ==
    ASSUME Nested, NEW s \in Writers, NEW f \in 0..Len(nest)
    PROVE  Stored(s, f) \in Message
    BY PlaceFacts, WritersFields DEF Stored

(* What a body that comes to writer j does. *)
BodyHeld(s, t, j, body, form) ==
    /\ t.hdr = s.hdr /\ t.open = s.open /\ t.logged = s.logged
    /\ \A i \in Places : i # j => t.held[i] = s.held[i]
    /\ j > 0 => t.wire = s.wire /\ t.head = s.head
    /\ j = 0 => t.head = IF s.wire.status = "none" THEN t.hdr[0] ELSE s.head
    /\ Stored(t, j).body = Stored(s, j).body \o body
    /\ Stored(t, j).form = Stored(s, j).form \union form
    /\ Stored(t, j).status = IF j = 0 \/ nest[j] = "proxyerror"
                                THEN Eff(Stored(s, j).status)
                                ELSE Stored(s, j).status

LEMMA HoldEffect ==
    ASSUME Nested, NEW s \in Writers, NEW j \in 0..Len(nest),
           NEW body \in Seq({"piece", "message"}), NEW form,
           \A x \in form : x \in {"gzip", "edited"}
    PROVE  /\ Hold(s, j, body, form) \in Writers
           /\ BodyHeld(s, Hold(s, j, body, form), j, body, form)
<1> DEFINE t == Hold(s, j, body, form)
<1> SUFFICES t \in Writers /\ BodyHeld(s, t, j, body, form)
    OBVIOUS
<1>1. CASE j = 0
  <2> DEFINE a == Begin(s, "ok")
             w == [a.wire EXCEPT !.body = @ \o body, !.form = @ \union form]
  <2>1. /\ a \in Writers
        /\ a.hdr = s.hdr /\ a.held = s.held /\ a.open = s.open /\ a.logged = s.logged
        /\ a.wire = [s.wire EXCEPT !.status = IF s.wire.status = "none" THEN "ok" ELSE @]
        /\ a.head = IF s.wire.status = "none" THEN s.hdr[0] ELSE s.head
    <3>1. "ok" \in Statuses \union {"500"}
      BY DEF Statuses
    <3>. QED
      BY <3>1, BeginEffect
  <2>2. t = [a EXCEPT !.wire = w]
    BY <1>1 DEF Hold
  <2>3. a.wire \in Message /\ s.wire \in Message
    <3> HIDE DEF a
    <3>. QED
      BY <2>1, WritersFields
  <2> HIDE DEF a
  <2>4. w \in Message /\ w.body = a.wire.body \o body
        /\ w.form = a.wire.form \union form /\ w.status = a.wire.status
    <3>1. a.wire.body \o body \in Seq({"piece", "message"})
      BY <2>3 DEF Message
    <3>2. a.wire.form \union form \in SUBSET {"gzip", "edited"}
      BY <2>3 DEF Message
    <3>. QED
      BY <2>3, <3>1, <3>2 DEF Message
  <2>5. /\ a.wire.body = s.wire.body /\ a.wire.form = s.wire.form
        /\ a.wire.status = Eff(s.wire.status)
    BY <2>1, <2>3 DEF Message, Eff
  <2> HIDE DEF w, t
  <2>6. /\ t \in Writers
        /\ t.hdr = a.hdr /\ t.open = a.open /\ t.logged = a.logged /\ t.held = a.held
        /\ t.wire = w /\ t.head = a.head
    BY <2>1, <2>2, <2>4 DEF Writers
  <2>7. Stored(t, j) = w /\ Stored(s, j) = s.wire
    BY <1>1, <2>6 DEF Stored
  <2>8. \A i \in Places : t.held[i] = s.held[i]
    BY <2>1, <2>6
  <2>9. /\ Stored(t, j).body = Stored(s, j).body \o body
        /\ Stored(t, j).form = Stored(s, j).form \union form
        /\ Stored(t, j).status = Eff(Stored(s, j).status)
    BY <2>4, <2>5, <2>7
  <2>10. /\ t.hdr = s.hdr /\ t.open = s.open /\ t.logged = s.logged
         /\ t.head = IF s.wire.status = "none" THEN t.hdr[0] ELSE s.head
    BY <2>1, <2>6
  <2>. QED
    BY <1>1, <2>6, <2>8, <2>9, <2>10 DEF BodyHeld
<1>2. CASE j # 0
  <2> DEFINE m == [s.held[j] EXCEPT !.body = @ \o body, !.form = @ \union form,
                     !.status = IF nest[j] = "proxyerror" THEN Default(s, j) ELSE @]
             h == [s.held EXCEPT ![j] = m]
  <2>1. j \in Places /\ j > 0
    BY <1>2, PlaceFacts
  <2>2. s.held \in [Places -> Message] /\ s.held[j] \in Message
    BY <2>1, WritersFields
  <2>3. t = [s EXCEPT !.held = h]
    BY <1>2 DEF Hold
  <2>4. Default(s, j) = Eff(s.held[j].status)
    BY DEF Default, Eff
  <2>5. /\ m \in Message /\ m.body = s.held[j].body \o body
        /\ m.form = s.held[j].form \union form
        /\ m.status = IF nest[j] = "proxyerror" THEN Eff(s.held[j].status)
                                                ELSE s.held[j].status
    <3>1. Eff(s.held[j].status) \in Statuses \union {"none", "500"}
      BY <2>2 DEF Eff, Message, Statuses
    <3>2. s.held[j].body \o body \in Seq({"piece", "message"})
      BY <2>2 DEF Message
    <3>3. s.held[j].form \union form \in SUBSET {"gzip", "edited"}
      BY <2>2 DEF Message
    <3>. QED
      BY <2>2, <2>4, <3>1, <3>2, <3>3 DEF Message
  <2> HIDE DEF m
  <2>6. /\ h \in [Places -> Message] /\ h[j] = m
        /\ \A i \in Places : i # j => h[i] = s.held[i]
    BY <2>1, <2>2, <2>5
  <2> HIDE DEF h, t
  <2>7. /\ t \in Writers
        /\ t.hdr = s.hdr /\ t.open = s.open /\ t.logged = s.logged /\ t.held = h
        /\ t.wire = s.wire /\ t.head = s.head
    BY <2>3, <2>6 DEF Writers
  <2>8. Stored(t, j) = m /\ Stored(s, j) = s.held[j]
    BY <2>1, <2>6, <2>7 DEF Stored
  <2>. QED
    BY <1>2, <2>1, <2>5, <2>6, <2>7, <2>8 DEF BodyHeld
<1>. QED
    BY <1>1, <1>2

(* What a body that comes from under wrapper k does. *)
Gzipped(j, k) == IF \E i \in j + 1..k : nest[i] = "compress" THEN {"gzip"} ELSE {}

BodyDelivered(s, t, j, k, body, form) ==
    /\ HeadersPassed(s, t, j, k)
    /\ \A i \in Places : i # j => t.held[i] = s.held[i]
    /\ j > 0 => t.wire = s.wire /\ t.head = s.head
    /\ j = 0 => t.head = IF s.wire.status = "none" THEN t.hdr[0] ELSE s.head
    /\ Stored(t, j).body = Stored(s, j).body \o body
    /\ Stored(t, j).form = Stored(s, j).form \union form \union Gzipped(j, k)
    /\ Stored(t, j).status = IF j = 0 \/ nest[j] = "proxyerror"
                                THEN Eff(Stored(s, j).status)
                                ELSE Stored(s, j).status

LEMMA DeliverEffect ==
    ASSUME Nested, NEW s \in Writers, NEW k \in 0..Len(nest),
           NEW body \in Seq({"piece", "message"}), NEW form,
           \A x \in form : x \in {"gzip", "edited"}
    PROVE  /\ Deliver(s, k, body, form) \in Writers
           /\ BodyDelivered(s, Deliver(s, k, body, form), Holder(s, k), k, body, form)
<1> DEFINE j == Holder(s, k)
           a == Apply(s, j, k)
           t == Deliver(s, k, body, form)
           F == form \union Gzipped(j, k)
<1>1. j \in 0..k /\ j \in 0..Len(nest)
    BY PlaceFacts, HolderFacts
<1>2. /\ a \in Writers
      /\ a.held = s.held /\ a.logged = s.logged
      /\ a.wire = s.wire /\ a.head = s.head
      /\ \A i \in Places :
            a.open[i] <=> s.open[i] \/ (j < i /\ i <= k /\ nest[i] = "headers")
      /\ a.hdr[Map(k)] = IF Due(s, j, k) THEN Marked(s.hdr[Map(k)])
                                         ELSE s.hdr[Map(k)]
      /\ \A m \in 0..Len(nest) : m # Map(k) => a.hdr[m] = s.hdr[m]
  <2> HIDE DEF j
  <2>1. /\ Apply(s, j, k) \in Writers
        /\ Apply(s, j, k).held = s.held
        /\ Apply(s, j, k).wire = s.wire /\ Apply(s, j, k).head = s.head
        /\ HeadersPassed(s, Apply(s, j, k), j, k)
    BY <1>1, ApplyEffect
  <2>. QED
    BY <2>1 DEF HeadersPassed
<1>3. t = Hold(a, j, body, F)
    BY DEF Deliver, Gzipped
<1>4. \A x \in F : x \in {"gzip", "edited"}
    BY DEF Gzipped
<1>5. F = form \union Gzipped(j, k)
    OBVIOUS
<1>6. Stored(a, j) = Stored(s, j)
    BY <1>2 DEF Stored
<1> HIDE DEF j, a, F, t
<1>7. /\ t \in Writers
      /\ t.hdr = a.hdr /\ t.open = a.open /\ t.logged = a.logged
      /\ \A i \in Places : i # j => t.held[i] = a.held[i]
      /\ j > 0 => t.wire = a.wire /\ t.head = a.head
      /\ j = 0 => t.head = IF a.wire.status = "none" THEN t.hdr[0] ELSE a.head
      /\ Stored(t, j).body = Stored(a, j).body \o body
      /\ Stored(t, j).form = Stored(a, j).form \union F
      /\ Stored(t, j).status = IF j = 0 \/ nest[j] = "proxyerror"
                                  THEN Eff(Stored(a, j).status)
                                  ELSE Stored(a, j).status
  <2>1. a \in Writers /\ j \in 0..Len(nest)
    BY <1>1, <1>2
  <2>2. /\ Hold(a, j, body, F) \in Writers
        /\ BodyHeld(a, Hold(a, j, body, F), j, body, F)
    BY <2>1, <1>4, HoldEffect
  <2>. QED
    BY <1>3, <2>2 DEF BodyHeld
<1>8. Stored(t, j).form = Stored(s, j).form \union form \union Gzipped(j, k)
    BY <1>5, <1>6, <1>7
<1>9. HeadersPassed(s, t, j, k)
    BY <1>2, <1>7 DEF HeadersPassed
<1>. QED
    BY <1>2, <1>6, <1>7, <1>8, <1>9 DEF j, t, BodyDelivered

-----------------------------------------------------------------------------
(* The holders are told by what the compression has committed only. *)
LEMMA HolderSame ==
    ASSUME Nested, NEW k \in 0..Len(nest), NEW s, NEW t,
           \A i \in Places : nest[i] = "compress" => (t.open[i] <=> s.open[i])
    PROVE  Holder(t, k) = Holder(s, k)
<1> DEFINE f == Holder(s, k)
<1>1. f \in 0..k /\ k <= Len(nest) /\ Places = 1..Len(nest) /\ k \in Nat
      /\ Len(nest) \in Nat
    BY HolderFacts, PlaceFacts
<1>2. f > 0 => Holds(s, f)
    BY HolderFacts
<1>3. \A i \in Places : f < i /\ i <= k => ~Holds(s, i)
    BY HolderFacts
<1> HIDE DEF f
<1>4. f > 0 => Holds(t, f)
    BY <1>1, <1>2 DEF Holds
<1>5. \A i \in Places : f < i /\ i <= k => ~Holds(t, i)
    BY <1>3 DEF Holds
<1>6. Holder(t, k) = f
    BY <1>1, <1>4, <1>5, HolderIs
<1>. QED
    BY <1>6 DEF f

LEMMA MapZero == Nested => Map(0) = 0
<1> SUFFICES ASSUME Nested PROVE Map(0) = 0
    OBVIOUS
<1>1. 0 \in 0..Len(nest)
    BY PlaceFacts
<1>2. Map(0) \in 0..0
    BY <1>1, MapFacts
<1>. QED
    BY <1>2

(* What a status or a body does to the headers that go with writer f. *)
LEMMA HeadsAfter ==
    ASSUME Nested, NEW f \in 0..Len(nest), NEW k, Map(k) = Map(f),
           NEW s, NEW t, NEW due \in BOOLEAN,
           t.hdr[Map(k)] = IF due THEN Marked(s.hdr[Map(k)]) ELSE s.hdr[Map(k)],
           f = 0 => (s.wire.status = "none" => t.wire.status = "none" \/ t.head = t.hdr[0]),
           f = 0 => (s.wire.status # "none" => t.wire.status # "none" /\ t.head = s.head)
    PROVE  Heads(t, f) = IF due /\ ~(f = 0 /\ s.wire.status # "none")
                            THEN Marked(Heads(s, f)) ELSE Heads(s, f)
<1>1. CASE f = 0
    BY <1>1, MapZero DEF Heads
<1>2. CASE f # 0
    BY <1>2 DEF Heads
<1>. QED
    BY <1>1, <1>2

(* What wrapper k sends outwards, through wrappers that nothing has come   *)
(* to yet, comes to their holder l as it was sent.                         *)
Moved(s, t, l, k, status, body, form) ==
    /\ t.logged = s.logged
    /\ \A i \in Places :
          t.open[i] <=> s.open[i] \/ (l < i /\ i < k /\ nest[i] = "headers")
    /\ \A i \in Places : i < l \/ i >= k => t.held[i] = s.held[i]
    /\ \A i \in Places :
          l < i /\ i < k /\ nest[i] = "log" => t.held[i].status = status
    /\ l > 0 => t.wire = s.wire /\ t.head = s.head
    /\ \A m \in 0..Len(nest) : m # Map(k - 1) => t.hdr[m] = s.hdr[m]
    /\ Heads(t, l) = IF Due(s, l, k - 1) THEN Marked(s.hdr[Map(k - 1)])
                                         ELSE s.hdr[Map(k - 1)]
    /\ Stored(t, l).body = body
    /\ Stored(t, l).form = form
    /\ Eff(Stored(t, l).status) = Eff(status)
    /\ status # "none" => Stored(t, l).status = status
    /\ l = 0 => t.wire.status # "none"

LEMMA MoveEffect ==
    ASSUME Nested, NEW s \in Writers, NEW k \in Places,
           \A i \in Places : i < k => s.held[i] = None /\ ~s.open[i],
           s.wire = None,
           NEW status \in Statuses \union {"none", "500"},
           NEW body \in Seq({"piece", "message"}), NEW form,
           \A x \in form : x \in {"gzip", "edited"}
    PROVE  LET l == Holder(s, k - 1)
               v == IF status = "none" THEN s ELSE PutStatus(s, k - 1, status)
               t == Deliver(v, k - 1, body, form)
           IN /\ v \in Writers /\ t \in Writers
              /\ Holder(v, k - 1) = l
              /\ Moved(s, t, l, k, status, body, form)
<1> DEFINE n == k - 1
           l == Holder(s, n)
           v == IF status = "none" THEN s ELSE PutStatus(s, n, status)
           t == Deliver(v, n, body, form)
<1>1. /\ Len(nest) \in Nat /\ k \in Nat /\ n \in Nat /\ n \in 0..Len(nest)
      /\ Places = 1..Len(nest) /\ n < k
      /\ \A i \in Places : i <= n <=> i < k
    BY PlaceFacts
<1>0. n \in 0..Len(nest)
    BY <1>1
<1> HIDE DEF n
<1>2. /\ l \in 0..n /\ l \in Nat /\ l \in 0..Len(nest)
      /\ Map(n) = Map(l)
      /\ \A i \in Places : l < i /\ i <= n => ~Holds(s, i)
    BY <1>1, HolderFacts, MapOfHolder
<1>3. Keeper(n) = l
  <2>1. l <= Keeper(n) /\ Keeper(n) \in 0..n
    BY <1>1, KeeperInside, KeeperFacts
  <2>2. ASSUME l < Keeper(n) PROVE FALSE
    <3> DEFINE j == Keeper(n)
    <3>1. j \in Places /\ j < k /\ l < j /\ j <= n
      BY <1>1, <1>2, <2>1, <2>2
    <3>2. nest[j] \in {"transform", "proxyerror", "compress"}
      BY <1>1, <3>1, KeeperFacts
    <3> HIDE DEF j
    <3>3. Holds(s, j)
      BY <3>1, <3>2 DEF Holds
    <3>. QED
      BY <1>2, <3>1, <3>3
  <2>. QED
    BY <1>2, <2>1, <2>2
<1>4. Stored(s, l) = None
  <2>1. l > 0 => l \in Places /\ l < k
    BY <1>1, <1>2
  <2> HIDE DEF l
  <2>. QED
    BY <1>2, <2>1 DEF Stored
<1>5. Gzipped(l, n) = {}
  <2>1. ASSUME NEW i \in l + 1..n, nest[i] = "compress" PROVE FALSE
    <3>1. i \in Places /\ l < i /\ i <= n /\ i < k
      BY <1>1, <1>2, <2>1
    <3> HIDE DEF l
    <3>. QED
      BY <1>2, <2>1, <3>1 DEF Holds
  <2> HIDE DEF l
  <2>. QED
    BY <2>1 DEF Gzipped
(* the state after the status *)
<1>6. /\ v \in Writers
      /\ v.logged = s.logged
      /\ \A i \in Places : v.open[i] =>
            s.open[i] \/ (l < i /\ i <= n /\ nest[i] = "headers")
      /\ \A i \in Places : s.open[i] => v.open[i]
      /\ \A m \in 0..Len(nest) : m # Map(n) => v.hdr[m] = s.hdr[m]
      /\ \A i \in Places : i < l \/ i > n => v.held[i] = s.held[i]
      /\ \A i \in Places :
            l < i /\ i <= n /\ nest[i] = "log" => v.held[i].status = status
      /\ l > 0 => v.wire = s.wire /\ v.head = s.head
      /\ Stored(v, l).body = <<>> /\ Stored(v, l).form = {}
      /\ Stored(v, l).status = status
      /\ v.hdr[Map(n)] = IF status # "none" /\ Due(s, l, n)
                            THEN Marked(s.hdr[Map(n)]) ELSE s.hdr[Map(n)]
      /\ status # "none" => ~Due(v, l, n)
      /\ l = 0 /\ status # "none" => v.head = v.hdr[0]
  <2>1. CASE status = "none"
    <3>1. v = s
      BY <2>1
    <3>2. \A i \in Places : l < i /\ i <= n => s.held[i].status = status
      BY <1>1, <2>1 DEF None
    <3> HIDE DEF l, v
    <3>. QED
      BY <1>4, <2>1, <3>1, <3>2 DEF None
  <2>2. CASE status # "none"
    <3>1. v = PutStatus(s, n, status) /\ status \in Statuses \union {"500"}
      BY <2>2
    <3> HIDE DEF l, v
    <3>2. v \in Writers /\ StatusPut(s, v, l, n, status)
      BY <1>0, <1>3, <3>1, PutStatusEffect
    <3>3. ~Due(v, l, n)
      BY <3>2 DEF StatusPut, HeadersPassed, Due
    <3>4. Stored(v, l) = [None EXCEPT !.status = status]
      BY <1>2, <1>4, <3>2 DEF StatusPut, Stored, None
    <3>5. l = 0 => v.head = v.hdr[0]
      BY <1>4, <3>2 DEF StatusPut, Stored, None
    <3>6. /\ Stored(v, l).body = <<>> /\ Stored(v, l).form = {}
          /\ Stored(v, l).status = status
      BY <3>4 DEF None
    <3>7. \A i \in Places : v.open[i] =>
             s.open[i] \/ (l < i /\ i <= n /\ nest[i] = "headers")
      BY <3>2 DEF StatusPut, HeadersPassed
    <3>8. \A i \in Places : s.open[i] => v.open[i]
      BY <3>2 DEF StatusPut, HeadersPassed
    <3>9. \A i \in Places : i < l \/ i > n => v.held[i] = s.held[i]
      BY <3>2 DEF StatusPut, HeadersPassed
    <3>10. /\ l > 0 => v.wire = s.wire /\ v.head = s.head
           /\ v.hdr[Map(n)] = IF Due(s, l, n) THEN Marked(s.hdr[Map(n)])
                                              ELSE s.hdr[Map(n)]
      BY <3>2 DEF StatusPut, HeadersPassed
    <3>11. v.hdr[Map(n)] = IF status # "none" /\ Due(s, l, n)
                              THEN Marked(s.hdr[Map(n)]) ELSE s.hdr[Map(n)]
      BY <2>2, <3>10
    <3>12. /\ v \in Writers
           /\ v.logged = s.logged
           /\ \A m \in 0..Len(nest) : m # Map(n) => v.hdr[m] = s.hdr[m]
           /\ \A i \in Places :
                 l < i /\ i <= n /\ nest[i] = "log" => v.held[i].status = status
           /\ l > 0 => v.wire = s.wire /\ v.head = s.head
      BY <3>2 DEF StatusPut, HeadersPassed
    <3>. QED
      BY <2>2, <3>3, <3>5, <3>6, <3>7, <3>8, <3>9, <3>11, <3>12
  <2>. QED
    BY <2>1, <2>2
<1>7. Holder(v, n) = l
  <2>1. \A i \in Places : nest[i] = "compress" => (v.open[i] <=> s.open[i])
    <3> HIDE DEF l, v
    <3>. QED
      BY <1>6
  <2> HIDE DEF v
  <2>. QED
    BY <1>1, <2>1, HolderSame
<1> HIDE DEF l, v, t
(* the state after the body *)
<1>8. /\ t \in Writers
      /\ t.logged = v.logged
      /\ \A i \in Places :
            t.open[i] <=> v.open[i] \/ (l < i /\ i <= n /\ nest[i] = "headers")
      /\ t.hdr[Map(n)] = IF Due(v, l, n) THEN Marked(v.hdr[Map(n)]) ELSE v.hdr[Map(n)]
      /\ \A m \in 0..Len(nest) : m # Map(n) => t.hdr[m] = v.hdr[m]
      /\ \A i \in Places : i # l => t.held[i] = v.held[i]
      /\ l > 0 => t.wire = v.wire /\ t.head = v.head
      /\ l = 0 => t.head = IF v.wire.status = "none" THEN t.hdr[0] ELSE v.head
      /\ Stored(t, l).body = Stored(v, l).body \o body
      /\ Stored(t, l).form = Stored(v, l).form \union form \union Gzipped(l, n)
      /\ Stored(t, l).status = IF l = 0 \/ nest[l] = "proxyerror"
                                  THEN Eff(Stored(v, l).status)
                                  ELSE Stored(v, l).status
  <2>1. v \in Writers
    BY <1>6
  <2>2. t = Deliver(v, n, body, form)
    BY DEF t
  <2>3. t \in Writers /\ BodyDelivered(v, t, l, n, body, form)
    BY <1>0, <1>7, <2>1, <2>2, DeliverEffect
  <2>. QED
    BY <2>3 DEF BodyDelivered, HeadersPassed
<1>9. \A i \in Places :
         t.open[i] <=> s.open[i] \/ (l < i /\ i <= n /\ nest[i] = "headers")
    BY <1>6, <1>8
<1>10. /\ Stored(t, l).form = form
       /\ Eff(Stored(t, l).status) = Eff(status)
       /\ status # "none" => Stored(t, l).status = status
       /\ l = 0 => t.wire.status # "none"
  <2>1. Stored(v, l).form = {} /\ Stored(v, l).status = status
    BY <1>6
  <2>2. /\ Stored(t, l).form = Stored(v, l).form \union form \union Gzipped(l, n)
        /\ Stored(t, l).status = IF l = 0 \/ nest[l] = "proxyerror"
                                    THEN Eff(Stored(v, l).status)
                                    ELSE Stored(v, l).status
    BY <1>8
  <2>3. Stored(t, l).form = form
    BY <1>5, <2>1, <2>2
  <2>4. Stored(t, l).status = IF l = 0 \/ nest[l] = "proxyerror" THEN Eff(status) ELSE status
    BY <2>1, <2>2
  <2>5. /\ Eff(Stored(t, l).status) = Eff(status)
        /\ status # "none" => Stored(t, l).status = status
        /\ l = 0 => Stored(t, l).status # "none"
    BY <2>4 DEF Eff
  <2>6. l = 0 => Stored(t, l) = t.wire
    BY DEF Stored
  <2>. QED
    BY <2>3, <2>5, <2>6
<1>11. Stored(t, l).body = body
    BY <1>6, <1>8
<1>12. /\ \A i \in Places : i < l \/ i > n => t.held[i] = s.held[i]
       /\ \A i \in Places :
             l < i /\ i <= n /\ nest[i] = "log" => t.held[i].status = status
    BY <1>1, <1>2, <1>6, <1>8
<1>13. Due(v, l, n) <=> status = "none" /\ Due(s, l, n)
    BY <1>6, <1>9 DEF Due, v
<1>14. t.hdr[Map(n)] = IF Due(s, l, n) THEN Marked(s.hdr[Map(n)]) ELSE s.hdr[Map(n)]
    BY <1>6, <1>8, <1>13
<1>15. Heads(t, l) = t.hdr[Map(n)]
  <2>1. CASE l # 0
    BY <1>2, <2>1 DEF Heads
  <2>2. CASE l = 0
    <3>1. Map(n) = 0 /\ t.wire.status # "none"
      BY <1>2, <1>10, <2>2, MapZero
    <3>2. t.head = t.hdr[0]
      <4>1. CASE status = "none"
        BY <1>6, <1>8, <2>2, <4>1 DEF Stored
      <4>2. CASE status # "none"
        <5>1. v.head = v.hdr[0] /\ v.wire.status # "none" /\ ~Due(v, l, n)
          BY <1>6, <2>2, <4>2 DEF Stored
        <5>. QED
          BY <1>8, <2>2, <3>1, <5>1
      <4>. QED
        BY <4>1, <4>2
    <3>. QED
      BY <2>2, <3>1, <3>2 DEF Heads
  <2>. QED
    BY <2>1, <2>2
<1>16. \A m \in 0..Len(nest) : m # Map(n) => t.hdr[m] = s.hdr[m]
    BY <1>6, <1>8
<1>17. l > 0 => t.wire = s.wire /\ t.head = s.head
    BY <1>6, <1>8
<1>18. \A i \in Places : (i <= n <=> i < k) /\ (i > n <=> i >= k)
    BY <1>1
<1>19. t.logged = s.logged
    BY <1>6, <1>8
<1>20. Moved(s, t, l, k, status, body, form)
  <2>1. \A i \in Places :
           /\ t.open[i] <=> s.open[i] \/ (l < i /\ i < k /\ nest[i] = "headers")
           /\ i < l \/ i >= k => t.held[i] = s.held[i]
           /\ l < i /\ i < k /\ nest[i] = "log" => t.held[i].status = status
    BY <1>9, <1>12, <1>18
  <2>2. Heads(t, l) = IF Due(s, l, k - 1) THEN Marked(s.hdr[Map(k - 1)])
                                          ELSE s.hdr[Map(k - 1)]
    BY <1>14, <1>15 DEF n
  <2>3. \A m \in 0..Len(nest) : m # Map(k - 1) => t.hdr[m] = s.hdr[m]
    BY <1>16 DEF n
  <2>. QED
    BY <1>10, <1>11, <1>17, <1>19, <2>1, <2>2, <2>3 DEF Moved
<1>. QED
    BY <1>6, <1>7, <1>8, <1>20 DEF l, v, t, n

-----------------------------------------------------------------------------
(* The invariant.  All that has been written and is not sent yet is kept   *)
(* by one writer, the front: further out nothing has come, ...             *)
Clean(s, f) ==
    /\ \A i \in Places : i < f => s.held[i] = None /\ ~s.open[i]
    /\ f > 0 => s.wire = None /\ s.head = {}
    /\ \A m \in 0..Len(nest) : m < Map(f) => s.hdr[m] = {}

(* ... further in, the loggers have kept the status that it has, ...       *)
Told(s, f, loggers) ==
    \A i \in loggers : i > f => Eff(s.held[i].status) = Eff(Stored(s, f).status)

(* ... the headers are true of the body that it has, ...                   *)
Honest(s, f, w) ==
    /\ Len(Stored(s, f).body) = w
    /\ "length" \in Heads(s, f) => Stored(s, f).form = {}
    /\ "encoding" \in Heads(s, f) <=> "gzip" \in Stored(s, f).form
    /\ "error" \in Heads(s, f) => Stored(s, f).status = "bad"

(* ... what has passed a compression is compressed, ...                    *)
Zipped(s, n, f) ==
    \A i \in Places : nest[i] = "compress" /\ f < i /\ i <= n =>
       "gzip" \in Stored(s, f).form

(* ... and what has passed a headers middleware has its headers.           *)
Seen(s, f) ==
    \A i \in Places : nest[i] = "headers" /\ f < i /\ s.open[i] =>
       "added" \in Heads(s, f) /\ "unwanted" \notin Heads(s, f)

Ready(s, f) == \A i \in Places : nest[i] = "headers" /\ f < i => s.open[i]

(* With w pieces written in c calls, under n wrappers.                     *)
Good(s, n, f, w, c, running) ==
    /\ Honest(s, f, w)
    /\ Zipped(s, n, f)
    /\ Seen(s, f)
    /\ c > 0 => Ready(s, f)
    /\ running => "error" \notin Heads(s, f)

(* Nothing has come to the wrappers outside of k.                          *)
Below(s, k) ==
    /\ \A i \in Places : i < k => s.held[i] = None /\ ~s.open[i]
    /\ s.wire = None /\ s.head = {}
    /\ \A m \in 0..Len(nest) : m < Map(k - 1) => s.hdr[m] = {}

LEMMA MarkedFacts ==
    ASSUME NEW D
    PROVE  /\ "added" \in Marked(D) /\ "unwanted" \notin Marked(D)
           /\ \A x : x \notin {"added", "unwanted"} => (x \in Marked(D) <=> x \in D)
    BY DEF Marked

(* When wrapper k passes on what it has kept, its holder is the front.     *)
LEMMA MovedClean ==
    ASSUME Nested, NEW k \in Places, NEW s, Below(s, k), NEW t, NEW l \in 0..k - 1,
           Map(k - 1) = Map(l),
           NEW status, NEW body, NEW form, Moved(s, t, l, k, status, body, form)
    PROVE  Clean(t, l)
<1>1. /\ k \in Nat /\ l \in Nat /\ l < k /\ \A i \in Places : i \in Nat
      /\ \A i \in Places : i < l => i < k
    BY PlaceFacts
<1>2. \A i \in Places : i < l => t.held[i] = None
    BY <1>1 DEF Below, Moved
<1>3. \A i \in Places : i < l => ~t.open[i]
    BY <1>1 DEF Below, Moved
<1>4. l > 0 => t.wire = None /\ t.head = {}
    BY DEF Below, Moved
<1>5. ASSUME NEW m \in 0..Len(nest), m < Map(l) PROVE t.hdr[m] = {}
  <2>1. Map(l) \in Nat
    BY <1>1, MapFacts, PlaceFacts
  <2>2. m # Map(k - 1) /\ m < Map(k - 1)
    BY <1>5, <2>1, PlaceFacts
  <2>. QED
    BY <2>2 DEF Below, Moved
<1>. QED
    BY <1>2, <1>3, <1>4, <1>5 DEF Clean

LEMMA MovedTold ==
    ASSUME Nested, NEW k \in Places, NEW s, NEW t, NEW l \in 0..k - 1,
           NEW status, NEW body, NEW form, Moved(s, t, l, k, status, body, form),
           NEW loggers, \A i \in loggers : i \in Places /\ nest[i] = "log",
           nest[k] # "log",
           \A i \in loggers : i > k => Eff(s.held[i].status) = Eff(status)
    PROVE  Told(t, l, loggers)
<1>. SUFFICES ASSUME NEW i \in loggers, i > l
              PROVE  Eff(t.held[i].status) = Eff(Stored(t, l).status)
    BY DEF Told
<1>1. i \in Places /\ i \in Nat /\ k \in Nat /\ i # k
    BY PlaceFacts
<1>2. Eff(Stored(t, l).status) = Eff(status)
    BY DEF Moved
<1>3. CASE i > k
  <2>1. t.held[i] = s.held[i]
    BY <1>1, <1>3 DEF Moved
  <2>. QED
    BY <1>2, <1>3, <2>1
<1>4. CASE i < k
  <2>1. t.held[i].status = status
    BY <1>1, <1>4 DEF Moved
  <2>. QED
    BY <1>2, <2>1
<1>. QED
    BY <1>1, <1>3, <1>4

LEMMA MovedGood ==
    ASSUME Nested, NEW k \in Places, NEW s, Below(s, k), NEW t,
           NEW l, l = Holder(s, k - 1),
           NEW status, NEW body, NEW form, Moved(s, t, l, k, status, body, form),
           nest[k] # "headers",
           NEW n \in 0..Len(nest), n = k - 1 \/ "gzip" \in form,
           NEW w, NEW c, NEW running \in BOOLEAN,
           Len(body) = w,
           "length" \in s.hdr[Map(k - 1)] => form = {},
           "encoding" \in s.hdr[Map(k - 1)] <=> "gzip" \in form,
           "error" \in s.hdr[Map(k - 1)] => status = "bad",
           running => "error" \notin s.hdr[Map(k - 1)],
           \A i \in Places : nest[i] = "headers" /\ k < i /\ s.open[i] =>
              "added" \in s.hdr[Map(k - 1)] /\ "unwanted" \notin s.hdr[Map(k - 1)],
           c > 0 => Ready(s, k)
    PROVE  Good(t, n, l, w, c, running)
<1> DEFINE D == s.hdr[Map(k - 1)]
<1>1. /\ k \in Nat /\ k - 1 \in 0..Len(nest) /\ k - 1 \in Nat
      /\ \A i \in Places : i \in Nat
    BY PlaceFacts
<1>2. l \in 0..k - 1 /\ l \in Nat
    BY <1>1, HolderFacts
<1>3. Heads(t, l) = IF Due(s, l, k - 1) THEN Marked(D) ELSE D
    BY DEF Moved
<1>4. \A x : x \notin {"added", "unwanted"} => (x \in Heads(t, l) <=> x \in D)
    BY <1>3, MarkedFacts
<1> HIDE DEF D
<1>5. Honest(t, l, w)
  <2>1. /\ Stored(t, l).body = body /\ Stored(t, l).form = form
        /\ status = "bad" => Stored(t, l).status = "bad"
    BY DEF Moved
  <2>2. /\ "length" \in Heads(t, l) <=> "length" \in D
        /\ "encoding" \in Heads(t, l) <=> "encoding" \in D
        /\ "error" \in Heads(t, l) <=> "error" \in D
    BY <1>4
  <2>. QED
    BY <2>1, <2>2 DEF Honest, D
<1>6. Zipped(t, n, l)
  <2>1. SUFFICES ASSUME NEW i \in Places, nest[i] = "compress", l < i, i <= n
                 PROVE  "gzip" \in form
    BY DEF Zipped, Moved
  <2>2. CASE i < k
    <3>1. Holds(s, i)
      BY <2>1, <2>2 DEF Below, Holds
    <3>2. i <= k - 1
      BY <1>1, <2>2
    <3>. QED
      BY <1>1, <2>1, <3>1, <3>2, HolderFacts
  <2>3. CASE ~(i < k)
    BY <1>1, <2>1, <2>3
  <2>. QED
    BY <2>2, <2>3
<1>7. ASSUME NEW i \in Places, nest[i] = "headers", l < i, i < k
      PROVE  Due(s, l, k - 1)
  <2>1. ~s.open[i] /\ i <= k - 1
    BY <1>1, <1>7 DEF Below
  <2>. QED
    BY <1>7, <2>1 DEF Due
<1>8. Seen(t, l)
  <2>1. SUFFICES ASSUME NEW i \in Places, nest[i] = "headers", l < i, t.open[i]
                 PROVE  "added" \in Heads(t, l) /\ "unwanted" \notin Heads(t, l)
    BY DEF Seen
  <2>2. i # k
    BY <2>1
  <2>3. CASE i < k
    BY <1>3, <1>7, <2>1, <2>3, MarkedFacts
  <2>4. CASE i > k
    <3>1. s.open[i]
      BY <1>1, <2>1, <2>4 DEF Moved
    <3>2. "added" \in D /\ "unwanted" \notin D
      BY <2>1, <2>4, <3>1 DEF D
    <3>. QED
      BY <1>3, <3>2, MarkedFacts
  <2>. QED
    BY <1>1, <2>2, <2>3, <2>4
<1>9. c > 0 => Ready(t, l)
  <2>1. SUFFICES ASSUME c > 0, NEW i \in Places, nest[i] = "headers", l < i
                 PROVE  t.open[i]
    BY DEF Ready
  <2>2. i # k
    BY <2>1
  <2>3. CASE i < k
    BY <2>1, <2>3 DEF Moved
  <2>4. CASE i > k
    BY <2>1, <2>4 DEF Ready, Moved
  <2>. QED
    BY <1>1, <2>2, <2>3, <2>4
<1>10. running => "error" \notin Heads(t, l)
    BY <1>4 DEF D
<1>. QED
    BY <1>5, <1>6, <1>8, <1>9, <1>10 DEF Good

-----------------------------------------------------------------------------
(* What goes outwards from under wrapper k leaves what is further in.      *)
Above(s, t, k) ==
    /\ t.logged = s.logged
    /\ \A i \in Places : i > k => t.held[i] = s.held[i]

LEMMA AboveTransitive ==
    ASSUME NEW r, NEW s, NEW t, NEW k, Above(r, s, k), Above(s, t, k)
    PROVE  Above(r, t, k)
    BY DEF Above

LEMMA PutStatusSane ==
    ASSUME Nested, NEW s, Sane(s), NEW k \in 0..Len(nest),
           NEW status \in Statuses \union {"500"}
    PROVE  Sane(PutStatus(s, k, status)) /\ Above(s, PutStatus(s, k, status), k)
<1> DEFINE t == PutStatus(s, k, status)
           j == Keeper(k)
<1>1. s \in Writers /\ (s.wire.status = "none" => s.wire = None /\ s.head = {})
    BY DEF Sane
<1>2. t \in Writers /\ StatusPut(s, t, j, k, status)
    BY <1>1, PutStatusEffect
<1>3. j \in Nat /\ k \in Nat /\ (\A i \in Places : i \in Nat) /\ j <= k
    BY KeeperFacts, PlaceFacts
<1> HIDE DEF t, j
<1>4. t.wire.status = "none" => t.wire = None /\ t.head = {}
  <2>1. CASE j > 0
    BY <1>1, <1>2, <2>1 DEF StatusPut
  <2>2. CASE j = 0
    <3>1. s.wire \in Message
      BY <1>1, WritersFields
    <3>2. t.wire.status = IF s.wire.status = "none" THEN status ELSE s.wire.status
      BY <1>2, <2>2, <3>1 DEF StatusPut, Message
    <3>3. status # "none"
      BY DEF Statuses
    <3>. QED
      BY <3>2, <3>3
  <2>. QED
    BY <1>3, <2>1, <2>2
<1>5. Above(s, t, k)
    BY <1>2, <1>3 DEF Above, StatusPut, HeadersPassed
<1>. QED
    BY <1>2, <1>4, <1>5 DEF Sane, t

LEMMA DeliverSane ==
    ASSUME Nested, NEW s, Sane(s), NEW k \in 0..Len(nest),
           NEW body \in Seq({"piece", "message"}), NEW form,
           \A x \in form : x \in {"gzip", "edited"}
    PROVE  Sane(Deliver(s, k, body, form)) /\ Above(s, Deliver(s, k, body, form), k)
<1> DEFINE t == Deliver(s, k, body, form)
           j == Holder(s, k)
<1>1. s \in Writers /\ (s.wire.status = "none" => s.wire = None /\ s.head = {})
    BY DEF Sane
<1>2. t \in Writers /\ BodyDelivered(s, t, j, k, body, form)
    BY <1>1, DeliverEffect
<1>3. j \in Nat /\ k \in Nat /\ (\A i \in Places : i \in Nat) /\ j <= k
    BY HolderFacts, PlaceFacts
<1> HIDE DEF t, j
<1>4. t.wire.status = "none" => t.wire = None /\ t.head = {}
  <2>1. CASE j > 0
    BY <1>1, <1>2, <2>1 DEF BodyDelivered
  <2>2. CASE j = 0
    <3>1. t.wire.status = Eff(s.wire.status)
      BY <1>2, <2>2 DEF BodyDelivered, Stored
    <3>. QED
      BY <3>1 DEF Eff
  <2>. QED
    BY <1>3, <2>1, <2>2
<1>5. \A i \in Places : i > k => t.held[i] = s.held[i]
    BY <1>2, <1>3 DEF BodyDelivered
<1>6. t.logged = s.logged
    BY <1>2 DEF BodyDelivered, HeadersPassed
<1>. QED
    BY <1>2, <1>4, <1>5, <1>6 DEF Sane, Above, t

(* The compression in wrapper k as it commits. *)
Opened(s, k, full) ==
    [(IF full THEN Change(s, k, {"length"}, {"encoding"}) ELSE s) EXCEPT !.open[k] = TRUE]

OpenedFrom(s, t, k, full) ==
    /\ t.held = s.held /\ t.logged = s.logged /\ t.wire = s.wire /\ t.head = s.head
    /\ t.open[k]
    /\ \A i \in Places : i # k => t.open[i] = s.open[i]
    /\ t.hdr[Map(k)] = IF full THEN (s.hdr[Map(k)] \ {"length"}) \union {"encoding"}
                               ELSE s.hdr[Map(k)]
    /\ \A m \in 0..Len(nest) : m # Map(k) => t.hdr[m] = s.hdr[m]

LEMMA OpenedEffect ==
    ASSUME Nested, NEW s \in Writers, NEW k \in Places, NEW full \in BOOLEAN
    PROVE  Opened(s, k, full) \in Writers /\ OpenedFrom(s, Opened(s, k, full), k, full)
<1> DEFINE R == {"length"}
           A == {"encoding"}
           a == IF full THEN Change(s, k, R, A) ELSE s
           o == [a.open EXCEPT ![k] = TRUE]
           t == Opened(s, k, full)
<1>1. k \in 0..Len(nest) /\ \A x \in A : x \in Names
    BY PlaceFacts DEF Names
<1>2. /\ a \in Writers
      /\ a.held = s.held /\ a.open = s.open /\ a.logged = s.logged
      /\ a.wire = s.wire /\ a.head = s.head
      /\ a.hdr[Map(k)] = IF full THEN (s.hdr[Map(k)] \ R) \union A ELSE s.hdr[Map(k)]
      /\ \A m \in 0..Len(nest) : m # Map(k) => a.hdr[m] = s.hdr[m]
  <2> HIDE DEF R, A
  <2>1. CASE full
    BY <1>1, <2>1, ChangeEffect
  <2>2. CASE ~full
    BY <2>2
  <2>. QED
    BY <2>1, <2>2
<1>3. t = [a EXCEPT !.open = o]
    BY DEF Opened
<1>4. a.open \in [Places -> BOOLEAN]
  <2> HIDE DEF a
  <2>. QED
    BY <1>2, WritersFields
<1> HIDE DEF a
<1>5. o \in [Places -> BOOLEAN] /\ o[k] /\ \A i \in Places : i # k => o[i] = a.open[i]
    BY <1>4
<1> HIDE DEF o, t
<1>6. /\ t \in Writers
      /\ t.held = a.held /\ t.logged = a.logged /\ t.wire = a.wire /\ t.head = a.head
      /\ t.open = o /\ t.hdr = a.hdr
    BY <1>2, <1>3, <1>5 DEF Writers
<1>7. OpenedFrom(s, t, k, full)
    BY <1>2, <1>5, <1>6 DEF OpenedFrom
<1>. QED
    BY <1>6, <1>7 DEF t

(* Release is a move by the compression, open. *)
ReleasedForm(s, k, full) == s.held[k].form \union IF full THEN {"gzip"} ELSE {}

LEMMA ReleasedIs ==
    ASSUME Nested, NEW s \in Writers, NEW k \in Places, NEW full \in BOOLEAN
    PROVE  LET a == Opened(s, k, full)
               v == IF s.held[k].status = "none" THEN a
                                                 ELSE PutStatus(a, k - 1, s.held[k].status)
           IN Released(s, k, full) =
                 Deliver(v, k - 1, s.held[k].body, ReleasedForm(s, k, full))
<1> DEFINE a == Opened(s, k, full)
<1>1. a.held = s.held
  <2>1. OpenedFrom(s, a, k, full)
    BY OpenedEffect
  <2> HIDE DEF a
  <2>. QED
    BY <2>1 DEF OpenedFrom
<1>2. Committed(s, k, full) = IF a.held[k].status = "none" THEN a
                                 ELSE PutStatus(a, k - 1, a.held[k].status)
    BY DEF Committed, Opened
<1> HIDE DEF a
<1>3. Released(s, k, full) = Deliver(Committed(s, k, full), k - 1, s.held[k].body,
                                     ReleasedForm(s, k, full))
    BY DEF Released, ReleasedForm
<1>. QED
    BY <1>1, <1>2, <1>3 DEF a

LEMMA HeldFacts ==
    ASSUME Nested, NEW s \in Writers, NEW k \in Places
    PROVE  /\ s.held[k] \in Message
           /\ s.held[k].status \in Statuses \union {"none", "500"}
           /\ s.held[k].body \in Seq({"piece", "message"})
           /\ \A x \in s.held[k].form : x \in {"gzip", "edited"}
           /\ \A full : \A x \in ReleasedForm(s, k, full) : x \in {"gzip", "edited"}
           /\ Eff(s.held[k].status) = Default(s, k)
           /\ Default(s, k) \in Statuses \union {"500"}
<1>1. s.held[k] \in Message
    BY WritersFields
<1>. QED
    BY <1>1 DEF Message, ReleasedForm, Default, Statuses, Eff

LEMMA ReleasedSane ==
    ASSUME Nested, NEW s, Sane(s), NEW k \in Places, NEW full \in BOOLEAN
    PROVE  Sane(Released(s, k, full)) /\ Above(s, Released(s, k, full), k - 1)
<1> DEFINE a == Opened(s, k, full)
           st == s.held[k].status
           v == IF st = "none" THEN a ELSE PutStatus(a, k - 1, st)
           t == Released(s, k, full)
<1>1. s \in Writers /\ k - 1 \in 0..Len(nest)
    BY PlaceFacts DEF Sane
<1>2. a \in Writers /\ OpenedFrom(s, a, k, full)
    BY <1>1, OpenedEffect
<1>3. Sane(a) /\ Above(s, a, k - 1)
  <2> HIDE DEF a
  <2>. QED
    BY <1>2 DEF Sane, OpenedFrom, Above
<1>4. /\ st \in Statuses \union {"none", "500"}
      /\ s.held[k].body \in Seq({"piece", "message"})
      /\ \A x \in ReleasedForm(s, k, full) : x \in {"gzip", "edited"}
    BY <1>1, HeldFacts
<1> HIDE DEF a, st
<1>5. Sane(v) /\ Above(s, v, k - 1)
  <2>1. CASE st = "none"
    BY <1>3, <2>1
  <2>2. CASE st # "none"
    <3>1. st \in Statuses \union {"500"}
      BY <1>4, <2>2
    <3>. QED
      BY <1>1, <1>3, <2>2, <3>1, PutStatusSane, AboveTransitive
  <2>. QED
    BY <2>1, <2>2
<1>6. t = Deliver(v, k - 1, s.held[k].body, ReleasedForm(s, k, full))
    BY <1>1, ReleasedIs DEF a, st
<1> HIDE DEF v, t
<1>7. Sane(t) /\ Above(v, t, k - 1)
    BY <1>1, <1>4, <1>5, <1>6, DeliverSane
<1>. QED
    BY <1>5, <1>7, AboveTransitive DEF t

LEMMA PutBodySane ==
    ASSUME Nested, NEW s, Sane(s), NEW k \in 0..Len(nest),
           NEW body \in Seq({"piece", "message"}), NEW form,
           \A x \in form : x \in {"gzip", "edited"}
    PROVE  Sane(PutBody(s, k, body, form)) /\ Above(s, PutBody(s, k, body, form), k)
<1> DEFINE j == Holder(s, k)
           t == Deliver(s, k, body, form)
           u == PutBody(s, k, body, form)
<1>1. Sane(t) /\ Above(s, t, k)
    BY DeliverSane
<1>2. j \in 0..k
    BY HolderFacts
<1>3. u = t \/ (j > 0 /\ u = Released(t, j, TRUE))
    BY DEF PutBody
<1> HIDE DEF j, t, u
<1>4. CASE u = t
    BY <1>1, <1>4 DEF u
<1>5. CASE j > 0 /\ u = Released(t, j, TRUE)
  <2>1. j \in Places /\ (\A i \in Places : i > k => i > j - 1)
    BY <1>2, <1>5, PlaceFacts
  <2>2. Sane(u) /\ Above(t, u, j - 1)
    BY <1>1, <1>5, <2>1, ReleasedSane
  <2>3. Above(t, u, k)
    BY <2>1, <2>2 DEF Above
  <2>. QED
    BY <1>1, <2>2, <2>3, AboveTransitive DEF u
<1>. QED
    BY <1>3, <1>4, <1>5

-----------------------------------------------------------------------------
(* A move opens no compression, so the holder stays the holder.            *)
LEMMA MovedHolder ==
    ASSUME Nested, NEW s, NEW t, NEW k \in Places, NEW l, l = Holder(s, k - 1),
           NEW status, NEW body, NEW form, Moved(s, t, l, k, status, body, form)
    PROVE  Holder(t, k - 1) = l
<1>1. k - 1 \in 0..Len(nest)
    BY PlaceFacts
<1>2. \A i \in Places : nest[i] = "compress" => (t.open[i] <=> s.open[i])
    BY DEF Moved
<1>. QED
    BY <1>1, <1>2, HolderSame

(* The compression that is the front moves what it has.                    *)
LEMMA ReleasedMoved ==
    ASSUME Nested, NEW s, Sane(s), NEW k \in Places, nest[k] = "compress",
           Clean(s, k), NEW full \in BOOLEAN
    PROVE  LET a == Opened(s, k, full)
               t == Released(s, k, full)
           IN /\ a \in Writers /\ OpenedFrom(s, a, k, full)
              /\ Below(a, k)
              /\ Moved(a, t, Holder(a, k - 1), k, s.held[k].status, s.held[k].body,
                       ReleasedForm(s, k, full))
              /\ Holder(t, k - 1) = Holder(a, k - 1)
<1> DEFINE a == Opened(s, k, full)
           st == s.held[k].status
           b == s.held[k].body
           form == ReleasedForm(s, k, full)
           v == IF st = "none" THEN a ELSE PutStatus(a, k - 1, st)
           t == Released(s, k, full)
           l == Holder(a, k - 1)
<1>1. /\ s \in Writers /\ k \in 0..Len(nest) /\ k - 1 \in 0..k /\ k > 0
      /\ \A i \in Places : i < k => i # k
    BY PlaceFacts DEF Sane
<1>2. a \in Writers /\ OpenedFrom(s, a, k, full)
    BY <1>1, OpenedEffect
<1>3. /\ st \in Statuses \union {"none", "500"}
      /\ b \in Seq({"piece", "message"})
      /\ \A x \in form : x \in {"gzip", "edited"}
    BY <1>1, HeldFacts
<1>4. t = Deliver(v, k - 1, b, form)
    BY <1>1, ReleasedIs
<1>5. Map(k - 1) = Map(k) /\ Map(k) \in 0..Len(nest) /\ Map(k) \in Nat
  <2>1. \A i \in Places : k - 1 < i /\ i <= k => nest[i] # "proxyerror"
    BY PlaceFacts
  <2>2. Map(k) = Map(k - 1)
    BY <1>1, <2>1, MapSame
  <2>. QED
    BY <1>1, <2>2, MapFacts, PlaceFacts
<1> HIDE DEF a, st, b, form, t, l
<1>6. Below(a, k)
  <2>1. \A i \in Places : i < k => a.held[i] = None /\ ~a.open[i]
    BY <1>1, <1>2 DEF Clean, OpenedFrom
  <2>2. a.wire = None /\ a.head = {}
    BY <1>1, <1>2 DEF Clean, OpenedFrom
  <2>3. ASSUME NEW m \in 0..Len(nest), m < Map(k - 1) PROVE a.hdr[m] = {}
    <3>1. m # Map(k) /\ m < Map(k)
      BY <1>5, <2>3, PlaceFacts
    <3>. QED
      BY <1>2, <3>1 DEF Clean, OpenedFrom
  <2>. QED
    BY <2>1, <2>2, <2>3 DEF Below
<1>7. Moved(a, t, l, k, st, b, form)
  <2>1. /\ \A i \in Places : i < k => a.held[i] = None /\ ~a.open[i]
        /\ a.wire = None
    BY <1>6 DEF Below
  <2>. QED
    BY <1>2, <1>3, <1>4, <2>1, MoveEffect DEF l
<1>8. Holder(t, k - 1) = l
    BY <1>7, MovedHolder DEF l
<1>. QED
    BY <1>2, <1>6, <1>7, <1>8 DEF a, st, b, form, t, l

LEMMA ReleasedClean ==
    ASSUME Nested, NEW s, Sane(s), NEW k \in Places, nest[k] = "compress",
           Clean(s, k), NEW full \in BOOLEAN
    PROVE  LET t == Released(s, k, full)
               l == Holder(t, k - 1)
           IN /\ Clean(t, l)
              /\ Stored(s, k).status # "none" => Stored(t, l).status = Stored(s, k).status
              /\ \A n \in 0..Len(nest) : Holder(s, n) = k => Holder(t, n) = l
<1> DEFINE a == Opened(s, k, full)
           t == Released(s, k, full)
           l == Holder(t, k - 1)
<1>1. /\ a \in Writers /\ OpenedFrom(s, a, k, full) /\ Below(a, k)
      /\ Moved(a, t, l, k, s.held[k].status, s.held[k].body, ReleasedForm(s, k, full))
    BY ReleasedMoved
<1>2. /\ k - 1 \in 0..Len(nest) /\ k \in Nat /\ Stored(s, k) = s.held[k]
      /\ (\A i \in Places : i \in Nat) /\ Len(nest) \in Nat
    BY PlaceFacts DEF Stored
<1>3. l \in 0..k - 1 /\ l \in Nat /\ Map(k - 1) = Map(l)
    BY <1>2, HolderFacts, MapOfHolder
<1>4. l > 0 => Holds(t, l)
    BY <1>2, HolderFacts
<1>5. \A i \in Places : l < i /\ i <= k - 1 => ~Holds(t, i)
    BY <1>2, HolderFacts
<1> HIDE DEF a, t, l
<1>6. Clean(t, l)
    BY <1>1, <1>3, MovedClean
<1>7. Stored(s, k).status # "none" => Stored(t, l).status = Stored(s, k).status
    BY <1>1, <1>2 DEF Moved
<1>8. ASSUME NEW n \in 0..Len(nest), Holder(s, n) = k
      PROVE  Holder(t, n) = l
  <2>1. k <= n /\ n \in Nat
    BY <1>2, <1>8, HolderFacts
  <2>2. ASSUME NEW i \in Places, l < i, i <= n
        PROVE  ~Holds(t, i)
    <3>1. CASE i < k
      BY <1>2, <1>5, <2>2, <3>1
    <3>2. CASE i = k
      <4>1. t.open[k]
        BY <1>1 DEF OpenedFrom, Moved
      <4>. QED
        BY <3>2, <4>1 DEF Holds
    <3>3. CASE k < i
      <4>1. ~Holds(s, i)
        BY <1>8, <2>2, <3>3, HolderFacts
      <4>2. i # k
        BY <1>2, <3>3
      <4>3. s.open[i] => t.open[i]
        BY <1>1, <4>2 DEF OpenedFrom, Moved
      <4>. QED
        BY <4>1, <4>3 DEF Holds
    <3>. QED
      BY <1>2, <3>1, <3>2, <3>3
  <2>3. l \in 0..n
    BY <1>2, <1>3, <2>1
  <2>. QED
    BY <1>4, <2>2, <2>3, HolderIs
<1>. QED
    BY <1>6, <1>7, <1>8 DEF t, l

LEMMA ReleasedTold ==
    ASSUME Nested, NEW s, Sane(s), NEW k \in Places, nest[k] = "compress",
           Clean(s, k), NEW full \in BOOLEAN,
           NEW loggers, \A i \in loggers : i \in Places /\ nest[i] = "log",
           Told(s, k, loggers)
    PROVE  LET t == Released(s, k, full)
           IN Told(t, Holder(t, k - 1), loggers)
<1> DEFINE a == Opened(s, k, full)
           t == Released(s, k, full)
           l == Holder(t, k - 1)
<1>1. /\ OpenedFrom(s, a, k, full)
      /\ Moved(a, t, l, k, s.held[k].status, s.held[k].body, ReleasedForm(s, k, full))
    BY ReleasedMoved
<1>2. k - 1 \in 0..Len(nest) /\ Stored(s, k) = s.held[k]
    BY PlaceFacts DEF Stored
<1>3. l \in 0..k - 1
    BY <1>2, HolderFacts
<1> HIDE DEF a, t, l
<1>4. \A i \in loggers : i > k => Eff(a.held[i].status) = Eff(s.held[k].status)
    BY <1>1, <1>2 DEF Told, OpenedFrom
<1>. QED
    BY <1>1, <1>3, <1>4, MovedTold DEF t, l

LEMMA ReleasedGood ==
    ASSUME Nested, NEW s, Sane(s), NEW k \in Places, nest[k] = "compress",
           Clean(s, k), NEW full \in BOOLEAN,
           NEW n \in 0..Len(nest), n = k - 1 \/ full,
           NEW w, NEW c, NEW running \in BOOLEAN, NEW m, Good(s, m, k, w, c, running)
    PROVE  LET t == Released(s, k, full)
           IN Good(t, n, Holder(t, k - 1), w, c, running)
<1> DEFINE a == Opened(s, k, full)
           t == Released(s, k, full)
           l == Holder(t, k - 1)
           b == s.held[k].body
           form == ReleasedForm(s, k, full)
           D == a.hdr[Map(k - 1)]
<1>1. /\ a \in Writers /\ OpenedFrom(s, a, k, full) /\ Below(a, k)
      /\ Moved(a, t, l, k, s.held[k].status, b, form)
      /\ l = Holder(a, k - 1)
    BY ReleasedMoved
<1>2. /\ Stored(s, k) = s.held[k] /\ Heads(s, k) = s.hdr[Map(k)]
      /\ k - 1 \in 0..k /\ k \in 0..Len(nest)
    BY PlaceFacts DEF Stored, Heads
<1>3. Map(k - 1) = Map(k)
  <2>1. \A i \in Places : k - 1 < i /\ i <= k => nest[i] # "proxyerror"
    BY PlaceFacts
  <2>. QED
    BY <1>2, <2>1, MapSame
<1>4. /\ full => "gzip" \in form
      /\ ~full => form = s.held[k].form
    BY DEF ReleasedForm
<1> HIDE DEF a, t, l, b, form
<1>5. D = IF full THEN (Heads(s, k) \ {"length"}) \union {"encoding"} ELSE Heads(s, k)
    BY <1>1, <1>2, <1>3 DEF OpenedFrom
<1>6. /\ full => "length" \notin D /\ "encoding" \in D
      /\ ~full => D = Heads(s, k)
      /\ \A x : x \notin {"length", "encoding"} => (x \in D <=> x \in Heads(s, k))
    BY <1>5
<1> HIDE DEF D
<1>7. /\ Len(b) = w
      /\ "length" \in Heads(s, k) => s.held[k].form = {}
      /\ "encoding" \in Heads(s, k) <=> "gzip" \in s.held[k].form
      /\ "error" \in Heads(s, k) => s.held[k].status = "bad"
      /\ running => "error" \notin Heads(s, k)
    BY <1>2 DEF Good, Honest, b
<1>8. /\ "length" \in D => form = {}
      /\ "encoding" \in D <=> "gzip" \in form
      /\ "error" \in D => s.held[k].status = "bad"
      /\ running => "error" \notin D
    BY <1>4, <1>6, <1>7
<1>9. \A i \in Places : i # k => a.open[i] = s.open[i]
    BY <1>1 DEF OpenedFrom
<1>10. \A i \in Places : nest[i] = "headers" /\ k < i /\ a.open[i] =>
          "added" \in D /\ "unwanted" \notin D
    BY <1>6, <1>9 DEF Good, Seen
<1>11. c > 0 => Ready(a, k)
    BY <1>9 DEF Good, Ready
<1>. QED
    BY <1>1, <1>4, <1>7, <1>8, <1>10, <1>11, MovedGood DEF D, t, l

-----------------------------------------------------------------------------
(* A body may fill the buffer of the compression that it comes to.         *)
Filled(t, u, l) ==
    u = t \/ (l \in Places /\ nest[l] = "compress" /\ u = Released(t, l, TRUE))

LEMMA PutBodyIs ==
    ASSUME Nested, NEW s \in Writers, NEW n \in 0..Len(nest),
           NEW body \in Seq({"piece", "message"}), NEW form,
           \A x \in form : x \in {"gzip", "edited"}
    PROVE  LET t == Deliver(s, n, body, form)
               l == Holder(s, n)
           IN /\ Holder(t, n) = l
              /\ Filled(t, PutBody(s, n, body, form), l)
<1> DEFINE t == Deliver(s, n, body, form)
           l == Holder(s, n)
           u == PutBody(s, n, body, form)
<1> SUFFICES Holder(t, n) = l /\ Filled(t, u, l)
    OBVIOUS
<1>1. BodyDelivered(s, t, l, n, body, form)
    BY DeliverEffect
<1>2. \A i \in Places : nest[i] = "compress" => (t.open[i] <=> s.open[i])
  <2> HIDE DEF t, l
  <2>. QED
    BY <1>1 DEF BodyDelivered, HeadersPassed
<1>3. Holder(t, n) = l
  <2> HIDE DEF t
  <2>. QED
    BY <1>2, HolderSame
<1>4. l > 0 => l \in Places
    BY HolderFacts, PlaceFacts
<1>5. PutBody(s, n, body, form) = t \/ (l > 0 /\ nest[l] = "compress"
                                        /\ PutBody(s, n, body, form) = Released(t, l, TRUE))
    BY DEF PutBody
<1>6. Filled(t, u, l)
  <2> HIDE DEF t, l, u
  <2>. QED
    BY <1>4, <1>5 DEF u, Filled
<1> HIDE DEF t, l, u
<1>. QED
    BY <1>3, <1>6

LEMMA FilledClean ==
    ASSUME Nested, NEW t, Sane(t), NEW n \in 0..Len(nest), NEW l, l = Holder(t, n),
           Clean(t, l), NEW u, Filled(t, u, l)
    PROVE  LET f == Holder(u, n)
           IN /\ Clean(u, f)
              /\ Stored(t, l).status # "none" => Stored(u, f).status = Stored(t, l).status
<1>1. CASE u = t
  <2>1. Holder(u, n) = l
    BY <1>1
  <2>. QED
    BY <1>1, <2>1
<1>2. CASE l \in Places /\ nest[l] = "compress" /\ u = Released(t, l, TRUE)
    BY <1>2, ReleasedClean
<1>. QED
    BY <1>1, <1>2 DEF Filled

LEMMA FilledTold ==
    ASSUME Nested, NEW t, Sane(t), NEW n \in 0..Len(nest), NEW l, l = Holder(t, n),
           Clean(t, l), NEW u, Filled(t, u, l),
           NEW loggers, \A i \in loggers : i \in Places /\ nest[i] = "log",
           Told(t, l, loggers)
    PROVE  Told(u, Holder(u, n), loggers)
<1>1. CASE u = t
    BY <1>1
<1>2. CASE l \in Places /\ nest[l] = "compress" /\ u = Released(t, l, TRUE)
  <2>1. Holder(u, n) = Holder(u, l - 1)
    BY <1>2, ReleasedClean
  <2>2. Told(u, Holder(u, l - 1), loggers)
    BY <1>2, ReleasedTold
  <2>. QED
    BY <2>1, <2>2
<1>. QED
    BY <1>1, <1>2 DEF Filled

LEMMA FilledGood ==
    ASSUME Nested, NEW t, Sane(t), NEW n \in 0..Len(nest), NEW l, l = Holder(t, n),
           Clean(t, l), NEW u, Filled(t, u, l),
           NEW w, NEW c, NEW running \in BOOLEAN, Good(t, n, l, w, c, running)
    PROVE  Good(u, n, Holder(u, n), w, c, running)
<1>1. CASE u = t
    BY <1>1
<1>2. CASE l \in Places /\ nest[l] = "compress" /\ u = Released(t, l, TRUE)
  <2>1. Holder(u, n) = Holder(u, l - 1)
    BY <1>2, ReleasedClean
  <2>2. Good(u, n, Holder(u, l - 1), w, c, running)
    BY <1>2, ReleasedGood
  <2>. QED
    BY <2>1, <2>2
<1>. QED
    BY <1>1, <1>2 DEF Filled

(* Wrapper k replays a status and a body to the wrappers outside of it.    *)
Resent(s, k, status, body, form) ==
    PutBody(PutStatus(s, k - 1, status), k - 1, body, form)

LEMMA SentMoved ==
    ASSUME Nested, NEW s, Sane(s), NEW k \in Places, Below(s, k),
           NEW status \in Statuses \union {"500"},
           NEW body \in Seq({"piece", "message"}), NEW form,
           \A x \in form : x \in {"gzip", "edited"}
    PROVE  LET t == Deliver(PutStatus(s, k - 1, status), k - 1, body, form)
               l == Holder(s, k - 1)
           IN /\ Sane(t) /\ Clean(t, l)
              /\ Moved(s, t, l, k, status, body, form)
              /\ Holder(t, k - 1) = l
              /\ Filled(t, Resent(s, k, status, body, form), l)
<1> DEFINE v == PutStatus(s, k - 1, status)
           t == Deliver(v, k - 1, body, form)
           l == Holder(s, k - 1)
<1>1. k - 1 \in 0..Len(nest) /\ s \in Writers
    BY PlaceFacts DEF Sane
<1>2. Sane(v) /\ v \in Writers
  <2>1. Sane(v)
    BY <1>1, PutStatusSane
  <2>. QED
    BY <2>1 DEF Sane
<1>3. Holder(v, k - 1) = l /\ Moved(s, t, l, k, status, body, form)
  <2>1. /\ \A i \in Places : i < k => s.held[i] = None /\ ~s.open[i]
        /\ s.wire = None
    BY DEF Below
  <2>2. status \in Statuses \union {"none", "500"} /\ status # "none"
    BY DEF Statuses
  <2>. QED
    BY <1>1, <2>1, <2>2, MoveEffect
<1>4. l \in 0..k - 1 /\ Map(k - 1) = Map(l)
    BY <1>1, HolderFacts, MapOfHolder
<1> HIDE DEF v, l
<1>5. Sane(t)
    BY <1>1, <1>2, DeliverSane
<1>6. Holder(t, k - 1) = l /\ Filled(t, PutBody(v, k - 1, body, form), l)
    BY <1>1, <1>2, <1>3, PutBodyIs
<1> HIDE DEF t
<1>7. Clean(t, l)
    BY <1>3, <1>4, MovedClean
<1>. QED
    BY <1>3, <1>5, <1>6, <1>7 DEF v, t, l, Resent

LEMMA SentClean ==
    ASSUME Nested, NEW s, Sane(s), NEW k \in Places, Below(s, k),
           NEW status \in Statuses \union {"500"},
           NEW body \in Seq({"piece", "message"}), NEW form,
           \A x \in form : x \in {"gzip", "edited"}
    PROVE  LET u == Resent(s, k, status, body, form)
           IN Clean(u, Holder(u, k - 1))
<1> DEFINE t == Deliver(PutStatus(s, k - 1, status), k - 1, body, form)
           l == Holder(s, k - 1)
           u == Resent(s, k, status, body, form)
<1>1. Sane(t) /\ Clean(t, l) /\ l = Holder(t, k - 1) /\ Filled(t, u, l)
    BY SentMoved
<1>2. k - 1 \in 0..Len(nest)
    BY PlaceFacts
<1> HIDE DEF t, l, u
<1>. QED
    BY <1>1, <1>2, FilledClean DEF u

LEMMA SentTold ==
    ASSUME Nested, NEW s, Sane(s), NEW k \in Places, Below(s, k),
           NEW status \in Statuses \union {"500"},
           NEW body \in Seq({"piece", "message"}), NEW form,
           \A x \in form : x \in {"gzip", "edited"},
           NEW loggers, \A i \in loggers : i \in Places /\ nest[i] = "log",
           nest[k] # "log",
           \A i \in loggers : i > k => Eff(s.held[i].status) = Eff(status)
    PROVE  LET u == Resent(s, k, status, body, form)
               f == Holder(u, k - 1)
           IN Told(u, f, loggers) /\ Stored(u, f).status = status
<1> DEFINE t == Deliver(PutStatus(s, k - 1, status), k - 1, body, form)
           l == Holder(s, k - 1)
           u == Resent(s, k, status, body, form)
<1>1. /\ Sane(t) /\ Clean(t, l) /\ l = Holder(t, k - 1) /\ Filled(t, u, l)
      /\ Moved(s, t, l, k, status, body, form)
    BY SentMoved
<1>2. k - 1 \in 0..Len(nest)
    BY PlaceFacts
<1>3. l \in 0..k - 1
    BY <1>2, HolderFacts
<1> HIDE DEF t, l, u
<1>4. Told(t, l, loggers)
    BY <1>1, <1>3, MovedTold
<1>5. Stored(t, l).status = status /\ status # "none"
    BY <1>1 DEF Moved, Statuses
<1>6. Stored(u, Holder(u, k - 1)).status = status
    BY <1>1, <1>2, <1>5, FilledClean
<1>7. Told(u, Holder(u, k - 1), loggers)
    BY <1>1, <1>2, <1>4, FilledTold
<1>. QED
    BY <1>6, <1>7 DEF u

LEMMA SentGood ==
    ASSUME Nested, NEW s, Sane(s), NEW k \in Places, Below(s, k),
           NEW status \in Statuses \union {"500"},
           NEW body \in Seq({"piece", "message"}), NEW form,
           \A x \in form : x \in {"gzip", "edited"},
           nest[k] # "headers",
           NEW w, NEW c, NEW running \in BOOLEAN,
           Len(body) = w,
           "length" \in s.hdr[Map(k - 1)] => form = {},
           "encoding" \in s.hdr[Map(k - 1)] <=> "gzip" \in form,
           "error" \in s.hdr[Map(k - 1)] => status = "bad",
           running => "error" \notin s.hdr[Map(k - 1)],
           \A i \in Places : nest[i] = "headers" /\ k < i /\ s.open[i] =>
              "added" \in s.hdr[Map(k - 1)] /\ "unwanted" \notin s.hdr[Map(k - 1)],
           c > 0 => Ready(s, k)
    PROVE  LET u == Resent(s, k, status, body, form)
           IN Good(u, k - 1, Holder(u, k - 1), w, c, running)
<1> DEFINE t == Deliver(PutStatus(s, k - 1, status), k - 1, body, form)
           l == Holder(s, k - 1)
           u == Resent(s, k, status, body, form)
<1>1. /\ Sane(t) /\ Clean(t, l) /\ l = Holder(t, k - 1) /\ Filled(t, u, l)
      /\ Moved(s, t, l, k, status, body, form)
    BY SentMoved
<1>2. k - 1 \in 0..Len(nest)
    BY PlaceFacts
<1>3. Good(t, k - 1, l, w, c, running)
    BY <1>1, <1>2, MovedGood
<1> HIDE DEF t, l, u
<1>4. Good(u, k - 1, Holder(u, k - 1), w, c, running)
    BY <1>1, <1>2, <1>3, FilledGood
<1>. QED
    BY <1>4 DEF u

-----------------------------------------------------------------------------
LEMMA MapStep ==
    ASSUME Nested, NEW k \in Places
    PROVE  /\ nest[k] = "proxyerror" => Map(k) = k
           /\ nest[k] # "proxyerror" => Map(k) = Map(k - 1)
           /\ Map(k - 1) \in 0..k - 1 /\ Map(k) \in 0..k
           /\ Map(k - 1) <= Map(k)
<1>1. k \in 0..Len(nest) /\ k - 1 \in 0..Len(nest) /\ k - 1 \in 0..k /\ k \in Nat
    BY PlaceFacts
<1>2. Map(k - 1) \in 0..k - 1 /\ Map(k) \in 0..k
    BY <1>1, MapFacts
<1>3. ASSUME nest[k] = "proxyerror" PROVE Map(k) = k
  <2>1. ~(Map(k) < k)
    BY <1>1, <1>3, MapFacts
  <2>. QED
    BY <1>1, <1>2, <2>1
<1>4. ASSUME nest[k] # "proxyerror" PROVE Map(k) = Map(k - 1)
  <2>1. \A i \in Places : k - 1 < i /\ i <= k => nest[i] # "proxyerror"
    BY <1>4, PlaceFacts
  <2>. QED
    BY <1>1, <2>1, MapSame
<1>. QED
    BY <1>1, <1>2, <1>3, <1>4

LEMMA CleanBelow ==
    ASSUME Nested, NEW s, NEW k \in Places, Clean(s, k), NEW t,
           t.held = s.held, t.open = s.open, t.wire = s.wire, t.head = s.head,
           \A m \in 0..Len(nest) : m < Map(k - 1) => t.hdr[m] = s.hdr[m]
    PROVE  Below(t, k)
<1>1. k > 0 /\ Map(k - 1) <= Map(k) /\ Map(k) \in Nat /\ Map(k - 1) \in Nat
    BY MapStep, PlaceFacts
<1>2. \A m \in 0..Len(nest) : m < Map(k - 1) => m < Map(k)
    BY <1>1, PlaceFacts
<1>. QED
    BY <1>1, <1>2 DEF Clean, Below

(* The writers of t are those of s but for what no other wrapper looks at. *)
Alike(s, t, f) ==
    /\ t.held = s.held /\ t.open = s.open /\ t.wire = s.wire /\ t.head = s.head
    /\ \A m \in 0..Len(nest) : m < Map(f) => t.hdr[m] = s.hdr[m]
    /\ \A x : x # "latency" => (x \in t.hdr[Map(f)] <=> x \in s.hdr[Map(f)])

LEMMA AlikeKeeps ==
    ASSUME Nested, NEW s, NEW t, NEW f, Alike(s, t, f)
    PROVE  /\ \A k \in 0..Len(nest) : Holder(t, k) = Holder(s, k)
           /\ Stored(t, f) = Stored(s, f)
           /\ Clean(s, f) => Clean(t, f)
           /\ \A loggers : Told(s, f, loggers) => Told(t, f, loggers)
           /\ \A n, w, c, running :
                 Good(s, n, f, w, c, running) => Good(t, n, f, w, c, running)
<1>1. \A k \in 0..Len(nest) : Holder(t, k) = Holder(s, k)
    BY HolderSame DEF Alike
<1>2. Stored(t, f) = Stored(s, f)
    BY DEF Alike, Stored
<1>3. \A x : x # "latency" => (x \in Heads(t, f) <=> x \in Heads(s, f))
    BY DEF Alike, Heads
<1>4. Clean(s, f) => Clean(t, f)
    BY DEF Alike, Clean
<1>5. \A loggers : Told(s, f, loggers) => Told(t, f, loggers)
    BY <1>2 DEF Alike, Told
<1>6. ASSUME NEW n, NEW w, NEW c, NEW running, Good(s, n, f, w, c, running)
      PROVE  Good(t, n, f, w, c, running)
  <2>1. Honest(t, f, w)
    BY <1>2, <1>3, <1>6 DEF Good, Honest
  <2>2. Zipped(t, n, f)
    BY <1>2, <1>6 DEF Good, Zipped
  <2>3. Seen(t, f)
    BY <1>3, <1>6 DEF Good, Seen, Alike
  <2>4. c > 0 => Ready(t, f)
    BY <1>6 DEF Good, Ready, Alike
  <2>5. running => "error" \notin Heads(t, f)
    BY <1>3, <1>6 DEF Good
  <2>. QED
    BY <2>1, <2>2, <2>3, <2>4, <2>5 DEF Good
<1>. QED
    BY <1>1, <1>2, <1>4, <1>5, <1>6

(* A wrapper that holds nothing returns: the front stays.                  *)
LEMMA StepOut ==
    ASSUME Nested, NEW s, NEW k \in Places, ~Holds(s, k)
    PROVE  /\ Holder(s, k - 1) = Holder(s, k)
           /\ Map(Holder(s, k)) = Map(k)
           /\ \A f, w, c, running :
                 Good(s, k, f, w, c, running) => Good(s, k - 1, f, w, c, running)
<1>1. k \in 0..Len(nest) /\ k - 1 \in 0..Len(nest) /\ k \in Nat /\ \A i \in Places : i \in Nat
    BY PlaceFacts
<1> DEFINE f == Holder(s, k)
<1>2. f \in 0..k /\ (f > 0 => Holds(s, f)) /\ f # k
    BY <1>1, HolderFacts, PlaceFacts
<1>3. f \in 0..k - 1
    BY <1>1, <1>2
<1>4. \A i \in Places : f < i /\ i <= k - 1 => ~Holds(s, i)
  <2>1. \A i \in Places : i <= k - 1 => i <= k
    BY <1>1
  <2>. QED
    BY <1>1, <2>1, HolderFacts
<1> HIDE DEF f
<1>5. Holder(s, k - 1) = f
    BY <1>1, <1>2, <1>3, <1>4, HolderIs
<1>6. Map(f) = Map(k)
    BY <1>1, MapOfHolder DEF f
<1>7. ASSUME NEW g, NEW w, NEW c, NEW running, Good(s, k, g, w, c, running)
      PROVE  Good(s, k - 1, g, w, c, running)
  <2>1. \A i \in Places : i <= k - 1 => i <= k
    BY <1>1
  <2>. QED
    BY <1>7, <2>1 DEF Good, Zipped
<1>. QED
    BY <1>5, <1>6, <1>7 DEF f

-----------------------------------------------------------------------------
(* Wrapper k has returned, and made u of s: all that has been said of the  *)
(* front holds of the new one.                                             *)
Loggers == {i \in Places : nest[i] = "log"}

Onward(s, k, u) ==
    LET f == Holder(s, k)
        g == Holder(u, k - 1)
    IN /\ Clean(u, g)
       /\ Stored(s, f).status # "none" => Stored(u, g).status = Stored(s, f).status
       /\ \A loggers \in SUBSET Loggers : Told(s, f, loggers) => Told(u, g, loggers)
       /\ \A w, c : Good(s, k, f, w, c, FALSE) => Good(u, k - 1, g, w, c, FALSE)

LEMMA AlikeOnward ==
    ASSUME Nested, NEW s, NEW k \in Places, ~Holds(s, k), Clean(s, Holder(s, k)),
           NEW u, Alike(s, u, Holder(s, k))
    PROVE  Onward(s, k, u)
<1> DEFINE f == Holder(s, k)
<1>1. k - 1 \in 0..Len(nest)
    BY PlaceFacts
<1>2. Holder(s, k - 1) = f
    BY StepOut
<1>3. \A w, c : Good(s, k, f, w, c, FALSE) => Good(s, k - 1, f, w, c, FALSE)
    BY StepOut
<1>4. Clean(s, f) /\ Alike(s, u, f)
    OBVIOUS
<1> HIDE DEF f
<1>5. /\ Holder(u, k - 1) = f
      /\ Stored(u, f) = Stored(s, f)
      /\ Clean(u, f)
      /\ \A loggers : Told(s, f, loggers) => Told(u, f, loggers)
      /\ \A n, w, c, running :
            Good(s, n, f, w, c, running) => Good(u, n, f, w, c, running)
    BY <1>1, <1>2, <1>4, AlikeKeeps
<1>6. \A w, c : Good(s, k, f, w, c, FALSE) => Good(u, k - 1, f, w, c, FALSE)
    BY <1>3, <1>5
<1>. QED
    BY <1>5, <1>6 DEF Onward, f

(* The loggers, the upstream header and the rest hold nothing.             *)
LEMMA SidelineOnward ==
    ASSUME Nested, NEW s, Sane(s), NEW k \in Places, ~Holds(s, k),
           Clean(s, Holder(s, k))
    PROVE  Onward(s, k, Returned(s, k))
<1> DEFINE f == Holder(s, k)
           u == Returned(s, k)
<1>1. s \in Writers /\ k - 1 \in 0..Len(nest)
    BY PlaceFacts DEF Sane
<1>2. CASE nest[k] = "log"
  <2>1. u = [s EXCEPT !.logged[k] = Default(s, k)]
    BY <1>2 DEF Returned, Log
  <2> HIDE DEF f, u
  <2>2. u.held = s.held /\ u.open = s.open /\ u.wire = s.wire /\ u.head = s.head
        /\ u.hdr = s.hdr
    BY <1>1, <2>1 DEF Writers
  <2>3. Alike(s, u, f)
    BY <2>2 DEF Alike
  <2>. QED
    BY <2>3, AlikeOnward DEF f, u
<1>3. CASE nest[k] = "upstream"
  <2> DEFINE A == {"latency"}
             R == {}
  <2>1. u = Change(s, k - 1, R, A)
    BY <1>3 DEF Returned
  <2>2. \A x \in A : x \in Names
    BY DEF Names
  <2>3. Map(f) = Map(k - 1)
    BY <1>3, StepOut, MapStep
  <2>4. \A D, x : x # "latency" => (x \in (D \ R) \union A <=> x \in D)
    OBVIOUS
  <2>5. Map(k - 1) \in Nat
    BY MapStep, PlaceFacts
  <2> HIDE DEF f, u, A, R
  <2>6. /\ u.held = s.held /\ u.open = s.open
        /\ u.wire = s.wire /\ u.head = s.head
        /\ u.hdr[Map(k - 1)] = (s.hdr[Map(k - 1)] \ R) \union A
        /\ \A m \in 0..Len(nest) : m # Map(k - 1) => u.hdr[m] = s.hdr[m]
    BY <1>1, <2>1, <2>2, ChangeEffect
  <2>7. \A m \in 0..Len(nest) : m < Map(f) => u.hdr[m] = s.hdr[m]
    BY <2>3, <2>5, <2>6, PlaceFacts
  <2>8. Alike(s, u, f)
    BY <2>3, <2>4, <2>6, <2>7 DEF Alike
  <2>. QED
    BY <2>8, AlikeOnward DEF f, u
<1>4. CASE nest[k] = "compress"
  <2>1. s.open[k]
    BY <1>4 DEF Holds
  <2>2. u = s
    BY <1>4, <2>1 DEF Returned, Flush
  <2>3. Alike(s, s, f)
    BY DEF Alike
  <2>. QED
    BY <2>2, <2>3, AlikeOnward
<1>5. CASE nest[k] \in {"headers", "recovery"}
  <2>1. u = s
    BY <1>5 DEF Returned
  <2>2. Alike(s, s, f)
    BY DEF Alike
  <2>. QED
    BY <2>1, <2>2, AlikeOnward
<1>6. nest[k] \in Wrappers /\ nest[k] \notin {"transform", "proxyerror"}
    BY PlaceFacts DEF Holds
<1>. QED
    BY <1>2, <1>3, <1>4, <1>5, <1>6 DEF Wrappers

(* The compression flushes what it has.                                    *)
LEMMA FlushOnward ==
    ASSUME Nested, NEW s, Sane(s), NEW k \in Places, nest[k] = "compress", ~s.open[k],
           Clean(s, k), Holder(s, k) = k
    PROVE  Onward(s, k, Released(s, k, FALSE))
<1> DEFINE u == Released(s, k, FALSE)
           g == Holder(u, k - 1)
<1>1. k - 1 \in 0..Len(nest)
    BY PlaceFacts
<1>2. /\ Clean(u, g)
      /\ Stored(s, k).status # "none" => Stored(u, g).status = Stored(s, k).status
    BY ReleasedClean
<1>3. ASSUME NEW loggers \in SUBSET Loggers, Told(s, k, loggers)
      PROVE  Told(u, g, loggers)
  <2>1. \A i \in loggers : i \in Places /\ nest[i] = "log"
    BY <1>3 DEF Loggers
  <2>. QED
    BY <1>3, <2>1, ReleasedTold
<1>4. ASSUME NEW w, NEW c, Good(s, k, k, w, c, FALSE)
      PROVE  Good(u, k - 1, g, w, c, FALSE)
    BY <1>1, <1>4, ReleasedGood
<1> HIDE DEF u, g
<1>. QED
    BY <1>2, <1>3, <1>4 DEF Onward, u, g

(* A wrapper that has held the response back replays it, with headers that *)
(* are as true of it as before.                                            *)
LEMMA ReplayOnward ==
    ASSUME Nested, NEW s, Sane(s), NEW k \in Places,
           nest[k] \in {"transform", "proxyerror"}, Clean(s, k), Holder(s, k) = k,
           NEW t, Sane(t), Below(t, k), t.held = s.held, t.open = s.open,
           NEW done, \A x \in done : x = "edited",
           "length" \in t.hdr[Map(k - 1)] => "length" \in Heads(s, k) /\ done = {},
           "encoding" \in t.hdr[Map(k - 1)] <=> "encoding" \in Heads(s, k),
           "error" \in t.hdr[Map(k - 1)] => "error" \in Heads(s, k) \/ Default(s, k) = "bad",
           "added" \in Heads(s, k) => "added" \in t.hdr[Map(k - 1)],
           "unwanted" \in t.hdr[Map(k - 1)] => "unwanted" \in Heads(s, k)
    PROVE  Onward(s, k, Replay(t, k, done))
<1> DEFINE st == Default(s, k)
           b == s.held[k].body
           form == s.held[k].form \union done
           u == Resent(t, k, st, b, form)
           g == Holder(u, k - 1)
           D == t.hdr[Map(k - 1)]
<1>1. Replay(t, k, done) = u
    BY DEF Replay, Resent, Default
<1>2. /\ st \in Statuses \union {"500"} /\ b \in Seq({"piece", "message"})
      /\ \A x \in form : x \in {"gzip", "edited"}
      /\ Stored(s, k) = s.held[k]
      /\ st = Eff(s.held[k].status) /\ st # "none" /\ Eff(st) = st
      /\ nest[k] # "log" /\ nest[k] # "headers"
  <2>1. s \in Writers
    BY DEF Sane
  <2>2. st \in Statuses \union {"500"} /\ b \in Seq({"piece", "message"})
        /\ (\A x \in s.held[k].form : x \in {"gzip", "edited"})
        /\ st = Eff(s.held[k].status)
    BY <2>1, HeldFacts
  <2>3. Stored(s, k) = s.held[k]
    BY PlaceFacts DEF Stored
  <2>4. \A x \in form : x \in {"gzip", "edited"}
    BY <2>2
  <2> HIDE DEF st, b, form
  <2>5. st # "none" /\ Eff(st) = st
    BY <2>2 DEF Statuses, Eff
  <2>. QED
    BY <2>2, <2>3, <2>4, <2>5
<1>3. form = s.held[k].form \union done
    OBVIOUS
<1>4. s.held[k].status # "none" => st = s.held[k].status
    BY DEF Default
<1>5. Clean(u, g)
  <2> HIDE DEF st, b, form
  <2>. QED
    BY <1>2, SentClean
<1> HIDE DEF st, b, form
<1>6. ASSUME NEW loggers \in SUBSET Loggers, Told(s, k, loggers)
      PROVE  Told(u, g, loggers)
  <2>1. \A i \in loggers : i \in Places /\ nest[i] = "log"
    BY <1>6 DEF Loggers
  <2>2. \A i \in loggers : i > k => Eff(t.held[i].status) = Eff(st)
    BY <1>2, <1>6 DEF Told
  <2>. QED
    BY <1>2, <2>1, <2>2, SentTold
<1>7. Stored(u, g).status = st
  <2> DEFINE none == {}
  <2>1. \A i \in none : i \in Places /\ nest[i] = "log"
    OBVIOUS
  <2>2. \A i \in none : i > k => Eff(t.held[i].status) = Eff(st)
    OBVIOUS
  <2> HIDE DEF none
  <2>3. Told(u, g, none) /\ Stored(u, g).status = st
    BY <1>2, <2>1, <2>2, SentTold
  <2>. QED
    BY <2>3
<1>8. ASSUME NEW w, NEW c, Good(s, k, k, w, c, FALSE)
      PROVE  Good(u, k - 1, g, w, c, FALSE)
  <2>1. /\ Len(b) = w
        /\ "length" \in Heads(s, k) => s.held[k].form = {}
        /\ "encoding" \in Heads(s, k) <=> "gzip" \in s.held[k].form
        /\ "error" \in Heads(s, k) => s.held[k].status = "bad"
    BY <1>2, <1>8 DEF Good, Honest, b
  <2>2. "length" \in D => form = {}
    BY <1>3, <2>1
  <2>3. "encoding" \in D <=> "gzip" \in form
    BY <1>3, <2>1
  <2>4. "error" \in D => st = "bad"
    BY <1>4, <2>1 DEF st
  <2>5. \A i \in Places : nest[i] = "headers" /\ k < i /\ t.open[i] =>
           "added" \in D /\ "unwanted" \notin D
    BY <1>8 DEF Good, Seen
  <2>6. c > 0 => Ready(t, k)
    BY <1>8 DEF Good, Ready
  <2> HIDE DEF u
  <2>7. Good(u, k - 1, Holder(u, k - 1), w, c, FALSE)
    BY <1>2, <2>1, <2>2, <2>3, <2>4, <2>5, <2>6, SentGood DEF u
  <2>. QED
    BY <2>7
<1> HIDE DEF u, g
<1>9. Stored(s, k).status # "none" => Stored(u, g).status = Stored(s, k).status
    BY <1>2, <1>4, <1>7
<1>. QED
    BY <1>1, <1>5, <1>6, <1>8, <1>9 DEF Onward, g

LEMMA TransformOnward ==
    ASSUME Nested, NEW s, Sane(s), NEW k \in Places, nest[k] = "transform",
           Clean(s, k), Holder(s, k) = k
    PROVE  Onward(s, k, Transform(s, k))
<1>1. /\ k \in 0..Len(nest) /\ k - 1 \in 0..Len(nest) /\ k > 0 /\ s \in Writers
      /\ Map(k - 1) = Map(k) /\ Map(k) \in Nat
    BY MapStep, PlaceFacts DEF Sane
<1>2. Heads(s, k) = s.hdr[Map(k - 1)]
    BY <1>1 DEF Heads
<1>3. CASE matches
  <2> DEFINE R == {"length"}
             A == {}
             t == Change(s, k, R, A)
             done == {"edited"}
  <2>1. Transform(s, k) = Replay(t, k, done)
    BY <1>3 DEF Transform
  <2>2. \A x : x \in R <=> x = "length"
    OBVIOUS
  <2>3. \A x : x \notin A
    OBVIOUS
  <2>4. \A x \in done : x = "edited"
    OBVIOUS
  <2> HIDE DEF R, A, done
  <2>5. /\ t \in Writers
        /\ t.held = s.held /\ t.open = s.open
        /\ t.wire = s.wire /\ t.head = s.head
        /\ t.hdr[Map(k)] = (s.hdr[Map(k)] \ R) \union A
        /\ \A m \in 0..Len(nest) : m # Map(k) => t.hdr[m] = s.hdr[m]
    BY <1>1, <2>3, ChangeEffect
  <2> HIDE DEF t
  <2>6. Sane(t)
    BY <2>5 DEF Sane
  <2>7. Below(t, k)
    <3>1. \A m \in 0..Len(nest) : m < Map(k - 1) => t.hdr[m] = s.hdr[m]
      BY <1>1, <2>5, PlaceFacts
    <3>. QED
      BY <2>5, <3>1, CleanBelow
  <2>8. \A x : x \in t.hdr[Map(k - 1)] <=> x \in Heads(s, k) /\ x # "length"
    BY <1>1, <1>2, <2>2, <2>3, <2>5
  <2>. QED
    BY <2>1, <2>4, <2>5, <2>6, <2>7, <2>8, ReplayOnward
<1>4. CASE ~matches
  <2>1. Transform(s, k) = Replay(s, k, {})
    BY <1>4 DEF Transform
  <2>2. Below(s, k)
    BY CleanBelow
  <2>3. \A x \in {} : x = "edited"
    OBVIOUS
  <2>. QED
    BY <1>2, <2>1, <2>2, <2>3, ReplayOnward
<1>. QED
    BY <1>3, <1>4

LEMMA ProxyErrorOnward ==
    ASSUME Nested, NEW s, Sane(s), NEW k \in Places, nest[k] = "proxyerror",
           Clean(s, k), Holder(s, k) = k
    PROVE  Onward(s, k, ProxyError(s, k))
<1>1. /\ k \in 0..Len(nest) /\ k - 1 \in 0..Len(nest) /\ k > 0 /\ s \in Writers
      /\ Map(k - 1) \in 0..k - 1 /\ Map(k) = k /\ Map(k - 1) \in 0..Len(nest)
      /\ Map(k - 1) < k /\ Map(k - 1) \in Nat
    BY MapStep, PlaceFacts DEF Sane
<1>2. Heads(s, k) = s.hdr[k]
    BY <1>1 DEF Heads
<1>3. s.hdr[Map(k - 1)] = {}
    BY <1>1 DEF Clean
<1> DEFINE R == {}
           A == s.hdr[k] \union IF Default(s, k) = "bad" THEN {"error"} ELSE {}
           t == Change(s, k - 1, R, A)
<1>4. ProxyError(s, k) = Replay(t, k, {})
    BY DEF ProxyError
<1>5. \A x \in A : x \in Names
  <2>1. s.hdr[k] \in SUBSET Names
    BY <1>1, WritersFields
  <2>. QED
    BY <2>1 DEF Names
<1>6. /\ \A x : x # "error" => (x \in A <=> x \in s.hdr[k])
      /\ "error" \in A => "error" \in s.hdr[k] \/ Default(s, k) = "bad"
    OBVIOUS
<1> HIDE DEF R, A
<1>7. /\ t \in Writers
      /\ t.held = s.held /\ t.open = s.open
      /\ t.wire = s.wire /\ t.head = s.head
      /\ t.hdr[Map(k - 1)] = (s.hdr[Map(k - 1)] \ R) \union A
      /\ \A m \in 0..Len(nest) : m # Map(k - 1) => t.hdr[m] = s.hdr[m]
    BY <1>1, <1>5, ChangeEffect
<1> HIDE DEF t
<1>8. Sane(t)
    BY <1>7 DEF Sane
<1>9. Below(t, k)
  <2>1. ASSUME NEW m \in 0..Len(nest), m < Map(k - 1) PROVE t.hdr[m] = s.hdr[m]
    <3>1. Map(k - 1) \in Nat /\ m \in Nat
      BY MapStep, PlaceFacts
    <3>2. m # Map(k - 1)
      BY <2>1, <3>1
    <3>. QED
      BY <1>7, <3>2
  <2>. QED
    BY <1>7, <2>1, CleanBelow
<1>10. \A x : x \in t.hdr[Map(k - 1)] <=> x \in A
    BY <1>3, <1>7
<1>11. \A x \in {} : x = "edited"
    OBVIOUS
<1>. QED
    BY <1>2, <1>4, <1>6, <1>7, <1>8, <1>9, <1>10, <1>11, ReplayOnward

LEMMA ReturnedOnward ==
    ASSUME Nested, NEW s, Sane(s), NEW k \in Places, Clean(s, Holder(s, k))
    PROVE  Onward(s, k, Returned(s, k))
<1>1. CASE ~Holds(s, k)
    BY <1>1, SidelineOnward
<1>2. CASE Holds(s, k)
  <2>1. Holder(s, k) = k
    <3>1. k \in 0..Len(nest) /\ k \in 0..k /\ \A i \in Places : ~(k < i /\ i <= k)
      BY PlaceFacts
    <3>. QED
      BY <1>2, <3>1, HolderIs
  <2>2. CASE nest[k] = "transform"
    BY <2>1, <2>2, TransformOnward DEF Returned
  <2>3. CASE nest[k] = "proxyerror"
    BY <2>1, <2>3, ProxyErrorOnward DEF Returned
  <2>4. CASE nest[k] = "compress" /\ ~s.open[k]
    BY <2>1, <2>4, FlushOnward DEF Returned, Flush
  <2>. QED
    BY <1>2, <2>2, <2>3, <2>4 DEF Holds
<1>. QED
    BY <1>1, <1>2

-----------------------------------------------------------------------------
(* While the handler runs: the loggers that c statuses cannot mislead, and *)
(* the wrappers before anything has been written.                          *)
Truthful(c) == {i \in Loggers : c <= 1 \/ Buffered(i)}

Fresh(s, w) ==
    /\ \A i \in Places : s.held[i] = None /\ ~s.open[i]
    /\ s.wire = None
    /\ w = 0

(* All that has been said of the response while nothing has gone wrong, at *)
(* the holder of a body from under wrapper n.                              *)
Fair(s, n, c, w, running) ==
    LET f == Holder(s, n)
    IN /\ Clean(s, f)
       /\ Told(s, f, Truthful(c))
       /\ Good(s, n, f, w, c, running)

(* The first status or body finds all of the headers middlewares that it   *)
(* passes closed, a later one none of them.                                *)
LEMMA PassedKeeps ==
    ASSUME Nested, NEW s, NEW t, NEW f, NEW j, NEW n,
           n = Len(nest), f \in 0..n, j \in 0..n, f <= j,
           Map(n) = Map(f),
           HeadersPassed(s, t, j, n),
           NEW c \in 0..2,
           c = 0 => j = f /\ s.wire.status = "none",
           c > 0 => Ready(s, f), Seen(s, f),
           f = 0 => (s.wire.status = "none" => t.wire.status = "none" \/ t.head = t.hdr[0]),
           f = 0 => (s.wire.status # "none" => t.wire.status # "none" /\ t.head = s.head)
    PROVE  /\ \A x : x \notin {"added", "unwanted"} =>
                 (x \in Heads(t, f) <=> x \in Heads(s, f))
           /\ Seen(t, f) /\ Ready(t, f)
           /\ Holder(t, n) = Holder(s, n)
<1>1. /\ n \in Nat /\ f \in Nat /\ j \in Nat /\ (\A i \in Places : i \in Nat /\ i <= n)
      /\ n \in 0..Len(nest) /\ f \in 0..Len(nest)
    BY PlaceFacts
<1>2. Heads(t, f) = IF Due(s, j, n) /\ ~(f = 0 /\ s.wire.status # "none")
                       THEN Marked(Heads(s, f)) ELSE Heads(s, f)
  <2> DEFINE due == Due(s, j, n)
  <2>1. due \in BOOLEAN
    BY DEF Due
  <2>2. t.hdr[Map(n)] = IF due THEN Marked(s.hdr[Map(n)]) ELSE s.hdr[Map(n)]
    BY DEF HeadersPassed
  <2> HIDE DEF due
  <2>3. Heads(t, f) = IF due /\ ~(f = 0 /\ s.wire.status # "none")
                         THEN Marked(Heads(s, f)) ELSE Heads(s, f)
    BY <1>1, <2>1, <2>2, HeadsAfter
  <2>. QED
    BY <2>3 DEF due
<1>3. \A x : x \notin {"added", "unwanted"} => (x \in Heads(t, f) <=> x \in Heads(s, f))
    BY <1>2, MarkedFacts
<1>4. Ready(t, f)
  <2>1. SUFFICES ASSUME NEW i \in Places, nest[i] = "headers", f < i
                 PROVE  t.open[i]
    BY DEF Ready
  <2>2. CASE c = 0
    BY <1>1, <2>1, <2>2 DEF HeadersPassed
  <2>3. CASE c > 0
    BY <2>1, <2>3 DEF Ready, HeadersPassed
  <2>. QED
    BY <2>2, <2>3
<1>5. Seen(t, f)
  <2>1. SUFFICES ASSUME NEW i \in Places, nest[i] = "headers", f < i
                 PROVE  "added" \in Heads(t, f) /\ "unwanted" \notin Heads(t, f)
    BY DEF Seen
  <2>2. CASE s.open[i]
    BY <1>2, <2>1, <2>2, MarkedFacts DEF Seen
  <2>3. CASE ~s.open[i]
    <3>1. c = 0
      BY <2>1, <2>3 DEF Ready
    <3>2. Due(s, j, n)
      BY <1>1, <2>1, <2>3, <3>1 DEF Due
    <3>. QED
      BY <1>2, <3>1, <3>2, MarkedFacts
  <2>. QED
    BY <2>2, <2>3
<1>6. Holder(t, n) = Holder(s, n)
  <2>1. \A i \in Places : nest[i] = "compress" => (t.open[i] <=> s.open[i])
    BY DEF HeadersPassed
  <2>. QED
    BY <1>1, <2>1, HolderSame
<1>. QED
    BY <1>3, <1>4, <1>5, <1>6

LEMMA WriteHeaderKeeps ==
    ASSUME Nested, NEW s, Sane(s), NEW n, n = Len(nest), NEW f, f = Holder(s, n),
           NEW status \in Statuses, NEW c \in 0..1, NEW d, d = c + 1, NEW w,
           Clean(s, f), Told(s, f, Truthful(c)), Good(s, n, f, w, c, TRUE),
           c = 0 => Fresh(s, w)
    PROVE  Fair(PutStatus(s, n, status), n, d, w, TRUE)
<1> DEFINE t == PutStatus(s, n, status)
           j == Keeper(n)
<1>1. /\ n \in Nat /\ n \in 0..Len(nest) /\ s \in Writers
      /\ Places = 1..n /\ (\A i \in Places : i \in Nat /\ i <= n)
      /\ status \in Statuses \union {"500"} /\ status # "none"
    BY PlaceFacts DEF Sane, Statuses
<1>2. f \in 0..n /\ j \in 0..n /\ f <= j /\ Map(n) = Map(f) /\ f \in Nat /\ j \in Nat
    BY <1>1, HolderFacts, KeeperFacts, KeeperInside, MapOfHolder
<1>3. t \in Writers /\ StatusPut(s, t, j, n, status)
    BY <1>1, PutStatusEffect
<1>4. c = 0 => j = f
  <2>. SUFFICES ASSUME c = 0, f < j PROVE FALSE
    BY <1>2
  <2>1. j \in Places /\ nest[j] \in {"transform", "proxyerror", "compress"}
    BY <1>1, <1>2, KeeperFacts
  <2>2. Holds(s, j)
    BY <2>1 DEF Fresh, Holds
  <2>. QED
    BY <1>1, <1>2, <2>1, <2>2, HolderFacts
<1>5. \A i \in Places : j < i => nest[i] \notin {"transform", "proxyerror", "compress"}
    BY <1>1, KeeperFacts
<1> HIDE DEF t, j
<1>6. s.wire \in Message /\ s.held \in [Places -> Message]
    BY <1>1, WritersFields
<1>7. /\ Stored(t, f).body = Stored(s, f).body
      /\ Stored(t, f).form = Stored(s, f).form
      /\ f < j => Stored(t, f) = Stored(s, f)
  <2>1. CASE f < j
    <3>1. f > 0 => t.held[f] = s.held[f]
      BY <1>1, <1>2, <1>3, <2>1 DEF StatusPut
    <3>2. t.wire = s.wire
      BY <1>2, <1>3, <2>1 DEF StatusPut
    <3>. QED
      BY <1>2, <3>1, <3>2 DEF Stored
  <2>2. CASE f = j
    <3>1. CASE f = 0
      <4>1. t.wire = [s.wire EXCEPT !.status =
                        IF s.wire.status = "none" THEN status ELSE @]
        BY <1>3, <2>2, <3>1 DEF StatusPut
      <4>2. t.wire.body = s.wire.body /\ t.wire.form = s.wire.form
        BY <1>6, <4>1 DEF Message
      <4>. QED
        BY <1>2, <2>2, <3>1, <4>2 DEF Stored
    <3>2. CASE f > 0
      <4>1. f \in Places /\ s.held[f] \in Message
        BY <1>1, <1>2, <1>6, <3>2
      <4>2. t.held[f].body = s.held[f].body /\ t.held[f].form = s.held[f].form
        BY <1>3, <2>2, <3>2, <4>1 DEF StatusPut, Message
      <4>. QED
        BY <1>2, <2>2, <3>2, <4>2 DEF Stored
    <3>. QED
      BY <1>2, <3>1, <3>2
  <2>. QED
    BY <1>2, <2>1, <2>2
<1>8. /\ \A x : x \notin {"added", "unwanted"} => (x \in Heads(t, f) <=> x \in Heads(s, f))
      /\ Seen(t, f) /\ Ready(t, f) /\ Holder(t, n) = Holder(s, n)
  <2>1. HeadersPassed(s, t, j, n)
    BY <1>3 DEF StatusPut
  <2>2. c \in 0..2
    OBVIOUS
  <2>3. c = 0 => j = f /\ s.wire.status = "none"
    BY <1>4 DEF Fresh, None
  <2>4. (c > 0 => Ready(s, f)) /\ Seen(s, f)
    BY DEF Good
  <2>5. f = 0 => (s.wire.status = "none" => t.wire.status = "none" \/ t.head = t.hdr[0])
    BY <1>2, <1>3 DEF StatusPut
  <2>6. f = 0 => (s.wire.status # "none" => t.wire.status # "none" /\ t.head = s.head)
    <3>1. CASE j = 0
      BY <1>3, <1>6, <3>1 DEF StatusPut, Message
    <3>2. CASE j > 0
      BY <1>3, <3>2 DEF StatusPut
    <3>. QED
      BY <1>2, <3>1, <3>2
  <2>. QED
    BY <1>2, <2>1, <2>2, <2>3, <2>4, <2>5, <2>6, PassedKeeps
<1>9. Clean(t, f)
  <2>1. \A i \in Places : i < f => t.held[i] = None /\ ~t.open[i]
    BY <1>1, <1>2, <1>3 DEF StatusPut, HeadersPassed, Clean
  <2>2. f > 0 => t.wire = None /\ t.head = {}
    BY <1>2, <1>3 DEF StatusPut, Clean
  <2>3. ASSUME NEW m \in 0..Len(nest), m < Map(f) PROVE t.hdr[m] = {}
    <3>1. Map(n) \in Nat
      BY <1>1, MapFacts
    <3>2. m # Map(n)
      BY <1>2, <2>3, <3>1, PlaceFacts
    <3>. QED
      BY <1>3, <2>3, <3>2 DEF StatusPut, HeadersPassed, Clean
  <2>. QED
    BY <2>1, <2>2, <2>3 DEF Clean
<1>10. Told(t, f, Truthful(d))
  <2>1. SUFFICES ASSUME NEW i \in Truthful(d), i > f
                 PROVE  Eff(t.held[i].status) = Eff(Stored(t, f).status)
    BY DEF Told
  <2>2. i \in Places /\ nest[i] = "log" /\ (d <= 1 \/ Buffered(i))
    BY DEF Truthful, Loggers
  <2>3. CASE c = 0
    <3>1. t.held[i].status = status
      BY <1>1, <1>3, <1>4, <2>1, <2>2, <2>3 DEF StatusPut
    <3>2. Stored(t, f).status = status
      <4>1. CASE f = 0
        BY <1>3, <1>4, <1>6, <2>3, <4>1 DEF StatusPut, Stored, Message, Fresh, None
      <4>2. CASE f > 0
        <5>1. f \in Places /\ s.held[f] \in Message /\ s.held[f].status = "none"
          BY <1>1, <1>2, <1>6, <2>3, <4>2 DEF Fresh, None
        <5>2. t.held[f].status = status
          BY <1>3, <1>4, <2>3, <4>2, <5>1 DEF StatusPut, Message
        <5>. QED
          BY <4>2, <5>2 DEF Stored
      <4>. QED
        BY <1>2, <4>1, <4>2
    <3>. QED
      BY <3>1, <3>2
  <2>4. CASE c = 1
    <3>1. PICK b \in Places : b > i /\ nest[b] \in {"transform", "compress", "proxyerror"}
      BY <2>2, <2>4 DEF Buffered
    <3>2. i < j
      BY <1>1, <1>2, <1>5, <2>2, <3>1
    <3>3. t.held[i] = s.held[i]
      BY <1>3, <2>2, <3>2 DEF StatusPut
    <3>4. Stored(t, f) = Stored(s, f)
      BY <1>1, <1>2, <1>7, <2>1, <2>2, <3>2
    <3>5. i \in Truthful(c)
      BY <2>2, <2>4 DEF Truthful, Loggers
    <3>. QED
      BY <2>1, <3>3, <3>4, <3>5 DEF Told
  <2>. QED
    BY <2>3, <2>4
<1>11. Good(t, n, f, w, d, TRUE)
  <2>1. "error" \notin Heads(s, f) /\ Honest(s, f, w) /\ Zipped(s, n, f)
    BY DEF Good
  <2>2. /\ "error" \notin Heads(t, f)
        /\ "length" \in Heads(t, f) <=> "length" \in Heads(s, f)
        /\ "encoding" \in Heads(t, f) <=> "encoding" \in Heads(s, f)
    BY <1>8, <2>1
  <2>3. Honest(t, f, w)
    BY <1>7, <2>1, <2>2 DEF Honest
  <2>4. Zipped(t, n, f)
    BY <1>7, <2>1 DEF Zipped
  <2>. QED
    BY <1>8, <2>2, <2>3, <2>4 DEF Good
<1>12. Holder(t, n) = f
    BY <1>8
<1> HIDE DEF t
<1>13. Fair(t, n, d, w, TRUE)
    BY <1>9, <1>10, <1>11, <1>12 DEF Fair
<1>. QED
    BY <1>13 DEF t

LEMMA WriteKeeps ==
    ASSUME Nested, NEW s, Sane(s), NEW n, n = Len(nest), NEW f, f = Holder(s, n),
           NEW c \in 0..2, NEW w \in Nat,
           Clean(s, f), Told(s, f, Truthful(c)), Good(s, n, f, w, c, TRUE),
           c = 0 => Fresh(s, w)
    PROVE  LET t == Deliver(s, n, <<"piece">>, {})
               d == IF c = 0 THEN 1 ELSE c
           IN /\ Sane(t)
              /\ Holder(t, n) = f
              /\ Clean(t, f)
              /\ Told(t, f, Truthful(d))
              /\ Good(t, n, f, w + 1, d, TRUE)
<1> DEFINE b == <<"piece">>
           none == {}
           t == Deliver(s, n, b, none)
           d == IF c = 0 THEN 1 ELSE c
<1>1. /\ n \in Nat /\ n \in 0..Len(nest) /\ s \in Writers
      /\ Places = 1..n /\ (\A i \in Places : i \in Nat /\ i <= n)
    BY PlaceFacts DEF Sane
<1>2. f \in 0..n /\ Map(n) = Map(f) /\ f \in Nat /\ f \in 0..Len(nest) /\ f <= f
    BY <1>1, HolderFacts, MapOfHolder
<1>3. b \in Seq({"piece", "message"}) /\ \A x \in none : x \in {"gzip", "edited"}
    OBVIOUS
<1>4. Len(b) = 1
    OBVIOUS
<1>5. \A x : x \notin none
    OBVIOUS
<1> HIDE DEF b, none
<1>6. Sane(t) /\ BodyDelivered(s, t, f, n, b, none)
    BY <1>1, <1>3, DeliverEffect, DeliverSane
<1> HIDE DEF t
<1>7. Stored(s, f) \in Message
    BY <1>1, <1>2, StoredType
<1>8. Stored(t, f).form = Stored(s, f).form
  <2>1. \A x \in Gzipped(f, n) : x \in Stored(s, f).form
    <3>1. ASSUME NEW i \in f + 1..n, nest[i] = "compress"
          PROVE  "gzip" \in Stored(s, f).form
      <4>1. i \in Places /\ f < i /\ i <= n
        BY <1>1, <1>2
      <4>. QED
        BY <3>1, <4>1 DEF Good, Zipped
    <3>. QED
      BY <3>1 DEF Gzipped
  <2>2. Stored(t, f).form = Stored(s, f).form \union none \union Gzipped(f, n)
    BY <1>6 DEF BodyDelivered
  <2>. QED
    BY <1>5, <2>1, <2>2
<1>9. Len(Stored(t, f).body) = w + 1
  <2>1. Stored(t, f).body = Stored(s, f).body \o b
    BY <1>6 DEF BodyDelivered
  <2>2. Stored(s, f).body \in Seq({"piece", "message"})
    BY <1>7 DEF Message
  <2>3. Len(Stored(s, f).body) = w
    BY DEF Good, Honest
  <2> DEFINE a == Stored(s, f).body
  <2> HIDE DEF a
  <2>4. \A p, q \in Seq({"piece", "message"}) : Len(p \o q) = Len(p) + Len(q)
    OBVIOUS
  <2>5. Len(a \o b) = Len(a) + Len(b)
    BY <1>3, <2>2, <2>4 DEF a
  <2>. QED
    BY <1>4, <2>1, <2>3, <2>5 DEF a
<1>10. /\ \A x : x \notin {"added", "unwanted"} => (x \in Heads(t, f) <=> x \in Heads(s, f))
       /\ Seen(t, f) /\ Ready(t, f) /\ Holder(t, n) = Holder(s, n)
  <2>1. HeadersPassed(s, t, f, n)
    BY <1>6 DEF BodyDelivered
  <2>2. c = 0 => f = f /\ s.wire.status = "none"
    BY DEF Fresh, None
  <2>3. (c > 0 => Ready(s, f)) /\ Seen(s, f)
    BY DEF Good
  <2>4. f = 0 => (s.wire.status = "none" => t.wire.status = "none" \/ t.head = t.hdr[0])
    BY <1>6 DEF BodyDelivered
  <2>5. f = 0 => (s.wire.status # "none" => t.wire.status # "none" /\ t.head = s.head)
    BY <1>6 DEF BodyDelivered, Stored, Eff
  <2>. QED
    BY <1>2, <2>1, <2>2, <2>3, <2>4, <2>5, PassedKeeps
<1>11. Clean(t, f)
  <2>1. \A i \in Places : i < f => t.held[i] = None /\ ~t.open[i]
    BY <1>1, <1>2, <1>6 DEF BodyDelivered, HeadersPassed, Clean
  <2>2. f > 0 => t.wire = None /\ t.head = {}
    BY <1>6 DEF BodyDelivered, Clean
  <2>3. ASSUME NEW m \in 0..Len(nest), m < Map(f) PROVE t.hdr[m] = {}
    <3>1. Map(n) \in Nat
      BY <1>1, MapFacts
    <3>2. m # Map(n)
      BY <1>2, <2>3, <3>1, PlaceFacts
    <3>. QED
      BY <1>6, <2>3, <3>2 DEF BodyDelivered, HeadersPassed, Clean
  <2>. QED
    BY <2>1, <2>2, <2>3 DEF Clean
<1>12. Told(t, f, Truthful(d))
  <2>1. SUFFICES ASSUME NEW i \in Truthful(d), i > f
                 PROVE  Eff(t.held[i].status) = Eff(Stored(t, f).status)
    BY DEF Told
  <2>2. i \in Truthful(c) /\ i \in Places
    BY DEF Truthful, Loggers
  <2>3. t.held[i] = s.held[i]
    BY <1>1, <1>2, <1>6, <2>1, <2>2 DEF BodyDelivered
  <2>4. Eff(Stored(t, f).status) = Eff(Stored(s, f).status)
    BY <1>6 DEF BodyDelivered, Eff
  <2>. QED
    BY <2>1, <2>2, <2>3, <2>4 DEF Told
<1>13. Good(t, n, f, w + 1, d, TRUE)
  <2>1. "error" \notin Heads(s, f) /\ Honest(s, f, w) /\ Zipped(s, n, f)
    BY DEF Good
  <2>2. /\ "error" \notin Heads(t, f)
        /\ "length" \in Heads(t, f) <=> "length" \in Heads(s, f)
        /\ "encoding" \in Heads(t, f) <=> "encoding" \in Heads(s, f)
    BY <1>10, <2>1
  <2>3. Honest(t, f, w + 1)
    BY <1>8, <1>9, <2>1, <2>2 DEF Honest
  <2>4. Zipped(t, n, f)
    BY <1>8, <2>1 DEF Zipped
  <2>. QED
    BY <1>10, <2>2, <2>3, <2>4 DEF Good
<1>. QED
    BY <1>6, <1>10, <1>11, <1>12, <1>13 DEF t, b, none

-----------------------------------------------------------------------------
(* The recovery finds a response that has not begun: its own status and    *)
(* message are the response, and all loggers outside of it keep the status.*)
Outside(r) == {i \in Loggers : i < r}

Unbegun(s) ==
    /\ s.wire.status = "none"
    /\ \A i \in Places : nest[i] = "proxyerror" => s.held[i].status = "none"
    /\ \A i \in Places : nest[i] = "compress" => ~s.open[i]

LEMMA RecoverKeeps ==
    ASSUME Nested, NEW s, Sane(s), NEW r \in Places, nest[r] = "recovery",
           Clean(s, Holder(s, r)), Unbegun(s)
    PROVE  LET u == Resent(s, r, "500", <<"message">>, {})
               g == Holder(u, r - 1)
           IN /\ Clean(u, g)
              /\ Stored(u, g).status = "500"
              /\ Told(u, g, Outside(r))
<1> DEFINE n == r - 1
           f == Holder(s, n)
           st == "500"
           b == <<"message">>
           none == {}
           v == PutStatus(s, n, st)
           t == Deliver(v, n, b, none)
           u == PutBody(v, n, b, none)
<1>1. /\ n \in Nat /\ n \in 0..Len(nest) /\ s \in Writers /\ r \in Nat
      /\ (\A i \in Places : i \in Nat /\ (i < r => i <= n) /\ (i > n => ~(i < r)))
    BY PlaceFacts DEF Sane
<1>2. b \in Seq({"piece", "message"}) /\ (\A x \in none : x \in {"gzip", "edited"})
      /\ st \in Statuses \union {"500"} /\ st = "500"
    OBVIOUS
<1>3. Clean(s, f)
    BY StepOut DEF Holds
<1> HIDE DEF n, st, b, none
<1>4. f \in 0..n /\ Map(n) = Map(f) /\ f \in Nat /\ f \in 0..Len(nest)
    BY <1>1, HolderFacts, MapOfHolder, PlaceFacts
<1> HIDE DEF f
<1>5. Keeper(n) = f
  <2> DEFINE j == Keeper(n)
  <2>1. f <= j /\ j \in 0..n /\ j \in Nat
    BY <1>1, KeeperInside, KeeperFacts DEF f
  <2>2. ASSUME f < j PROVE FALSE
    <3>1. j \in Places /\ j <= n /\ nest[j] \in {"transform", "proxyerror", "compress"}
      BY <1>1, <1>4, <2>1, <2>2, KeeperFacts, PlaceFacts
    <3> HIDE DEF j
    <3>2. Holds(s, j)
      BY <3>1 DEF Holds, Unbegun
    <3>. QED
      BY <1>1, <2>2, <3>1, <3>2, HolderFacts DEF f
  <2> HIDE DEF j
  <2>3. j = f
    BY <1>4, <2>1, <2>2
  <2>. QED
    BY <2>3 DEF j
<1>6. Sane(v) /\ v \in Writers /\ StatusPut(s, v, f, n, st)
    BY <1>1, <1>2, <1>5, PutStatusEffect, PutStatusSane DEF Sane
<1> HIDE DEF v
<1>7. Holder(v, n) = f
  <2>1. \A i \in Places : nest[i] = "compress" => (v.open[i] <=> s.open[i])
    BY <1>6 DEF StatusPut, HeadersPassed
  <2>. QED
    BY <1>1, <2>1, HolderSame DEF f
<1>8. Sane(t) /\ BodyDelivered(v, t, f, n, b, none)
    BY <1>1, <1>2, <1>6, <1>7, DeliverEffect, DeliverSane
<1>9. Holder(t, n) = f /\ Filled(t, u, f)
    BY <1>1, <1>2, <1>6, <1>7, PutBodyIs
<1> HIDE DEF t, u
<1>10. Clean(t, f)
  <2>1. \A i \in Places : i < f => t.held[i] = None /\ ~t.open[i]
    <3>1. \A i \in Places : i < f => v.held[i] = None /\ ~v.open[i]
      BY <1>1, <1>3, <1>4, <1>6 DEF StatusPut, HeadersPassed, Clean
    <3>. QED
      BY <1>1, <1>4, <1>8, <3>1 DEF BodyDelivered, HeadersPassed
  <2>2. f > 0 => t.wire = None /\ t.head = {}
    BY <1>3, <1>6, <1>8 DEF StatusPut, BodyDelivered, Clean
  <2>3. ASSUME NEW m \in 0..Len(nest), m < Map(f) PROVE t.hdr[m] = {}
    <3>1. Map(n) \in Nat
      BY <1>1, MapFacts
    <3>2. m # Map(n)
      BY <1>4, <2>3, <3>1, PlaceFacts
    <3>3. v.hdr[m] = {}
      BY <1>3, <1>6, <2>3, <3>2 DEF StatusPut, HeadersPassed, Clean
    <3>. QED
      BY <1>8, <3>2, <3>3 DEF BodyDelivered, HeadersPassed
  <2>. QED
    BY <2>1, <2>2, <2>3 DEF Clean
<1>11. Stored(v, f).status = "500"
  <2>1. CASE f = 0
    <3>1. s.wire \in Message
      BY <1>1, WritersFields
    <3>2. v.wire.status = "500"
      BY <1>2, <1>6, <2>1, <3>1 DEF StatusPut, Message, Unbegun
    <3>. QED
      BY <2>1, <3>2 DEF Stored
  <2>2. CASE f > 0
    <3>1. f \in Places
      BY <1>4, <2>2, PlaceFacts
    <3>2. s.held[f] \in Message
      BY <1>1, <3>1, WritersFields
    <3>3. v.held[f].status = "500"
      BY <1>2, <1>6, <2>2, <3>1, <3>2 DEF StatusPut, Message, Unbegun
    <3>. QED
      BY <2>2, <3>3, <1>4 DEF Stored
  <2>. QED
    BY <1>4, <2>1, <2>2
<1>12. Stored(t, f).status = "500"
    BY <1>8, <1>11 DEF BodyDelivered, Eff
<1>13. Told(t, f, Outside(r))
  <2>1. SUFFICES ASSUME NEW i \in Outside(r), i > f
                 PROVE  Eff(t.held[i].status) = Eff(Stored(t, f).status)
    BY DEF Told
  <2>2. i \in Places /\ nest[i] = "log" /\ i < r /\ i <= n
    BY <1>1 DEF Outside, Loggers
  <2>3. v.held[i].status = "500"
    BY <1>2, <1>6, <2>1, <2>2 DEF StatusPut
  <2>4. t.held[i] = v.held[i]
    BY <1>1, <1>4, <1>8, <2>1, <2>2 DEF BodyDelivered
  <2>. QED
    BY <1>12, <2>3, <2>4
<1>14. Clean(u, Holder(u, n)) /\ Stored(u, Holder(u, n)).status = "500"
    BY <1>1, <1>8, <1>9, <1>10, <1>12, FilledClean
<1>15. Told(u, Holder(u, n), Outside(r))
  <2> DEFINE L == Outside(r)
  <2>1. (\A i \in L : i \in Places /\ nest[i] = "log") /\ Told(t, f, L)
    BY <1>13 DEF Outside, Loggers
  <2> HIDE DEF L
  <2>2. Told(u, Holder(u, n), L)
    BY <1>1, <1>8, <1>9, <1>10, <2>1, FilledTold
  <2>. QED
    BY <2>2 DEF L
<1>. QED
    BY <1>14, <1>15 DEF u, v, n, st, b, none, Resent

-----------------------------------------------------------------------------
(* Whatever a wrapper does on its return, io stays what writers can keep,  *)
(* what is further in is left alone, and only a logger logs.               *)
LEMMA ChangeSane ==
    ASSUME Nested, NEW s, Sane(s), NEW k \in 0..Len(nest),
           NEW removed, NEW added, \A x \in added : x \in Names
    PROVE  LET t == Change(s, k, removed, added)
           IN /\ Sane(t)
              /\ t.held = s.held /\ t.open = s.open /\ t.logged = s.logged
              /\ t.wire = s.wire /\ t.head = s.head
<1> DEFINE t == Change(s, k, removed, added)
<1>1. s \in Writers
    BY DEF Sane
<1>2. /\ t \in Writers
      /\ t.held = s.held /\ t.open = s.open /\ t.logged = s.logged
      /\ t.wire = s.wire /\ t.head = s.head
    BY <1>1, ChangeEffect
<1> HIDE DEF t
<1>3. Sane(t)
    BY <1>2 DEF Sane
<1>. QED
    BY <1>2, <1>3 DEF t

LEMMA ReplaySane ==
    ASSUME Nested, NEW s, Sane(s), NEW k \in Places,
           NEW done, \A x \in done : x = "edited"
    PROVE  Sane(Replay(s, k, done)) /\ Above(s, Replay(s, k, done), k - 1)
<1> DEFINE n == k - 1
           st == Default(s, k)
           b == s.held[k].body
           form == s.held[k].form \union done
           v == PutStatus(s, n, st)
           t == PutBody(v, n, b, form)
<1>1. n \in 0..Len(nest) /\ s \in Writers
    BY PlaceFacts DEF Sane
<1>2. /\ st \in Statuses \union {"500"} /\ b \in Seq({"piece", "message"})
      /\ \A x \in form : x \in {"gzip", "edited"}
    BY <1>1, HeldFacts
<1>3. t = Replay(s, k, done)
    BY DEF Replay
<1> HIDE DEF n, st, b, form
<1>4. Sane(v) /\ Above(s, v, n)
    BY <1>1, <1>2, PutStatusSane
<1> HIDE DEF v
<1>5. Sane(t) /\ Above(v, t, n)
    BY <1>1, <1>2, <1>4, PutBodySane
<1> HIDE DEF t
<1>6. Above(s, t, n)
    BY <1>4, <1>5, AboveTransitive
<1>. QED
    BY <1>3, <1>5, <1>6 DEF n

(* From s to t, wrapper k has returned. *)
StepsOut(s, t, k) ==
    /\ Sane(t)
    /\ \A i \in Places : i >= k => t.held[i] = s.held[i]
    /\ \A i \in Places : i # k => t.logged[i] = s.logged[i]
    /\ t.logged[k] = IF nest[k] = "log" THEN Eff(s.held[k].status) ELSE s.logged[k]

LEMMA AboveStepsOut ==
    ASSUME Nested, NEW s, NEW t, Sane(t), NEW k \in Places, nest[k] # "log",
           NEW v, v.held = s.held, v.logged = s.logged, Above(v, t, k - 1)
    PROVE  StepsOut(s, t, k)
<1>1. \A i \in Places : i >= k => i > k - 1
    BY PlaceFacts
<1>2. t.logged = s.logged /\ \A i \in Places : i > k - 1 => t.held[i] = s.held[i]
    BY DEF Above
<1>. QED
    BY <1>1, <1>2 DEF StepsOut

LEMMA ReturnedSane ==
    ASSUME Nested, NEW s, Sane(s), NEW k \in Places
    PROVE  StepsOut(s, Returned(s, k), k)
<1> DEFINE t == Returned(s, k)
<1>1. /\ s \in Writers /\ k \in 0..Len(nest) /\ k - 1 \in 0..Len(nest)
      /\ nest[k] \in Wrappers
    BY PlaceFacts DEF Sane
<1>2. CASE nest[k] = "log"
  <2>1. t = [s EXCEPT !.logged[k] = Default(s, k)]
    BY <1>2 DEF Returned, Log
  <2>2. /\ s.logged \in [Places -> Statuses \union {"none", "500"}]
        /\ Default(s, k) \in Statuses \union {"500"}
        /\ Default(s, k) = Eff(s.held[k].status)
    BY <1>1, WritersFields, HeldFacts
  <2> DEFINE lg == [s.logged EXCEPT ![k] = Default(s, k)]
  <2>3. /\ lg \in [Places -> Statuses \union {"none", "500"}]
        /\ lg[k] = Eff(s.held[k].status)
        /\ \A i \in Places : i # k => lg[i] = s.logged[i]
    BY <2>2
  <2>4. t = [s EXCEPT !.logged = lg]
    BY <2>1
  <2> HIDE DEF lg, t
  <2>5. t \in Writers /\ t.held = s.held /\ t.logged = lg /\ t.wire = s.wire /\ t.head = s.head
    BY <1>1, <2>3, <2>4 DEF Writers
  <2>6. Sane(t)
    BY <2>5 DEF Sane
  <2>7. StepsOut(s, t, k)
    BY <1>2, <2>3, <2>5, <2>6 DEF StepsOut
  <2>. QED
    BY <2>7 DEF t
<1>3. CASE nest[k] = "transform"
  <2>1. CASE matches
    <3> DEFINE none == {}
               done == {"edited"}
               c == Change(s, k, {"length"}, none)
    <3>1. (\A x \in none : x \in Names) /\ (\A x \in done : x = "edited")
      OBVIOUS
    <3> HIDE DEF none, done
    <3>2. Sane(c) /\ c.held = s.held /\ c.logged = s.logged
      BY <1>1, <3>1, ChangeSane
    <3>3. t = Replay(c, k, done)
      BY <1>3, <2>1 DEF Returned, Transform, none, done
    <3> HIDE DEF c, t
    <3>4. Sane(t) /\ Above(c, t, k - 1)
      BY <3>1, <3>2, <3>3, ReplaySane
    <3>5. StepsOut(s, t, k)
      BY <1>3, <3>2, <3>4, AboveStepsOut
    <3>. QED
      BY <3>5 DEF t
  <2>2. CASE ~matches
    <3> DEFINE done == {}
    <3>1. \A x \in done : x = "edited"
      OBVIOUS
    <3>2. t = Replay(s, k, done)
      BY <1>3, <2>2 DEF Returned, Transform
    <3> HIDE DEF done, t
    <3>3. Sane(t) /\ Above(s, t, k - 1)
      BY <3>1, <3>2, ReplaySane
    <3>4. StepsOut(s, t, k)
      BY <1>3, <3>3, AboveStepsOut
    <3>. QED
      BY <3>4 DEF t
  <2>. QED
    BY <2>1, <2>2
<1>4. CASE nest[k] = "proxyerror"
  <2> DEFINE error == IF Default(s, k) = "bad" THEN {"error"} ELSE {}
             added == s.hdr[k] \union error
             c == Change(s, k - 1, {}, added)
             done == {}
  <2>1. \A x \in done : x = "edited"
    OBVIOUS
  <2>2. \A x \in added : x \in Names
    <3>1. s.hdr[k] \in SUBSET Names
      BY <1>1, WritersFields
    <3>2. \A x \in error : x \in Names
      BY DEF Names
    <3> HIDE DEF error
    <3>. QED
      BY <3>1, <3>2
  <2>3. t = Replay(c, k, done)
    BY <1>4 DEF Returned, ProxyError
  <2> HIDE DEF done, added
  <2>4. Sane(c) /\ c.held = s.held /\ c.logged = s.logged
    BY <1>1, <2>2, ChangeSane
  <2> HIDE DEF c, t
  <2>5. Sane(t) /\ Above(c, t, k - 1)
    BY <2>1, <2>3, <2>4, ReplaySane
  <2>6. StepsOut(s, t, k)
    BY <1>4, <2>4, <2>5, AboveStepsOut
  <2>. QED
    BY <2>6 DEF t
<1>5. CASE nest[k] = "compress"
  <2>1. Sane(Flush(s, k)) /\ Above(s, Flush(s, k), k - 1)
    BY ReleasedSane DEF Flush, Above
  <2>2. t = Flush(s, k)
    BY <1>5 DEF Returned
  <2>. QED
    BY <1>5, <2>1, <2>2, AboveStepsOut
<1>6. CASE nest[k] = "upstream"
  <2> DEFINE added == {"latency"}
             none == {}
  <2>1. \A x \in added : x \in Names
    BY DEF Names
  <2>2. t = Change(s, k - 1, none, added)
    BY <1>6 DEF Returned
  <2> HIDE DEF added, none, t
  <2>3. Sane(t) /\ t.held = s.held /\ t.logged = s.logged
    BY <1>1, <2>1, <2>2, ChangeSane
  <2>4. StepsOut(s, t, k)
    BY <1>6, <2>3 DEF StepsOut
  <2>. QED
    BY <2>4 DEF t
<1>7. CASE nest[k] \notin {"log", "transform", "proxyerror", "compress", "upstream"}
  <2>1. t = s
    BY <1>7 DEF Returned
  <2>. QED
    BY <1>7, <2>1 DEF StepsOut
<1>. QED
    BY <1>2, <1>3, <1>4, <1>5, <1>6, <1>7

(* What has been said of the response after the recovery in wrapper r.     *)
Failed(s, n, r) ==
    LET f == Holder(s, n)
    IN /\ Clean(s, f)
       /\ Stored(s, f).status = "500"
       /\ Told(s, f, Outside(r))

(* A panic goes past wrapper k, which does nothing.                        *)
LEMMA CleanDown ==
    ASSUME Nested, NEW s, NEW k \in Places, Clean(s, Holder(s, k))
    PROVE  Clean(s, Holder(s, k - 1))
<1> DEFINE f == Holder(s, k)
           g == Holder(s, k - 1)
<1>1. /\ k \in Nat /\ k - 1 \in 0..Len(nest) /\ k \in 0..Len(nest)
      /\ Len(nest) \in Nat /\ Places = 1..Len(nest)
    BY PlaceFacts
<1>2. f \in 0..k /\ g \in 0..k - 1
    BY <1>1, HolderFacts
<1>3. g <= f
  <2>. SUFFICES ASSUME f < g PROVE FALSE
    BY <1>1, <1>2
  <2>1. g \in Places /\ g <= k
    BY <1>1, <1>2
  <2>2. Holds(s, g)
    BY <1>1, <1>2, <2>1, HolderFacts
  <2>. QED
    BY <1>1, <2>1, <2>2, HolderFacts
<1>4. Map(g) <= Map(f) /\ Map(g) \in Nat /\ Map(f) \in Nat
  <2>1. f \in 0..Len(nest) /\ g \in 0..Len(nest) /\ f \in Nat /\ g \in Nat
    BY <1>1, <1>2
  <2> HIDE DEF f, g
  <2>2. Map(g) \in 0..g /\ Map(f) \in 0..f
    BY <2>1, MapFacts
  <2>3. ASSUME Map(f) < Map(g) PROVE FALSE
    <3>1. Map(g) \in Places /\ Map(g) <= f
      BY <1>1, <1>3, <2>1, <2>2, <2>3
    <3>2. nest[Map(g)] = "proxyerror"
      BY <2>1, <2>2, <2>3, MapFacts
    <3>. QED
      BY <2>1, <2>3, <3>1, <3>2, MapFacts
  <2>. QED
    BY <2>1, <2>2, <2>3
<1> HIDE DEF f, g
<1>5. \A i \in Places : i < g => i < f
    BY <1>1, <1>2, <1>3
<1>6. \A m \in 0..Len(nest) : m < Map(g) => m < Map(f)
    BY <1>4
<1>7. g > 0 => f > 0
    BY <1>1, <1>2, <1>3
<1>8. Clean(s, f)
    BY DEF f
<1>9. Clean(s, g)
    BY <1>5, <1>6, <1>7, <1>8 DEF Clean
<1>. QED
    BY <1>9 DEF g

(* net/http ends a response that is empty so far.                          *)
LEMMA BeginSane ==
    ASSUME Nested, NEW s, Sane(s)
    PROVE  LET t == Begin(s, "ok")
           IN Sane(t) /\ t.held = s.held /\ t.logged = s.logged /\ t.wire.status # "none"
<1> DEFINE st == "ok"
           t == Begin(s, st)
<1>1. st \in Statuses \union {"500"} /\ st # "none" /\ s \in Writers
    BY DEF Statuses, Sane
<1> HIDE DEF st
<1>2. /\ t \in Writers /\ t.held = s.held /\ t.logged = s.logged
      /\ t.wire = [s.wire EXCEPT !.status = IF s.wire.status = "none" THEN st ELSE @]
    BY <1>1, BeginEffect
<1>3. s.wire \in Message
    BY <1>1, WritersFields
<1> HIDE DEF t
<1>4. t.wire.status # "none"
    BY <1>1, <1>2, <1>3 DEF Message
<1>5. Sane(t)
    BY <1>2, <1>4 DEF Sane
<1>. QED
    BY <1>2, <1>4, <1>5 DEF t, st

LEMMA BeginKeeps ==
    ASSUME Nested, NEW s, Sane(s), NEW c, NEW w, Fair(s, 0, c, w, FALSE)
    PROVE  Fair(Begin(s, "ok"), 0, c, w, FALSE)
<1> DEFINE st == "ok"
           t == Begin(s, st)
<1>1. st \in Statuses \union {"500"} /\ st = "ok" /\ s \in Writers
    BY DEF Statuses, Sane
<1>2. 0 \in 0..Len(nest)
    BY PlaceFacts
<1> HIDE DEF st
<1>3. /\ t \in Writers /\ t.hdr = s.hdr /\ t.held = s.held /\ t.open = s.open
      /\ t.wire = [s.wire EXCEPT !.status = IF s.wire.status = "none" THEN st ELSE @]
      /\ t.head = IF s.wire.status = "none" THEN s.hdr[0] ELSE s.head
    BY <1>1, BeginEffect
<1> HIDE DEF t
<1>4. Holder(s, 0) = 0 /\ Holder(t, 0) = 0 /\ Map(0) = 0
  <2>1. Holder(s, 0) \in 0..0 /\ Holder(t, 0) \in 0..0
    BY <1>2, HolderFacts
  <2>. QED
    BY <2>1, MapZero
<1>5. s.wire \in Message
    BY <1>1, WritersFields
<1>6. /\ Stored(s, 0) = s.wire /\ Stored(t, 0) = t.wire
      /\ t.wire.body = s.wire.body /\ t.wire.form = s.wire.form
      /\ Eff(t.wire.status) = Eff(s.wire.status)
      /\ s.wire.status = "bad" => t.wire.status = "bad"
    BY <1>1, <1>3, <1>5 DEF Stored, Message, Eff
<1>7. Heads(t, 0) = Heads(s, 0)
    BY <1>1, <1>3, <1>4, <1>5 DEF Heads, Message
<1>8. Clean(s, 0) /\ Told(s, 0, Truthful(c)) /\ Good(s, 0, 0, w, c, FALSE)
    BY <1>4 DEF Fair
<1>9. Clean(t, 0)
    BY <1>3, <1>8 DEF Clean
<1>10. Told(t, 0, Truthful(c))
    BY <1>3, <1>6, <1>8 DEF Told
<1>11. Honest(t, 0, w)
    BY <1>6, <1>7, <1>8 DEF Honest, Good
<1>12. Zipped(t, 0, 0) /\ Seen(t, 0) /\ (c > 0 => Ready(t, 0))
    BY <1>3, <1>6, <1>7, <1>8 DEF Good, Zipped, Seen, Ready
<1>13. Good(t, 0, 0, w, c, FALSE)
    BY <1>11, <1>12 DEF Good
<1>14. Fair(t, 0, c, w, FALSE)
    BY <1>4, <1>9, <1>10, <1>13 DEF Fair
<1>. QED
    BY <1>14 DEF t, st

-----------------------------------------------------------------------------
(* The inductive invariant.  In what order the modes follow each other:    *)
Phase ==
    /\ mode = "running" => inside = Len(nest) /\ panic = "none"
    /\ mode = "panicking" => panic # "none"
    /\ mode = "over" => inside = 0
    /\ mode = "over" /\ panic = "none" => io.wire.status # "none"

(* a logger logs, on its return, the status that it has kept;              *)
Logging ==
    \A k \in Places : io.logged[k] # "none" =>
       /\ k > inside /\ nest[k] = "log" /\ mode \in {"returning", "over"}
       /\ io.logged[k] = Eff(io.held[k].status)

(* without a panic, what the writer that holds the response has got is     *)
(* what the handler has written;                                           *)
Untroubled ==
    panic = "none" =>
       /\ Fair(io, inside, calls, written, mode = "running")
       /\ mode = "running" /\ calls = 0 => Fresh(io, written)

(* a panic that comes early finds the response not begun until a recovery, *)
(* and the error from then on.                                             *)
Unrecovered ==
    /\ mode \in {"panicking", "over"}
    /\ \A r \in Places : nest[r] = "recovery" => r <= inside
    /\ \A k \in Places : io.logged[k] = "none"
    /\ mode = "panicking" /\ (\E r \in Places : nest[r] = "recovery")
       => Unbegun(io) /\ Clean(io, Holder(io, inside))

Recovered(r) ==
    /\ mode \in {"returning", "over"}
    /\ nest[r] = "recovery" /\ inside < r
    /\ Failed(io, inside, r)
    /\ \A k \in Places : io.logged[k] # "none" => k < r

Troubled ==
    panic = "early" /\ ~FlushedBeforeRecovery =>
       Unrecovered \/ \E r \in Places : Recovered(r)

RInv == RespTypeOK /\ Phase /\ Logging /\ Untroubled /\ Troubled

(* The wrappers stay, so what is said of them by the next state is said of *)
(* them by this one.                                                       *)
LEMMA SameNest ==
    ASSUME nest' = nest
    PROVE  /\ Places' = Places
           /\ Writers' = Writers
           /\ \A s, k : Holder(s, k)' = Holder(s, k)
           /\ FlushedBeforeRecovery' <=> FlushedBeforeRecovery
           /\ \A s, w : Fresh(s, w)' <=> Fresh(s, w)
           /\ \A s : Unbegun(s)' <=> Unbegun(s)
           /\ \A s, f : Clean(s, f)' <=> Clean(s, f)
<1>1. Places' = Places
    BY DEF Places
<1>2. Writers' = Writers
    BY DEF Writers, Places
<1>3. \A s, k : Holder(s, k)' = Holder(s, k)
    BY DEF Holder
<1>4. FlushedBeforeRecovery' <=> FlushedBeforeRecovery
    BY DEF FlushedBeforeRecovery, Places
<1>5. \A s, w : Fresh(s, w)' <=> Fresh(s, w)
    BY DEF Fresh, Places
<1>6. \A s : Unbegun(s)' <=> Unbegun(s)
    BY DEF Unbegun, Places
<1>7. \A k : Map(k)' = Map(k)
    BY DEF Map
<1>8. \A s, f : Clean(s, f)' <=> Clean(s, f)
    BY <1>1, <1>7 DEF Clean
<1>. QED
    BY <1>1, <1>2, <1>3, <1>4, <1>5, <1>6, <1>8

LEMMA SameVerdict ==
    ASSUME nest' = nest
    PROVE  /\ \A s, n, c, w, running :
                 Fair(s, n, c, w, running)' <=> Fair(s, n, c, w, running)
           /\ \A s, n, r : Failed(s, n, r)' <=> Failed(s, n, r)
<1>1. Places' = Places /\ Loggers' = Loggers
    BY DEF Places, Loggers
<1>2. \A s, k : Holder(s, k)' = Holder(s, k)
    BY DEF Holder
<1>3. \A k : Map(k)' = Map(k)
    BY DEF Map
<1>4. \A s, f : Heads(s, f)' = Heads(s, f) /\ Stored(s, f)' = Stored(s, f)
    BY <1>3 DEF Heads, Stored
<1>5. \A s, f : Clean(s, f)' <=> Clean(s, f)
    BY <1>1, <1>3 DEF Clean
<1>6. \A c : Truthful(c)' = Truthful(c)
  <2>1. \A i : Buffered(i)' <=> Buffered(i)
    BY <1>1 DEF Buffered
  <2>. QED
    BY <1>1, <2>1 DEF Truthful
<1>7. \A r : Outside(r)' = Outside(r)
    BY <1>1 DEF Outside
<1>8. \A s, f, loggers : Told(s, f, loggers)' <=> Told(s, f, loggers)
    BY <1>4 DEF Told
<1>9. \A s, f, w : Honest(s, f, w)' <=> Honest(s, f, w)
    BY <1>4 DEF Honest
<1>10. \A s, n, f : Zipped(s, n, f)' <=> Zipped(s, n, f)
    BY <1>1, <1>4 DEF Zipped
<1>11. \A s, f : (Seen(s, f)' <=> Seen(s, f)) /\ (Ready(s, f)' <=> Ready(s, f))
    BY <1>1, <1>4 DEF Seen, Ready
<1>12. \A s, n, f, w, c, running :
          Good(s, n, f, w, c, running)' <=> Good(s, n, f, w, c, running)
    BY <1>4, <1>9, <1>10, <1>11 DEF Good
<1>13. \A s, n, c, w, running :
          Fair(s, n, c, w, running)' <=> Fair(s, n, c, w, running)
    BY <1>2, <1>5, <1>6, <1>8, <1>12 DEF Fair
<1>14. \A s, n, r : Failed(s, n, r)' <=> Failed(s, n, r)
    BY <1>2, <1>4, <1>5, <1>7, <1>8 DEF Failed
<1>. QED
    BY <1>13, <1>14

-----------------------------------------------------------------------------
LEMMA TypesSane ==
    ASSUME RespTypeOK
    PROVE  /\ Nested /\ Sane(io) /\ Len(nest) \in Nat /\ Len(nest) \in 0..Len(nest)
           /\ inside \in 0..Len(nest) /\ inside \in Nat
           /\ written \in Nat /\ calls \in 0..2
           /\ inside > 0 => inside \in Places
<1>1. Nested /\ Sane(io) /\ inside \in 0..Len(nest) /\ written \in 0..pieces
      /\ calls \in 0..2 /\ pieces \in Nat
    BY DEF RespTypeOK, Nested, Sane
<1>. QED
    BY <1>1, PlaceFacts

(* Every step leaves io what writers can keep, and only a return logs.     *)
LEMMA NextSane ==
    ASSUME RespTypeOK, RespNext
    PROVE  /\ nest' = nest /\ Sane(io')
           /\ mode \in {"running", "panicking"} => io'.logged = io.logged
<1> DEFINE Goal == /\ nest' = nest /\ Sane(io')
                   /\ mode \in {"running", "panicking"} => io'.logged = io.logged
<1>1. /\ Nested /\ Sane(io) /\ Len(nest) \in 0..Len(nest)
      /\ inside > 0 => inside \in Places
    BY TypesSane
<1>2. ASSUME NEW status \in Statuses, WriteHeader(status) PROVE Goal
    BY <1>1, <1>2, PutStatusSane DEF WriteHeader, Above
<1>3. CASE Write
  <2> DEFINE b == <<"piece">>
             none == {}
  <2>1. b \in Seq({"piece", "message"}) /\ \A x \in none : x \in {"gzip", "edited"}
    OBVIOUS
  <2>2. nest' = nest /\ io' = PutBody(io, Len(nest), b, none)
    BY <1>3 DEF Write
  <2> HIDE DEF b, none
  <2>. QED
    BY <1>1, <2>1, <2>2, PutBodySane DEF Above
<1>4. CASE Finish \/ Panic
    BY <1>1, <1>4 DEF Finish, Panic
<1>5. CASE Return
    BY <1>1, <1>5, ReturnedSane DEF Return, StepsOut
<1>6. CASE Unwind
    BY <1>1, <1>6, ReleasedSane DEF Unwind, Flush, Above
<1>7. CASE Recover
  <2> DEFINE b == <<"message">>
             none == {}
             st == "500"
             n == inside - 1
             v == PutStatus(io, n, st)
  <2>1. b \in Seq({"piece", "message"}) /\ (\A x \in none : x \in {"gzip", "edited"})
        /\ st \in Statuses \union {"500"}
    OBVIOUS
  <2>2. nest' = nest /\ io' = PutBody(v, n, b, none) /\ n \in 0..Len(nest)
    BY <1>1, <1>7, PlaceFacts DEF Recover
  <2> HIDE DEF b, none, st, n
  <2>3. Sane(v) /\ v.logged = io.logged
    BY <1>1, <2>1, <2>2, PutStatusSane DEF Above
  <2> HIDE DEF v
  <2>. QED
    BY <1>1, <2>1, <2>2, <2>3, PutBodySane DEF Above
<1>8. CASE Over
    BY <1>1, <1>8, BeginSane DEF Over
<1>. QED
    BY <1>2, <1>3, <1>4, <1>5, <1>6, <1>7, <1>8 DEF RespNext

LEMMA NextTypes ==
    ASSUME RespTypeOK, [RespNext]_respVars
    PROVE  RespTypeOK'
<1>1. CASE RespNext
  <2>1. nest' = nest /\ Sane(io') /\ Writers' = Writers
    BY <1>1, NextSane, SameNest
  <2> DEFINE Rest == /\ matches' = matches /\ pieces' = pieces
                     /\ written' \in 0..pieces
                     /\ calls' \in 0..2
                     /\ mode' \in {"running", "panicking", "returning", "over"}
                     /\ inside' \in 0..Len(nest)
                     /\ panic' \in {"none", "early", "late"}
  <2>2. Rest
    <3>1. /\ Len(nest) \in Nat /\ inside \in 0..Len(nest) /\ inside \in Nat
          /\ written \in 0..pieces /\ pieces \in Nat /\ calls \in 0..2
          /\ mode \in {"running", "panicking", "returning", "over"}
          /\ panic \in {"none", "early", "late"}
      BY TypesSane DEF RespTypeOK
    <3>2. ASSUME NEW status \in Statuses, WriteHeader(status) PROVE Rest
      BY <3>1, <3>2 DEF WriteHeader
    <3>3. CASE Write
      BY <3>1, <3>3 DEF Write
    <3>4. CASE Finish \/ Panic
      BY <3>1, <3>4 DEF Finish, Panic
    <3>5. CASE Return \/ Unwind \/ Recover
      BY <3>1, <3>5 DEF Return, Unwind, Recover
    <3>6. CASE Over
      BY <3>1, <3>6 DEF Over
    <3>. QED
      BY <1>1, <3>2, <3>3, <3>4, <3>5, <3>6 DEF RespNext
  <2>. QED
    BY <2>1, <2>2 DEF RespTypeOK, Sane
<1>2. CASE UNCHANGED respVars
    BY <1>2, SameNest DEF respVars, RespTypeOK
<1>. QED
    BY <1>1, <1>2

LEMMA NextPhase ==
    ASSUME RespTypeOK, Phase, RespNext
    PROVE  Phase'
<1>1. Nested /\ Sane(io) /\ inside \in 0..Len(nest) /\ nest' = nest
    BY TypesSane, NextSane
<1>2. ASSUME NEW status \in Statuses, WriteHeader(status) PROVE Phase'
    BY <1>2 DEF WriteHeader, Phase
<1>3. CASE Write
    BY <1>3 DEF Write, Phase
<1>4. CASE Finish \/ Panic
    BY <1>4 DEF Finish, Panic, Phase
<1>5. CASE Return \/ Unwind \/ Recover
    BY <1>5 DEF Return, Unwind, Recover, Phase
<1>6. CASE Over
  <2>1. Begin(io, "ok").wire.status # "none"
    BY <1>1, BeginSane
  <2>. QED
    BY <1>6, <2>1 DEF Over, Phase
<1>. QED
    BY <1>2, <1>3, <1>4, <1>5, <1>6 DEF RespNext


LEMMA NextLogging ==
    ASSUME RespTypeOK, Phase, Logging, RespNext
    PROVE  Logging'
<1>1. /\ Nested /\ Sane(io) /\ Len(nest) \in Nat /\ inside \in 0..Len(nest) /\ inside \in Nat
      /\ inside > 0 => inside \in Places
    BY TypesSane
<1>2. nest' = nest /\ Places' = Places /\ \A k \in Places : k \in Nat
    BY <1>1, NextSane, SameNest, PlaceFacts
<1>3. CASE mode \in {"running", "panicking"}
  <2>1. \A k \in Places : io.logged[k] = "none"
    BY <1>3 DEF Logging
  <2>2. io'.logged = io.logged
    BY <1>3, NextSane
  <2>. QED
    BY <1>2, <2>1, <2>2 DEF Logging
<1>4. CASE Return
  <2>1. inside \in Places /\ io' = Returned(io, inside) /\ inside' = inside - 1 /\ mode' = mode
        /\ mode = "returning"
    BY <1>1, <1>4 DEF Return
  <2>2. StepsOut(io, io', inside)
    BY <1>1, <2>1, ReturnedSane
  <2>3. ASSUME NEW k \in Places, io'.logged[k] # "none"
        PROVE  /\ k > inside' /\ nest[k] = "log" /\ mode' \in {"returning", "over"}
               /\ io'.logged[k] = Eff(io'.held[k].status)
    <3>1. CASE k = inside
      <4>1. nest[k] = "log"
        <5>. SUFFICES ASSUME nest[k] # "log" PROVE FALSE
          OBVIOUS
        <5>1. io.logged[k] # "none"
          BY <2>2, <2>3, <3>1 DEF StepsOut
        <5>. QED
          BY <1>1, <3>1, <5>1 DEF Logging
      <4>2. io'.logged[k] = Eff(io.held[k].status) /\ io'.held[k] = io.held[k]
        BY <1>1, <2>2, <3>1, <4>1 DEF StepsOut
      <4>3. k > inside'
        BY <1>1, <2>1, <3>1
      <4>4. io'.logged[k] = Eff(io'.held[k].status)
        BY <4>2
      <4>. QED
        BY <2>1, <4>1, <4>3, <4>4
    <3>2. CASE k # inside
      <4>1. io.logged[k] # "none" /\ io'.logged[k] = io.logged[k]
        BY <2>2, <2>3, <3>2 DEF StepsOut
      <4>2. k > inside /\ nest[k] = "log" /\ io.logged[k] = Eff(io.held[k].status)
        BY <4>1 DEF Logging
      <4>3. io'.held[k] = io.held[k]
        BY <1>1, <1>2, <2>2, <4>2 DEF StepsOut
      <4>4. k > inside'
        BY <1>1, <1>2, <2>1, <4>2
      <4>5. io'.logged[k] = Eff(io'.held[k].status)
        BY <4>1, <4>2, <4>3
      <4>. QED
        BY <2>1, <4>2, <4>4, <4>5
    <3>. QED
      BY <3>1, <3>2
  <2>. QED
    BY <1>2, <2>3 DEF Logging
<1>5. CASE Over /\ mode = "returning"
  <2>1. io' = Begin(io, "ok") /\ inside' = inside /\ mode' = "over"
    BY <1>5 DEF Over
  <2>2. io'.held = io.held /\ io'.logged = io.logged
    BY <1>1, <2>1, BeginSane
  <2>. QED
    BY <1>2, <2>1, <2>2 DEF Logging
<1>. QED
    BY <1>3, <1>4, <1>5 DEF RespNext, WriteHeader, Write, Finish, Panic, Unwind, Recover, Over

(* While nothing goes wrong, the front has got what was written.           *)
LEMMA WriteHeaderFair ==
    ASSUME RespTypeOK, Phase, Untroubled, NEW status \in Statuses, WriteHeader(status)
    PROVE  Fair(io', inside', calls', written', TRUE) /\ calls' # 0
<1> DEFINE n == Len(nest)
           f == Holder(io, n)
<1>1. /\ Nested /\ Sane(io) /\ inside = n /\ calls \in 0..1 /\ mode = "running"
      /\ panic = "none"
      /\ io' = PutStatus(io, n, status) /\ inside' = n /\ calls' = calls + 1
      /\ written' = written
    BY TypesSane DEF Phase, WriteHeader
<1>2. /\ Clean(io, f) /\ Told(io, f, Truthful(calls)) /\ Good(io, n, f, written, calls, TRUE)
      /\ calls = 0 => Fresh(io, written)
    BY <1>1 DEF Untroubled, Fair
<1> HIDE DEF n, f
<1>3. n = Len(nest) /\ f = Holder(io, n)
    BY DEF n, f
<1>4. Fair(io', n, calls + 1, written, TRUE)
  <2> DEFINE c == calls
             d == calls + 1
  <2>1. Nested /\ Sane(io) /\ c \in 0..1 /\ d = c + 1 /\ status \in Statuses
    BY <1>1
  <2>2. Clean(io, f) /\ Told(io, f, Truthful(c)) /\ Good(io, n, f, written, c, TRUE)
    BY <1>2
  <2>3. c = 0 => Fresh(io, written)
    BY <1>2
  <2> HIDE DEF c, d
  <2>4. Fair(PutStatus(io, n, status), n, d, written, TRUE)
    BY <2>1, <2>2, <2>3, <1>3, WriteHeaderKeeps
  <2>. QED
    BY <1>1, <2>4 DEF d
<1>5. calls + 1 # 0
    BY <1>1
<1>. QED
    BY <1>1, <1>4, <1>5

LEMMA WriteFair ==
    ASSUME RespTypeOK, Phase, Untroubled, Write
    PROVE  Fair(io', inside', calls', written', TRUE) /\ calls' # 0
<1> DEFINE n == Len(nest)
           f == Holder(io, n)
           b == <<"piece">>
           none == {}
           t == Deliver(io, n, b, none)
           d == IF calls = 0 THEN 1 ELSE calls
<1>1. /\ Nested /\ Sane(io) /\ inside = n /\ calls \in 0..2 /\ mode = "running"
      /\ panic = "none" /\ written \in Nat /\ n \in 0..Len(nest)
      /\ io' = PutBody(io, n, b, none) /\ inside' = n /\ calls' = d
      /\ written' = written + 1
    BY TypesSane DEF Phase, Write
<1>2. /\ Clean(io, f) /\ Told(io, f, Truthful(calls)) /\ Good(io, n, f, written, calls, TRUE)
      /\ calls = 0 => Fresh(io, written)
    BY <1>1 DEF Untroubled, Fair
<1>3. n = Len(nest) /\ f = Holder(io, n)
    OBVIOUS
<1>4. b \in Seq({"piece", "message"}) /\ (\A x \in none : x \in {"gzip", "edited"})
    OBVIOUS
<1> HIDE DEF n, f
<1>5. /\ Sane(t)
      /\ Holder(t, n) = f
      /\ Clean(t, f)
      /\ Told(t, f, Truthful(d))
      /\ Good(t, n, f, written + 1, d, TRUE)
    BY <1>1, <1>2, <1>3, WriteKeeps
<1> HIDE DEF b, none
<1>6. Filled(t, io', f)
    BY <1>1, <1>3, <1>4, PutBodyIs DEF Sane
<1> HIDE DEF t
<1>7. Clean(io', Holder(io', n))
    BY <1>1, <1>5, <1>6, FilledClean
<1>8. Told(io', Holder(io', n), Truthful(d))
  <2> DEFINE L == Truthful(d)
  <2>1. \A i \in L : i \in Places /\ nest[i] = "log"
    BY DEF Truthful, Loggers
  <2>2. Told(t, f, L)
    BY <1>5
  <2> HIDE DEF L
  <2>3. Told(io', Holder(io', n), L)
    BY <1>1, <1>5, <1>6, <2>1, <2>2, FilledTold
  <2>. QED
    BY <2>3 DEF L
<1>9. Good(io', n, Holder(io', n), written + 1, d, TRUE)
    BY <1>1, <1>5, <1>6, FilledGood
<1>10. Fair(io', n, d, written + 1, TRUE)
    BY <1>7, <1>8, <1>9 DEF Fair
<1>11. d # 0
    BY <1>1
<1> HIDE DEF d
<1>. QED
    BY <1>1, <1>10, <1>11

LEMMA NextUntroubled ==
    ASSUME RespTypeOK, Phase, Untroubled, RespNext
    PROVE  Untroubled'
<1> SUFFICES ASSUME panic' = "none"
             PROVE  /\ Fair(io', inside', calls', written', mode' = "running")
                    /\ mode' = "running" /\ calls' = 0 => Fresh(io', written')
  <2>1. nest' = nest
    BY NextSane
  <2>. QED
    BY <2>1, SameNest, SameVerdict DEF Untroubled
<1>1. /\ Nested /\ Sane(io) /\ inside \in 0..Len(nest)
      /\ inside > 0 => inside \in Places
    BY TypesSane
<1>2. ASSUME NEW status \in Statuses, WriteHeader(status)
      PROVE  Fair(io', inside', calls', written', mode' = "running") /\ calls' # 0
  <2>1. mode' = "running"
    BY <1>2 DEF WriteHeader
  <2>. QED
    BY <1>2, <2>1, WriteHeaderFair
<1>3. CASE Write
  <2>1. mode' = "running"
    BY <1>3 DEF Write
  <2>. QED
    BY <1>3, <2>1, WriteFair
<1>4. CASE Finish
  <2>1. /\ mode = "running" /\ mode' = "returning" /\ panic = "none"
        /\ io' = io /\ inside' = inside /\ calls' = calls /\ written' = written
    BY <1>4 DEF Finish, Phase
  <2>2. Fair(io, inside, calls, written, TRUE)
    BY <2>1 DEF Untroubled
  <2>3. Fair(io, inside, calls, written, FALSE)
    BY <2>2 DEF Fair, Good
  <2>. QED
    BY <2>1, <2>3
<1>5. CASE Return
  <2>1. /\ mode = "returning" /\ mode' = "returning" /\ panic = "none" /\ inside \in Places
        /\ io' = Returned(io, inside) /\ inside' = inside - 1 /\ calls' = calls
        /\ written' = written
    BY <1>1, <1>5 DEF Return
  <2>2. Fair(io, inside, calls, written, FALSE)
    BY <2>1 DEF Untroubled
  <2>3. Onward(io, inside, io')
    BY <1>1, <2>1, <2>2, ReturnedOnward DEF Fair
  <2>4. Truthful(calls) \in SUBSET Loggers
    BY DEF Truthful
  <2>5. Fair(io', inside - 1, calls, written, FALSE)
    BY <2>2, <2>3, <2>4 DEF Fair, Onward
  <2>. QED
    BY <2>1, <2>5
<1>6. CASE Panic \/ Unwind \/ Recover
    BY <1>6 DEF Panic, Unwind, Recover, Phase
<1>7. CASE Over
  <2>1. /\ mode = "returning" /\ mode' = "over" /\ panic = "none" /\ inside = 0
        /\ io' = Begin(io, "ok") /\ inside' = inside /\ calls' = calls
        /\ written' = written
    BY <1>7 DEF Over, Phase
  <2>2. Fair(io, 0, calls, written, FALSE)
    BY <2>1 DEF Untroubled
  <2>3. Fair(io', 0, calls, written, FALSE)
    BY <1>1, <2>1, <2>2, BeginKeeps
  <2>. QED
    BY <2>1, <2>3
<1>. QED
    BY <1>2, <1>3, <1>4, <1>5, <1>6, <1>7 DEF RespNext

(* After a panic: it finds the response not begun, and leaves it so until  *)
(* a recovery.                                                             *)
LEMMA PanicTroubled ==
    ASSUME RespTypeOK, Phase, Logging, Untroubled, Panic, panic' = "early"
    PROVE  Unrecovered'
<1>1. /\ mode = "running" /\ mode' = "panicking" /\ panic = "none" /\ inside = Len(nest)
      /\ nest' = nest /\ io' = io /\ inside' = inside /\ ~Begun
    BY DEF Panic, Phase
<1>2. Places' = Places /\ Places = 1..Len(nest) /\ Len(nest) \in Nat
    BY <1>1, SameNest, TypesSane, PlaceFacts
<1>3. Clean(io, Holder(io, inside))
    BY <1>1 DEF Untroubled, Fair
<1>4. Unbegun(io)
    BY <1>1 DEF Begun, Unbegun
<1>5. \A k \in Places : io.logged[k] = "none"
    BY <1>1 DEF Logging
<1>6. \A r \in Places : r <= inside
    BY <1>1, <1>2
<1>7. Clean(io, Holder(io, inside))'
    BY <1>1, <1>3, SameNest
<1>8. Unbegun(io)'
    BY <1>1, <1>4, SameNest
<1>. QED
    BY <1>1, <1>2, <1>5, <1>6, <1>7, <1>8 DEF Unrecovered

LEMMA UnwindTroubled ==
    ASSUME RespTypeOK, Unrecovered, ~FlushedBeforeRecovery, Unwind
    PROVE  Unrecovered'
<1>1. /\ Nested /\ Sane(io) /\ inside \in Places /\ inside \in Nat
    BY TypesSane DEF Unwind
<1>2. /\ mode = "panicking" /\ mode' = mode /\ nest' = nest /\ inside' = inside - 1
      /\ io' = IF nest[inside] = "compress" THEN Flush(io, inside) ELSE io
      /\ nest[inside] # "recovery"
    BY DEF Unwind
<1>3. Places' = Places /\ (\A k \in Places : k \in Nat)
    BY <1>1, <1>2, SameNest, PlaceFacts
<1>4. io'.logged = io.logged
    BY <1>2, NextSane DEF RespNext
<1>5. \A r \in Places : nest[r] = "recovery" => r <= inside'
  <2>1. TAKE r \in Places
  <2>2. HAVE nest[r] = "recovery"
  <2>3. r <= inside /\ r # inside
    BY <1>2, <2>2 DEF Unrecovered
  <2>. QED
    BY <1>1, <1>2, <1>3, <2>3
<1>6. ASSUME NEW r \in Places, nest[r] = "recovery"
      PROVE  Unbegun(io)' /\ Clean(io, Holder(io, inside))'
  <2>1. r < inside
    BY <1>1, <1>2, <1>3, <1>6 DEF Unrecovered
  <2>2. nest[inside] # "compress"
    BY <1>1, <1>6, <2>1 DEF FlushedBeforeRecovery
  <2>3. io' = io
    BY <1>2, <2>2
  <2>4. Unbegun(io) /\ Clean(io, Holder(io, inside))
    BY <1>2, <1>6 DEF Unrecovered
  <2>5. Clean(io, Holder(io, inside - 1))
    BY <1>1, <2>4, CleanDown
  <2>. QED
    BY <1>2, <2>3, <2>4, <2>5, SameNest
<1>. QED
    BY <1>2, <1>3, <1>4, <1>5, <1>6 DEF Unrecovered

LEMMA RecoverTroubled ==
    ASSUME RespTypeOK, Unrecovered, Recover, NEW r, r = inside
    PROVE  Recovered(r)'
<1>1. /\ Nested /\ Sane(io) /\ r \in Places /\ r \in Nat
    BY TypesSane DEF Recover
<1>2. /\ mode = "panicking" /\ mode' = "returning" /\ nest' = nest /\ inside' = r - 1
      /\ io' = Resent(io, r, "500", <<"message">>, {})
      /\ nest[r] = "recovery"
    BY DEF Recover, Resent
<1>3. Unbegun(io) /\ Clean(io, Holder(io, r))
    BY <1>1, <1>2 DEF Unrecovered
<1>4. Failed(io', r - 1, r)
    BY <1>1, <1>2, <1>3, RecoverKeeps DEF Failed
<1>5. \A k \in Places : io'.logged[k] = "none"
    BY <1>2, NextSane DEF RespNext, Unrecovered
<1>6. Failed(io, inside, r)'
    BY <1>2, <1>4, SameVerdict
<1>7. inside' < r /\ Places' = Places
    BY <1>1, <1>2, SameNest
<1>. QED
    BY <1>2, <1>5, <1>6, <1>7 DEF Recovered

LEMMA ReturnTroubled ==
    ASSUME RespTypeOK, NEW r \in Places, Recovered(r), Return
    PROVE  Recovered(r)'
<1>1. /\ Nested /\ Sane(io) /\ inside \in Places /\ inside \in Nat
    BY TypesSane DEF Return
<1>2. /\ mode = "returning" /\ mode' = mode /\ nest' = nest /\ inside' = inside - 1
      /\ io' = Returned(io, inside)
    BY DEF Return
<1>3. /\ r \in Nat /\ inside < r /\ nest[r] = "recovery" /\ Failed(io, inside, r)
      /\ \A k \in Places : io.logged[k] # "none" => k < r
    BY <1>1, PlaceFacts DEF Recovered
<1>4. Onward(io, inside, io') /\ StepsOut(io, io', inside)
    BY <1>1, <1>2, <1>3, ReturnedOnward, ReturnedSane DEF Failed
<1>5. Failed(io', inside - 1, r)
  <2> DEFINE L == Outside(r)
             g == Holder(io', inside - 1)
  <2>1. L \in SUBSET Loggers
    BY DEF Outside
  <2>2. Stored(io, Holder(io, inside)).status = "500" /\ Told(io, Holder(io, inside), L)
    BY <1>3 DEF Failed
  <2> HIDE DEF L
  <2>3. Clean(io', g) /\ Stored(io', g).status = "500"
    BY <1>4, <2>2 DEF Onward
  <2>4. Told(io', g, L)
    BY <1>4, <2>1, <2>2 DEF Onward
  <2>. QED
    BY <2>3, <2>4 DEF Failed, L
<1>6. \A k \in Places : io'.logged[k] # "none" => k < r
    BY <1>3, <1>4 DEF StepsOut
<1>7. Failed(io, inside, r)'
    BY <1>2, <1>5, SameVerdict
<1>8. inside' < r /\ Places' = Places
    BY <1>1, <1>2, <1>3, SameNest
<1>. QED
    BY <1>2, <1>3, <1>6, <1>7, <1>8 DEF Recovered

LEMMA OverTroubled ==
    ASSUME RespTypeOK, NEW r \in Places, Recovered(r), Over
    PROVE  Recovered(r)'
<1>1. /\ Nested /\ mode \in {"returning", "over"} /\ inside = 0 /\ Failed(io, inside, r)
      /\ inside < r /\ nest[r] = "recovery"
      /\ \A k \in Places : io.logged[k] # "none" => k < r
    BY TypesSane DEF Recovered, Over
<1>2. nest' = nest /\ inside' = inside /\ mode' = "over" /\ io' = Begin(io, "ok")
    BY <1>1 DEF Over
<1>3. Holder(io, 0) = 0
  <2>1. Holder(io, 0) \in 0..0
    BY <1>1, HolderFacts, PlaceFacts
  <2>. QED
    BY <2>1
<1>4. io.wire.status = "500"
    BY <1>1, <1>3 DEF Failed, Stored
<1>5. io' = io
    BY <1>2, <1>4 DEF Begin
<1>6. Failed(io, inside, r)'
    BY <1>1, <1>2, <1>5, SameVerdict
<1>. QED
    BY <1>1, <1>2, <1>5, <1>6, SameNest DEF Recovered

LEMMA NextTroubled ==
    ASSUME RespTypeOK, Phase, Logging, Untroubled, Troubled, RespNext
    PROVE  Troubled'
<1>1. nest' = nest /\ Places' = Places
    BY NextSane, SameNest
<1> SUFFICES ASSUME panic' = "early", ~FlushedBeforeRecovery
             PROVE  Unrecovered' \/ \E r \in Places : Recovered(r)'
    BY <1>1, SameNest DEF Troubled
<1>2. CASE Panic
    BY <1>2, PanicTroubled
<1>3. CASE ~Panic
  <2>1. panic = "early"
    BY <1>3 DEF RespNext, WriteHeader, Write, Finish, Return, Unwind, Recover, Over
  <2>2. mode \in {"panicking", "returning"}
    BY <1>3, <2>1 DEF Phase, RespNext, WriteHeader, Write, Finish, Return, Unwind, Recover, Over
  <2>3. Return \/ Unwind \/ Recover \/ Over
    BY <1>3, <2>2 DEF RespNext, WriteHeader, Write, Finish
  <2>4. CASE Unrecovered
    <3>1. mode = "panicking" /\ ~Return
      BY <2>2, <2>4 DEF Unrecovered, Return
    <3>2. CASE Unwind
      BY <2>4, <3>2, UnwindTroubled
    <3>3. CASE Recover
      <4>1. inside \in Places
        BY <3>3, TypesSane DEF Recover
      <4>2. PICK r \in Places : r = inside
        BY <4>1
      <4>. QED
        BY <2>4, <3>3, <4>2, RecoverTroubled
    <3>4. CASE Over
      <4>1. io' = io /\ inside' = inside /\ mode' = "over"
        BY <3>1, <3>4 DEF Over
      <4>. QED
        BY <1>1, <2>4, <4>1 DEF Unrecovered
    <3>. QED
      BY <2>3, <3>1, <3>2, <3>3, <3>4
  <2>5. ASSUME NEW r \in Places, Recovered(r) PROVE Recovered(r)'
    <3>1. Return \/ Over
      BY <2>2, <2>3, <2>5 DEF Recovered, Unwind, Recover
    <3>. QED
      BY <2>5, <3>1, ReturnTroubled, OverTroubled
  <2>. QED
    BY <2>1, <2>4, <2>5 DEF Troubled
<1>. QED
    BY <1>2, <1>3

-----------------------------------------------------------------------------
(* A handler that is about to be called, under any wrappers.               *)
LEMMA InitFacts ==
    ASSUME RespInit
    PROVE  RespTypeOK
<1>1. nest \in Seq(Wrappers) /\ Nested
    BY WrapperAssumption DEF RespInit, Called, Nests, Nested
<1>2. /\ matches \in BOOLEAN /\ pieces \in Nat /\ written \in 0..pieces /\ calls \in 0..2
      /\ mode \in {"running", "panicking", "returning", "over"}
      /\ inside \in 0..Len(nest)
      /\ panic \in {"none", "early", "late"}
  <2>1. matches \in BOOLEAN
    BY DEF RespInit, Called
  <2>2. /\ pieces \in {1, MinPieces + 1} /\ written = 0 /\ calls = 0 /\ mode = "running"
        /\ inside = Len(nest) /\ panic = "none"
    BY DEF RespInit, Called
  <2>3. MinPieces \in Nat /\ Len(nest) \in Nat
    BY <1>1, WrapperAssumption, PlaceFacts
  <2>4. pieces \in Nat
    BY <2>2, <2>3
  <2>. QED
    BY <2>1, <2>2, <2>3, <2>4
<1>3. None \in Message
    BY DEF None, Message
<1>4. PICK set \in {{}, {"length", "unwanted"}} :
         io = [hdr    |-> [k \in 0..Len(nest) |-> IF k = Map(Len(nest)) THEN set ELSE {}],
               held   |-> [k \in Places |-> None],
               open   |-> [k \in Places |-> FALSE],
               logged |-> [k \in Places |-> "none"],
               wire   |-> None,
               head   |-> {}]
    BY DEF RespInit, Called
<1>5. \A k \in 0..Len(nest) :
         (IF k = Map(Len(nest)) THEN set ELSE {}) \in SUBSET Names
    BY DEF Names
<1>6. io \in Writers
    BY <1>3, <1>4, <1>5 DEF Writers
<1>7. io.wire = None /\ io.head = {}
    BY <1>4
<1>. QED
    BY <1>1, <1>2, <1>6, <1>7 DEF RespTypeOK

LEMMA InitFair ==
    ASSUME RespInit
    PROVE  Fair(io, Len(nest), 0, 0, TRUE) /\ Fresh(io, 0)
<1> DEFINE n == Len(nest)
           f == Holder(io, n)
<1>1. Nested /\ Sane(io) /\ n \in 0..Len(nest) /\ n \in Nat
    BY InitFacts, TypesSane
<1>2. PICK set \in {{}, {"length", "unwanted"}} :
         io = [hdr    |-> [k \in 0..Len(nest) |-> IF k = Map(Len(nest)) THEN set ELSE {}],
               held   |-> [k \in Places |-> None],
               open   |-> [k \in Places |-> FALSE],
               logged |-> [k \in Places |-> "none"],
               wire   |-> None,
               head   |-> {}]
    BY DEF RespInit, Called
<1>3. /\ \A i \in Places : io.held[i] = None /\ ~io.open[i]
      /\ io.wire = None /\ io.head = {}
      /\ \A m \in 0..Len(nest) : io.hdr[m] = IF m = Map(n) THEN set ELSE {}
    BY <1>2
<1>4. /\ f \in 0..n /\ Map(n) = Map(f) /\ f \in Nat /\ (f > 0 => f \in Places)
      /\ \A i \in Places : f < i /\ i <= n => ~Holds(io, i)
    BY <1>1, HolderFacts, MapOfHolder, PlaceFacts
<1>5. Map(n) \in 0..Len(nest) /\ Map(n) \in Nat
    BY <1>1, MapFacts
<1> HIDE DEF f
<1>6. Stored(io, f) = None
    BY <1>3, <1>4 DEF Stored
<1>7. Heads(io, f) = set
    BY <1>3, <1>4, <1>5 DEF Heads, None
<1>8. Clean(io, f)
    BY <1>3, <1>4, <1>5 DEF Clean
<1>9. Told(io, f, Truthful(0))
    BY <1>3, <1>6 DEF Told, Truthful, Loggers
<1>10. Honest(io, f, 0)
    BY <1>6, <1>7 DEF Honest, None
<1>11. Zipped(io, n, f) /\ Seen(io, f)
    BY <1>3, <1>4 DEF Zipped, Seen, Holds
<1>12. "error" \notin Heads(io, f)
    BY <1>7
<1>13. Good(io, n, f, 0, 0, TRUE)
    BY <1>10, <1>11, <1>12 DEF Good
<1>14. Fair(io, n, 0, 0, TRUE)
    BY <1>8, <1>9, <1>13 DEF Fair, f
<1>15. Fresh(io, 0)
    BY <1>3 DEF Fresh
<1>. QED
    BY <1>14, <1>15

LEMMA InitRInv ==
    ASSUME RespInit
    PROVE  RInv
<1>1. /\ mode = "running" /\ inside = Len(nest) /\ panic = "none" /\ calls = 0
      /\ written = 0 /\ \A k \in Places : io.logged[k] = "none"
    BY DEF RespInit, Called
<1>2. RespTypeOK /\ Fair(io, Len(nest), 0, 0, TRUE) /\ Fresh(io, 0)
    BY InitFacts, InitFair
<1>3. Untroubled
    BY <1>1, <1>2 DEF Untroubled
<1>4. Phase /\ Logging /\ Troubled
    BY <1>1 DEF Phase, Logging, Troubled
<1>. QED
    BY <1>2, <1>3, <1>4 DEF RInv

LEMMA NextRInv ==
    ASSUME RInv, [RespNext]_respVars
    PROVE  RInv'
<1>1. CASE RespNext
  <2>1. RespTypeOK /\ Phase /\ Logging /\ Untroubled /\ Troubled
    BY DEF RInv
  <2>2. RespTypeOK' /\ Phase' /\ Logging' /\ Untroubled' /\ Troubled'
    BY <1>1, <2>1, NextTypes, NextPhase, NextLogging, NextUntroubled, NextTroubled
  <2>. QED
    BY <2>2 DEF RInv
<1>2. CASE UNCHANGED respVars
  <2>1. /\ nest' = nest /\ io' = io /\ inside' = inside /\ mode' = mode /\ panic' = panic
        /\ calls' = calls /\ written' = written
    BY <1>2 DEF respVars
  <2>2. RespTypeOK'
    BY <1>2, NextTypes DEF RInv
  <2>3. Phase' /\ Logging' /\ Untroubled'
    BY <2>1, SameNest, SameVerdict DEF RInv, Phase, Logging, Untroubled
  <2>4. Unrecovered' <=> Unrecovered
    BY <2>1, SameNest DEF Unrecovered
  <2>5. \A r : Recovered(r)' <=> Recovered(r)
    BY <2>1, SameNest, SameVerdict DEF Recovered
  <2>6. Troubled'
    BY <2>1, <2>4, <2>5, SameNest DEF RInv, Troubled
  <2>. QED
    BY <2>2, <2>3, <2>6 DEF RInv
<1>. QED
    BY <1>1, <1>2

(* When it is over, the front is net/http.                                 *)
LEMMA OverFacts ==
    ASSUME RInv, mode = "over"
    PROVE  /\ Nested /\ Holder(io, 0) = 0 /\ inside = 0 /\ Stored(io, 0) = io.wire
           /\ \A k \in Places : k \in Nat /\ k > 0
<1>1. Nested /\ inside = 0 /\ 0 \in 0..Len(nest)
    BY TypesSane, PlaceFacts DEF RInv, Phase
<1>2. Holder(io, 0) \in 0..0
    BY <1>1, HolderFacts
<1>. QED
    BY <1>1, <1>2, PlaceFacts DEF Stored

LEMMA RInvTrueStatus ==
    ASSUME RInv
    PROVE  TrueStatus
<1> SUFFICES ASSUME mode = "over"
             PROVE  /\ \A k \in Places :
                         io.logged[k] \notin {"none", io.wire.status} =>
                            \/ calls > 1 /\ ~Buffered(k)
                            \/ panic = "late"
                            \/ panic = "early" /\ FlushedBeforeRecovery
                    /\ panic = "early" /\ (\E k \in Places : nest[k] = "recovery")
                       => io.wire.status = "500" \/ FlushedBeforeRecovery
    BY DEF TrueStatus
<1>1. /\ Nested /\ Holder(io, 0) = 0 /\ inside = 0 /\ Stored(io, 0) = io.wire
      /\ \A k \in Places : k \in Nat /\ k > 0
    BY OverFacts
<1>2. panic \in {"none", "early", "late"} /\ calls \in 0..2
    BY DEF RInv, RespTypeOK
<1>3. ASSUME panic = "early", ~FlushedBeforeRecovery, ~Unrecovered
      PROVE  /\ io.wire.status = "500"
             /\ \A k \in Places : io.logged[k] \in {"none", "500"}
  <2>1. PICK r \in Places : Recovered(r)
    BY <1>3 DEF RInv, Troubled
  <2>2. io.wire.status = "500" /\ Told(io, 0, Outside(r))
    BY <1>1, <2>1 DEF Recovered, Failed
  <2>3. ASSUME NEW k \in Places, io.logged[k] # "none" PROVE io.logged[k] = "500"
    <3>1. nest[k] = "log" /\ io.logged[k] = Eff(io.held[k].status) /\ k < r
      BY <2>1, <2>3 DEF RInv, Logging, Recovered
    <3>2. k \in Outside(r) /\ k > 0
      BY <1>1, <3>1 DEF Outside, Loggers
    <3>3. Eff(io.held[k].status) = Eff("500")
      BY <1>1, <2>2, <3>2 DEF Told
    <3>. QED
      BY <3>1, <3>3 DEF Eff
  <2>. QED
    BY <2>2, <2>3
<1>4. ASSUME NEW k \in Places, io.logged[k] \notin {"none", io.wire.status}
      PROVE  \/ calls > 1 /\ ~Buffered(k)
             \/ panic = "late"
             \/ panic = "early" /\ FlushedBeforeRecovery
  <2>1. CASE panic = "none"
    <3>. SUFFICES ASSUME calls <= 1 \/ Buffered(k) PROVE FALSE
      BY <1>2
    <3>1. nest[k] = "log" /\ io.logged[k] = Eff(io.held[k].status)
      BY <1>4 DEF RInv, Logging
    <3>2. k \in Truthful(calls)
      BY <3>1 DEF Truthful, Loggers
    <3>3. Told(io, 0, Truthful(calls)) /\ io.wire.status # "none"
      BY <1>1, <2>1 DEF RInv, Phase, Untroubled, Fair
    <3>4. Eff(io.held[k].status) = Eff(io.wire.status)
      BY <1>1, <3>2, <3>3 DEF Told
    <3>. QED
      BY <1>4, <3>1, <3>3, <3>4 DEF Eff
  <2>2. CASE panic = "early" /\ ~FlushedBeforeRecovery
    <3>1. CASE Unrecovered
      BY <1>4, <3>1 DEF Unrecovered
    <3>2. CASE ~Unrecovered
      BY <1>3, <1>4, <2>2, <3>2
    <3>. QED
      BY <3>1, <3>2
  <2>. QED
    BY <1>2, <2>1, <2>2
<1>5. ASSUME panic = "early", ~FlushedBeforeRecovery, NEW k \in Places, nest[k] = "recovery"
      PROVE  io.wire.status = "500"
  <2>1. ~Unrecovered
    <3>1. ~(k <= inside)
      BY <1>1
    <3>. QED
      BY <1>5, <3>1 DEF Unrecovered
  <2>. QED
    BY <1>3, <1>5, <2>1
<1>. QED
    BY <1>4, <1>5

LEMMA RInvHonestHead ==
    ASSUME RInv
    PROVE  HonestHead
<1> SUFFICES ASSUME mode = "over", panic = "none"
             PROVE  /\ "length" \in io.head /\ written = pieces
                       => io.wire.form = {} /\ Len(io.wire.body) = pieces
                    /\ "encoding" \in io.head <=> "gzip" \in io.wire.form
                    /\ "error" \in io.head => io.wire.status = "bad"
                    /\ (\E k \in Places : nest[k] = "headers") /\ calls > 0
                       => "added" \in io.head /\ "unwanted" \notin io.head
    BY DEF HonestHead
<1>1. /\ Nested /\ Holder(io, 0) = 0 /\ inside = 0 /\ Stored(io, 0) = io.wire
      /\ \A k \in Places : k \in Nat /\ k > 0
    BY OverFacts
<1>2. Good(io, 0, 0, written, calls, FALSE) /\ io.wire.status # "none"
    BY <1>1 DEF RInv, Phase, Untroubled, Fair
<1>3. Heads(io, 0) = io.head
    BY <1>2 DEF Heads
<1>4. Honest(io, 0, written) /\ Seen(io, 0) /\ (calls > 0 => Ready(io, 0))
    BY <1>2 DEF Good
<1>5. ASSUME NEW k \in Places, nest[k] = "headers", calls > 0
      PROVE  "added" \in io.head /\ "unwanted" \notin io.head
    BY <1>1, <1>3, <1>4, <1>5 DEF Seen, Ready
<1>. QED
    BY <1>1, <1>3, <1>4, <1>5 DEF Honest

(* The writers, the log and the response have their types.                 *)
THEOREM ResponseTypes == RespSpec => []RespTypeOK
<1>1. RespInit => RespTypeOK
    BY InitFacts
<1>2. RespTypeOK /\ [RespNext]_respVars => RespTypeOK'
    BY NextTypes
<1>. QED
    BY <1>1, <1>2, PTL DEF RespSpec

LEMMA RInvAlways == RespSpec => []RInv
<1>1. RespInit => RInv
    BY InitRInv
<1>2. RInv /\ [RespNext]_respVars => RInv'
    BY NextRInv
<1>. QED
    BY <1>1, <1>2, PTL DEF RespSpec

(* Whatever wraps whatever, and whenever the handler panics: the status in *)
(* the log is the one that the client has, and a panic that a recovery has *)
(* ended in time is a 500 for both.                                        *)
THEOREM StatusTrue == RespSpec => []TrueStatus
<1>1. RInv => TrueStatus
    BY RInvTrueStatus
<1>. QED
    BY <1>1, RInvAlways, PTL

(* Whatever wraps whatever: Content-Length, Content-Encoding, the error    *)
(* header and the configured headers are true of the body that is sent.    *)
THEOREM HeadHonest == RespSpec => []HonestHead
<1>1. RInv => HonestHead
    BY RInvHonestHead
<1>. QED
    BY <1>1, RInvAlways, PTL
=============================================================================
