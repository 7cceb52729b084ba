--------------------------- MODULE RequestPathProofs ---------------------------
(***************************************************************************)
(* What passes all filters was admissible to each of them, and what is     *)
(* sent is whole, for any number of layers in any order, any limits and    *)
(* any configuration of the layers that edit headers.                      *)
(***************************************************************************)
EXTENDS RequestPath, TLAPS

(* What the layers can make of a request. *)
HeaderValues ==
    Marks \union {"none", "id1", "id2", "new", "basic", "token", "form", "odd"}

HeaderType ==
    {f \in [HeaderKeys -> HeaderValues] :
        \A h \in {"fwd", "country"} : f[h] \in Marks \union {"none"}}

RequestType ==
    [header : HeaderType,
     peer   : {"allowed", "blocked", "neither"},
     path   : Paths,
     post   : BOOLEAN,
     query  : {"good", "bad"},
     params : Nat,
     fields : Nat,
     size   : 0..MaxSize,
     length : Nat,
     text   : {"own", "edited"},
     limit  : Nat]

EachLayerOnce ==
    /\ past \in 0..Len(route)
    /\ \A i, j \in 1..Len(route) : route[i] = route[j] => i = j

PathTypes0 ==
    /\ EachLayerOnce
    /\ came \in RequestType /\ req \in RequestType
    /\ came.text = "own" /\ (came.size = 0 => came.fields = 0)
    /\ sets \in [HeaderKeys -> HeaderValues \union {"kept"}]
    /\ \A h \in {"fwd", "country"} : sets[h] \in Marks \union {"none", "kept"}
    /\ lists \subseteq {"allowed", "blocked"}
    /\ flag \in BOOLEAN /\ wasOff \in BOOLEAN
    /\ ~flag => wasOff

-----------------------------------------------------------------------------
(* What the next layer will be shown of header h, as Shown says it of one   *)
(* that has been passed.                                                   *)
Now(h) ==
    LET stripped == Passed("sanitize") /\ Edits("sanitize", h)
        set == Passed("headers") /\ Edits("headers", h)
    IN IF set /\ (stripped => After("sanitize", "headers")) THEN sets[h]
       ELSE IF stripped THEN "none" ELSE came.header[h]

(* No layer but those changes what a later one could be deceived by.       *)
NotForged ==
    /\ req.peer = came.peer
    /\ req.post = came.post /\ req.query = came.query
    /\ req.params = came.params /\ req.fields = came.fields
    /\ ~Passed("rewrite") => req.path = came.path
    /\ \A h \in HeaderKeys :
          (h = "id" => ~Passed("requestid")) => req.header[h] = Now(h)

(* The conjuncts of OnlyTheAdmitted, before the request is sent.           *)
OpenOrOff ==
    Passed("maintenance") =>
        \/ wasOff
        \/ (IF After("rewrite", "maintenance") THEN req.path ELSE came.path) = "open"

KnownUser ==
    /\ Passed("jwt") => Shown("auth", "jwt") = "token"
    /\ Passed("basicauth") => Shown("auth", "basicauth") = "basic"

GoodAddress(address) ==
    /\ "blocked" \in lists => address \in {"allowed", "neither"}
    /\ "allowed" \in lists => address \in {"allowed", "both"}

GoodCountry(country) ==
    country # "none" =>
        /\ "allowed" \in lists => country \in {"allowed", "both"}
        /\ lists = {"blocked"} => country \in {"allowed", "neither"}

GoodClient ==
    /\ Passed("ipfilter") => GoodAddress(Address(Shown("fwd", "ipfilter"), came.peer))
    /\ Passed("geoblock") => GoodCountry(Shown("country", "geoblock"))

Few(n) == n <= MaxParams \/ MaxParams = 0

FewParams ==
    /\ Passed("sanitize") => Few(came.params)
    /\ Passed("requestsize") /\ Parsable =>
          Few(came.params) /\ (MayBeRead => Few(came.fields))

(* The conjuncts of RequestIntact, before the request is sent.             *)
TrueText == req.text = IF Passed("reqtransform") THEN "edited" ELSE "own"

TrueLimit ==
    req.limit = IF Passed("bodysize") /\ ~After("bodysize", "reqtransform")
                   THEN MaxBytes ELSE Unlimited

(* What ParseForm leaves of the body that came. *)
Remains ==
    IF After("bodysize", "requestsize")
       THEN IF came.size <= MaxBytes THEN 0 ELSE came.size
       ELSE IF came.size > MaxForm THEN came.size - MaxForm - 1 ELSE 0

TrueSize ==
    ~Passed("reqtransform") =>
        /\ req.length = came.length
        /\ ~MayBeRead => req.size = came.size
        /\ MayBeRead => /\ req.size \in {came.size, Remains}
                        /\ Shown("type", "requestsize") = "form" => req.size = Remains

TrueID ==
    LET shown == Shown("id", "requestid")
    IN Passed("requestid") =>
          /\ echoed = IF shown = "none" THEN "new" ELSE shown
          /\ \/ req.header["id"] = echoed
             \/ \E l \in {"sanitize", "headers"} :
                   After("requestid", l) /\ Edits(l, "id")

(* Who has the request has what the last layer was given.                  *)
Delivered ==
    Sent =>
        /\ got.text = req.text /\ got.size = req.size /\ got.id = req.header["id"]
        /\ Readable(req)
        /\ outcome = "canary" => req.length \in {req.size, Unknown}

PathInv ==
    /\ PathTypes0 /\ NotForged
    /\ OpenOrOff /\ KnownUser /\ GoodClient /\ FewParams
    /\ TrueText /\ TrueLimit /\ TrueSize /\ TrueID
    /\ Delivered

Fixed == UNCHANGED <<config, came>>
Quiet == UNCHANGED <<flag, wasOff, echoed>>

-----------------------------------------------------------------------------
LEMMA Limits ==
    /\ Depth \in Nat /\ MaxSize \in Nat /\ MaxBytes \in Nat
    /\ MaxForm \in Nat /\ MaxParams \in Nat
    /\ Unknown \in Nat /\ Unlimited \in Nat /\ MaxBytes # Unlimited
    /\ MaxSize <= Unlimited
    /\ Malformed \in Nat /\ Malformed # 0
BY PathAssumption DEF Unknown, Unlimited, Malformed

(* Every header that a request can come with, and that can be set, is one  *)
(* of these.                                                               *)
LEMMA HeadingsType ==
    ASSUME NEW names, NEW other \in {"none", "kept"}, NEW default,
           NEW others, others \subseteq {"none", "kept"},
           default \in {"none", "kept"},
           NEW f \in Headings(names, others, default)
    PROVE  /\ f \in [HeaderKeys -> HeaderValues \union others \union {default}]
           /\ \A h \in {"fwd", "country"} : f[h] \in Marks \union others \union {default}
<1> DEFINE of(h, values) == If(h \in names, values \union others, default)
<1>1. f \in [fwd     : of("fwd", Marks),
             country : of("country", Marks),
             id      : of("id", {"id1", "id2"}),
             auth    : of("auth", {"basic", "token"}),
             type    : of("type", {"form", "odd"})]
  BY DEF Headings
<1>2. \A h, values : of(h, values) \subseteq values \union others \union {default}
  BY DEF If
<1> HIDE DEF of
<1>3. /\ f["fwd"] \in of("fwd", Marks) /\ f["country"] \in of("country", Marks)
      /\ f["id"] \in of("id", {"id1", "id2"})
      /\ f["auth"] \in of("auth", {"basic", "token"})
      /\ f["type"] \in of("type", {"form", "odd"})
      /\ f = [h \in HeaderKeys |-> f[h]]
  BY <1>1 DEF HeaderKeys
<1>4. /\ f["fwd"] \in Marks \union others \union {default}
      /\ f["country"] \in Marks \union others \union {default}
  BY <1>2, <1>3
<1>5. \A h \in HeaderKeys : f[h] \in HeaderValues \union others \union {default}
  BY <1>2, <1>3, <1>4 DEF HeaderKeys, HeaderValues
<1> QED
  BY <1>3, <1>4, <1>5

(* What a behaviour starts with satisfies the invariant. *)
LEMMA PathInvInit == PathInit => PathInv
<1> SUFFICES ASSUME PathInit PROVE PathInv
  OBVIOUS
<1> DEFINE ls == LayersOf(route)
<1>1. /\ past = 0 /\ req = came /\ route \in Routes
      /\ wasOff = ~flag /\ outcome = "none"
      /\ came \in Incoming(ls) /\ Possible(came)
  BY DEF PathInit, Comes
<1>2. /\ lists \subseteq {"allowed", "blocked"} /\ flag \in BOOLEAN
  BY DEF PathInit, Comes, If
<1>3. /\ sets \in [HeaderKeys -> HeaderValues \union {"kept"}]
      /\ \A h \in {"fwd", "country"} : sets[h] \in Marks \union {"none", "kept"}
  <2>1. PICK names : sets \in Headings(names, {"kept", "none"}, "kept")
    BY DEF PathInit, Comes
  <2>2. /\ sets \in [HeaderKeys -> HeaderValues \union {"kept", "none"} \union {"kept"}]
        /\ \A h \in {"fwd", "country"} :
              sets[h] \in Marks \union {"kept", "none"} \union {"kept"}
    BY <2>1, HeadingsType
  <2>3. HeaderValues \union {"kept", "none"} \union {"kept"}
        = HeaderValues \union {"kept"}
    BY DEF HeaderValues
  <2> QED
    BY <2>2, <2>3
<1>4. came \in RequestType /\ came.text = "own" /\ came.limit = Unlimited
  <2>1. came.header \in HeaderType
    <3>1. came.header \in Headings(Looked(ls), {"none"}, "none")
      BY <1>1 DEF Incoming
    <3>2. /\ came.header \in [HeaderKeys -> HeaderValues \union {"none"} \union {"none"}]
          /\ \A h \in {"fwd", "country"} :
                came.header[h] \in Marks \union {"none"} \union {"none"}
      BY <3>1, HeadingsType
    <3>3. HeaderValues \union {"none"} \union {"none"} = HeaderValues
      BY DEF HeaderValues
    <3> QED
      BY <3>2, <3>3 DEF HeaderType
  <2>2. /\ came.peer \in {"allowed", "blocked", "neither"} /\ came.path \in Paths
        /\ came.post \in BOOLEAN /\ came.query \in {"good", "bad"}
        /\ came.params \in Nat /\ came.fields \in Nat
        /\ came.size \in 0..MaxSize /\ came.length \in Nat
        /\ came.text = "own" /\ came.limit = Unlimited
    <3> DEFINE sized == ls \intersect {"requestsize", "bodysize", "reqtransform"} # {}
               somewhere == ls \intersect {"maintenance", "redirect"} # {}
               counted == ls \intersect {"sanitize", "requestsize"} # {}
               measured == ls \intersect {"bodysize", "canary"} # {} /\ sized
    <3>1. /\ came.peer \in If("ipfilter" \in ls, {"allowed", "blocked"}, "neither")
          /\ came.path \in If(somewhere, Paths, "new")
          /\ came.post \in If("requestsize" \in ls, BOOLEAN, FALSE)
          /\ came.query \in If("requestsize" \in ls, {"good", "bad"}, "good")
          /\ came.params \in If(counted, 0..MaxParams + 1, 0)
          /\ came.fields \in If("requestsize" \in ls, Forms, 0)
          /\ came.size \in If(sized, 0..MaxSize, MaxSize)
          /\ came.length \in If(measured, 0..MaxSize \union {Unknown}, Unknown)
          /\ came.text = "own" /\ came.limit = Unlimited
      BY <1>1 DEF Incoming
    <3> HIDE DEF ls, sized, somewhere, counted, measured
    <3>2. /\ came.peer \in {"allowed", "blocked", "neither"} /\ came.path \in Paths
          /\ came.post \in BOOLEAN /\ came.query \in {"good", "bad"}
      BY <3>1 DEF If, Paths
    <3>3. /\ came.params \in Nat /\ came.fields \in Nat
          /\ came.size \in 0..MaxSize /\ came.length \in Nat
      BY <3>1, Limits DEF If, Forms
    <3> QED
      BY <3>1, <3>2, <3>3
  <2>3. came = [header |-> came.header, peer |-> came.peer, path |-> came.path,
                post |-> came.post, query |-> came.query, params |-> came.params,
                fields |-> came.fields, size |-> came.size, length |-> came.length,
                text |-> came.text, limit |-> came.limit]
    BY <1>1 DEF Incoming
  <2> QED
    BY <2>1, <2>2, <2>3, Limits DEF RequestType
<1>5. \A l : ~Passed(l)
  BY <1>1 DEF Passed
<1>6. EachLayerOnce
  <2>1. PICK c \in Concerns, n \in 0..Depth : route \in Orders(c, n)
    BY <1>1 DEF Routes
  <2>2. n \in Nat /\ route \in [1..n -> c]
    BY <2>1, Limits DEF Orders
  <2>3. route \in Seq(c) /\ Len(route) = n
    BY <2>2
  <2> QED
    BY <1>1, <2>1, <2>2, <2>3 DEF EachLayerOnce, Orders
<1>7. PathTypes0
  BY <1>1, <1>2, <1>3, <1>4, <1>6 DEF PathTypes0, Possible
<1>8. NotForged
  BY <1>1, <1>5 DEF NotForged, Now
<1>9. OpenOrOff /\ KnownUser /\ GoodClient /\ FewParams /\ TrueID
  BY <1>5 DEF OpenOrOff, KnownUser, GoodClient, FewParams, TrueID
<1>10. TrueText /\ TrueLimit /\ TrueSize
  BY <1>1, <1>4, <1>5 DEF TrueText, TrueLimit, TrueSize, MayBeRead
<1>11. Delivered
  BY <1>1 DEF Delivered, Sent
<1> QED
  BY <1>7, <1>8, <1>9, <1>10, <1>11 DEF PathInv

-----------------------------------------------------------------------------
(* A layer that passes the request on has been passed, below those before. *)
LEMMA PassedOne ==
    ASSUME EachLayerOnce, Fixed, NEW layer, Before(layer), past' = past + 1
    PROVE  /\ EachLayerOnce'
           /\ ~Passed(layer)
           /\ \A l : Passed(l)' <=> Passed(l) \/ l = layer
           /\ \A l, k : After(l, k)' <=> After(l, k) \/ (Passed(l) /\ k = layer)
           /\ \A l, k : After(l, k) => Passed(l) /\ Passed(k)
           /\ ~After(layer, layer)'
<1>1. /\ past \in Nat /\ past < Len(route) /\ past' \in 0..Len(route)
      /\ route' = route /\ route[past + 1] = layer
      /\ 1..(past + 1) = 1..past \union {past + 1}
      /\ \A i \in 1..past : i \in 1..Len(route) /\ i # past + 1
  BY DEF EachLayerOnce, Fixed, config, Before
<1>2. EachLayerOnce'
  BY <1>1 DEF EachLayerOnce
<1>3. ~Passed(layer)
  BY <1>1 DEF EachLayerOnce, Passed
<1>4. \A l : Passed(l)' <=> Passed(l) \/ l = layer
  BY <1>1 DEF Passed
<1>5. \A l, k : After(l, k)' <=> After(l, k) \/ (Passed(l) /\ k = layer)
  <2> TAKE l, k
  <2>1. After(l, k)' <=> \E i, j \in 1..(past + 1) : i < j /\ route[i] = l /\ route[j] = k
    BY <1>1 DEF After
  <2>2. \A i, j \in 1..(past + 1) :
           i < j <=> i \in 1..past /\ (j = past + 1 \/ (j \in 1..past /\ i < j))
    BY <1>1
  <2> QED
    BY <1>1, <2>1, <2>2 DEF After, Passed
<1>6. \A l, k : After(l, k) => Passed(l) /\ Passed(k)
  BY DEF After, Passed
<1> QED
  BY <1>2, <1>3, <1>4, <1>5, <1>6

(* What a passed layer was shown is settled, the layer that passes the     *)
(* request on was shown what the layers above it made of the headers, and  *)
(* the next one is shown what this one makes of them.                      *)
LEMMA Showing ==
    ASSUME EachLayerOnce, Fixed, NEW layer, Before(layer), past' = past + 1
    PROVE  /\ \A h, k : Passed(k) => Shown(h, k)' = Shown(h, k)
           /\ \A h : Shown(h, layer)' = Now(h)
           /\ \A h : Now(h)' = IF ~Edits(layer, h) THEN Now(h)
                              ELSE IF layer = "headers" THEN sets[h] ELSE "none"
<1>1. /\ \A l, h : Edits(l, h)' <=> Edits(l, h)
      /\ sets' = sets /\ came' = came
  BY DEF Fixed, config, Edits
<1>2. /\ ~Passed(layer)
      /\ \A l : Passed(l)' <=> Passed(l) \/ l = layer
      /\ \A l, k : After(l, k)' <=> After(l, k) \/ (Passed(l) /\ k = layer)
      /\ \A l, k : After(l, k) => Passed(l) /\ Passed(k)
  BY PassedOne
<1>3. ASSUME NEW h, NEW k, Passed(k)
      PROVE  Shown(h, k)' = Shown(h, k)
  <2>1. \A l : After(l, k)' <=> After(l, k)
    BY <1>2, <1>3
  <2>2. Passed("headers") => (After("sanitize", "headers")' <=> After("sanitize", "headers"))
    BY <1>2
  <2>3. After("headers", k) => Passed("headers")
    BY <1>2
  <2> QED
    BY <1>1, <2>1, <2>2, <2>3 DEF Shown
<1>4. ASSUME NEW h
      PROVE  Shown(h, layer)' = Now(h)
  <2>1. \A l : After(l, layer)' <=> Passed(l)
    BY <1>2
  <2>2. Passed("headers") => (After("sanitize", "headers")' <=> After("sanitize", "headers"))
    BY <1>2
  <2> QED
    BY <1>1, <2>1, <2>2 DEF Shown, Now
<1>5. ASSUME NEW h
      PROVE  Now(h)' = IF ~Edits(layer, h) THEN Now(h)
                       ELSE IF layer = "headers" THEN sets[h] ELSE "none"
  <2>1. CASE layer = "headers"
    <3>1. After("sanitize", "headers")' <=> Passed("sanitize")
      BY <1>2, <2>1
    <3>2. Passed("sanitize")' <=> Passed("sanitize")
      BY <1>2, <2>1
    <3>3. Passed("headers")' /\ ~Passed("headers")
      BY <1>2, <2>1
    <3> QED
      BY <1>1, <2>1, <3>1, <3>2, <3>3 DEF Now
  <2>2. CASE layer # "headers"
    <3>1. After("sanitize", "headers")' <=> After("sanitize", "headers")
      BY <1>2, <2>2
    <3>2. Passed("headers")' <=> Passed("headers")
      BY <1>2, <2>2
    <3>3. layer = "sanitize" => ~After("sanitize", "headers") /\ Passed("sanitize")'
      BY <1>2
    <3>4. layer # "sanitize" => ~Edits(layer, h) /\ (Passed("sanitize")' <=> Passed("sanitize"))
      BY <1>2, <2>2 DEF Edits
    <3>5. layer = "sanitize" => ~Passed("sanitize")
      BY <1>2
    <3> QED
      BY <1>1, <2>2, <3>1, <3>2, <3>3, <3>4, <3>5 DEF Now
  <2> QED
    BY <2>1, <2>2
<1> QED
  BY <1>3, <1>4, <1>5

(* What layer must make sure of when it passes a request on: that the      *)
(* request as it is would do.                                              *)
Uncounted ==
    \E read \in Reads(req) : \E fields \in Fields(req, read) :
    \E count \in Distinct(req.params, fields) :
        ~(MaxParams > 0 /\ Parsed(req, read, fields) /\ count > MaxParams)

Checked(layer) ==
    /\ layer = "maintenance" => ~flag \/ req.path = "open"
    /\ layer = "jwt" => req.header["auth"] = "token"
    /\ layer = "basicauth" => req.header["auth"] = "basic"
    /\ layer = "ipfilter" => GoodAddress(Address(req.header["fwd"], req.peer))
    /\ layer = "geoblock" => GoodCountry(req.header["country"])
    /\ layer = "sanitize" => Few(req.params)
    /\ layer = "requestsize" => Uncounted

(* What it makes of the request. *)
NewID == IF req.header["id"] = "none" THEN "new" ELSE req.header["id"]

Treats(layer, r) ==
    /\ r \in RequestType
    /\ r.peer = req.peer /\ r.post = req.post /\ r.query = req.query
    /\ r.params = req.params /\ r.fields = req.fields
    /\ layer # "rewrite" => r.path = req.path
    /\ \A h \in HeaderKeys :
          r.header[h] =
             IF Edits(layer, h) THEN IF layer = "headers" THEN sets[h] ELSE "none"
             ELSE IF layer = "requestid" /\ h = "id" THEN NewID ELSE req.header[h]
    /\ r.text = IF layer = "reqtransform" THEN "edited" ELSE req.text
    /\ r.limit = IF layer = "bodysize" THEN MaxBytes
                 ELSE IF layer = "reqtransform" THEN Unlimited ELSE req.limit
    /\ layer # "reqtransform" => r.length = req.length
    /\ layer \notin {"reqtransform", "requestsize"} => r.size = req.size
    /\ layer = "requestsize"
       => \E read \in Reads(req) : r.size = IF read THEN Rest(req) ELSE req.size

(* A form that is read whole without an error has been counted.            *)
LEMMA Counting ==
    ASSUME PathInv, Fixed, Before("requestsize"), past' = past + 1, Uncounted, Parsable'
    PROVE  Few(came.params) /\ (MayBeRead' => Few(came.fields))
<1>1. /\ came \in RequestType /\ req \in RequestType /\ EachLayerOnce
      /\ came.size = 0 => came.fields = 0
      /\ came' = came
  BY DEF PathInv, PathTypes0, Fixed
<1>a. PICK read \in Reads(req) :
         \E f \in Fields(req, read) : \E n \in Distinct(req.params, f) :
            ~(MaxParams > 0 /\ Parsed(req, read, f) /\ n > MaxParams)
  BY DEF Uncounted
<1>b. PICK fields \in Fields(req, read) : \E n \in Distinct(req.params, fields) :
         ~(MaxParams > 0 /\ Parsed(req, read, fields) /\ n > MaxParams)
  BY <1>a
<1>2. PICK count \in Distinct(req.params, fields) :
         ~(MaxParams > 0 /\ Parsed(req, read, fields) /\ count > MaxParams)
  BY <1>b
<1>3. /\ Shown("type", "requestsize")' = Now("type")
      /\ req.header["type"] = Now("type")
      /\ req.post = came.post /\ req.query = came.query
      /\ req.params = came.params /\ req.fields = came.fields
  BY <1>1, Showing DEF PathInv, NotForged, HeaderKeys
<1>4. /\ Passed("requestsize")'
      /\ After("bodysize", "requestsize")' <=> Passed("bodysize")
      /\ After("reqtransform", "requestsize")' <=> Passed("reqtransform")
  <2>1. /\ ~Passed("requestsize")
        /\ \A l : Passed(l)' <=> Passed(l) \/ l = "requestsize"
        /\ \A l, k : After(l, k)' <=> After(l, k) \/ (Passed(l) /\ k = "requestsize")
        /\ \A l, k : After(l, k) => Passed(l) /\ Passed(k)
    BY <1>1, PassedOne
  <2> QED
    BY <2>1
<1>5. /\ came.query = "good"
      /\ \/ ~came.post \/ Now("type") = "none"
         \/ /\ Now("type") = "form" /\ came.fields # Malformed
            /\ ~Passed("reqtransform")
            /\ came.size <= IF Passed("bodysize") THEN MaxBytes ELSE MaxForm
  BY <1>1, <1>3, <1>4 DEF Parsable
<1>6. MayBeRead' <=> MaxParams > 0 /\ came.post /\ Now("type") # "none"
  BY <1>1, <1>3, <1>4 DEF MayBeRead
<1>7. req.params \in Nat /\ req.fields \in Nat /\ came.size \in Nat
  BY <1>1, Limits DEF RequestType
<1> SUFFICES ASSUME MaxParams # 0
             PROVE  Few(came.params) /\ (MayBeRead' => Few(came.fields))
  BY <1>6, Limits DEF Few
<1>8. CASE ~came.post \/ Now("type") = "none"
  <2>1. read = FALSE
    BY <1>3, <1>8 DEF Reads
  <2>2. fields = 0
    BY <2>1 DEF Fields
  <2>3. count = req.params
    BY <1>7, <2>2 DEF Distinct
  <2>4. Parsed(req, read, fields)
    BY <1>3, <1>5, <1>8, <2>1, <2>2, Limits DEF Parsed
  <2> QED
    BY <1>2, <1>3, <1>6, <1>7, <1>8, <2>3, <2>4, Limits DEF Few
<1>9. CASE came.post /\ Now("type") = "form"
  <2>1. read = TRUE
    BY <1>3, <1>9 DEF Reads
  <2>2. /\ req.text = "own" /\ req.size = came.size
        /\ req.limit = IF Passed("bodysize") THEN MaxBytes ELSE Unlimited
    <3>1. ~Passed("reqtransform") /\ ~Passed("requestsize")
      BY <1>1, <1>5, <1>9, PassedOne
    <3>2. ~After("bodysize", "reqtransform") /\ ~MayBeRead
      BY <3>1 DEF After, Passed, MayBeRead
    <3> QED
      BY <3>1, <3>2 DEF PathInv, TrueText, TrueSize, TrueLimit
  <2>3. fields = came.fields
    BY <1>1, <1>3, <2>1, <2>2 DEF Fields
  <2>4. Parsed(req, read, fields)
    BY <1>3, <1>5, <1>9, <2>1, <2>2, <2>3, Limits DEF Parsed
  <2>5. count >= req.params /\ count >= fields /\ count \in Nat
    BY <1>3, <1>7, <2>3 DEF Distinct
  <2>6. count <= MaxParams
    BY <1>2, <2>4, <2>5, Limits
  <2> QED
    BY <1>3, <1>7, <2>3, <2>5, <2>6, Limits DEF Few
<1> QED
  BY <1>5, <1>8, <1>9

(* A layer that passes the request on, changed to r, keeps the invariant.  *)
LEMMA Passing ==
    ASSUME PathInv, Fixed, NEW layer, Before(layer), Checked(layer),
           NEW r, Treats(layer, r), Pass(r), flag' = flag, wasOff' = wasOff,
           echoed' = IF layer = "requestid" THEN NewID ELSE echoed
    PROVE  PathInv'
<1>1. /\ past' = past + 1 /\ req' = r /\ outcome' = outcome /\ outcome = "none"
      /\ lists' = lists /\ strips' = strips /\ sets' = sets /\ came' = came
      /\ \A l, h : Edits(l, h)' <=> Edits(l, h)
      /\ EachLayerOnce
  BY DEF Pass, Before, Fixed, config, Edits, PathInv, PathTypes0
<1>2. /\ EachLayerOnce'
      /\ ~Passed(layer)
      /\ \A l : Passed(l)' <=> Passed(l) \/ l = layer
      /\ \A l, k : After(l, k)' <=> After(l, k) \/ (Passed(l) /\ k = layer)
      /\ \A l, k : After(l, k) => Passed(l) /\ Passed(k)
      /\ ~After(layer, layer)'
  BY <1>1, PassedOne
<1>3. /\ \A h, k : Passed(k) => Shown(h, k)' = Shown(h, k)
      /\ \A h : Shown(h, layer)' = Now(h)
      /\ \A h : Now(h)' = IF ~Edits(layer, h) THEN Now(h)
                         ELSE IF layer = "headers" THEN sets[h] ELSE "none"
  BY <1>1, Showing
<1>4. NotForged
  BY DEF PathInv
<1>5. PathTypes0'
  BY <1>1, <1>2 DEF PathInv, PathTypes0, Treats
<1>6. NotForged'
  <2>1. ASSUME NEW h \in HeaderKeys, h = "id" => ~Passed("requestid")'
        PROVE  r.header[h] = Now(h)'
    <3>1. /\ h = "id" => layer # "requestid"
          /\ req.header[h] = Now(h)
      BY <1>2, <1>4, <2>1 DEF NotForged
    <3> QED
      BY <1>3, <3>1 DEF Treats
  <2>2. ~Passed("rewrite")' => r.path = came.path
    BY <1>2, <1>4 DEF NotForged, Treats
  <2>3. /\ r.peer = came.peer /\ r.post = came.post /\ r.query = came.query
        /\ r.params = came.params /\ r.fields = came.fields
    BY <1>4 DEF NotForged, Treats
  <2> QED
    BY <1>1, <2>1, <2>2, <2>3 DEF NotForged
<1>7. OpenOrOff'
  <2>1. CASE layer = "maintenance"
    <3>1. flag \in BOOLEAN /\ (~flag => wasOff)
      BY DEF PathInv, PathTypes0
    <3>2. ~flag \/ req.path = "open"
      BY <2>1 DEF Checked
    <3>3. r.path = req.path
      BY <2>1 DEF Treats
    <3>4. After("rewrite", "maintenance")' <=> Passed("rewrite")
      BY <1>2, <2>1
    <3>5. ~Passed("rewrite") => req.path = came.path
      BY <1>4 DEF NotForged
    <3> QED
      BY <1>1, <3>1, <3>2, <3>3, <3>4, <3>5 DEF OpenOrOff
  <2>2. CASE layer # "maintenance"
    <3>1. /\ Passed("maintenance")' <=> Passed("maintenance")
          /\ After("rewrite", "maintenance")' <=> After("rewrite", "maintenance")
      BY <1>2, <2>2
    <3>2. After("rewrite", "maintenance") => layer # "rewrite"
      BY <1>2
    <3>3. layer # "rewrite" => r.path = req.path
      BY DEF Treats
    <3> QED
      BY <1>1, <3>1, <3>2, <3>3 DEF OpenOrOff, PathInv
  <2> QED
    BY <2>1, <2>2
<1>8. \A h \in HeaderKeys \ {"id"} : Now(h) = req.header[h]
  BY <1>4 DEF NotForged
<1>9. KnownUser'
  <2>1. layer = "jwt" => Now("auth") = "token"
    BY <1>8 DEF Checked, HeaderKeys
  <2>2. layer = "basicauth" => Now("auth") = "basic"
    BY <1>8 DEF Checked, HeaderKeys
  <2> QED
    BY <1>2, <1>3, <2>1, <2>2 DEF PathInv, KnownUser
<1>10. GoodClient'
  <2>1. /\ \A a : GoodAddress(a)' <=> GoodAddress(a)
        /\ \A c : GoodCountry(c)' <=> GoodCountry(c)
    BY <1>1 DEF GoodAddress, GoodCountry
  <2>2. layer = "ipfilter" => GoodAddress(Address(Now("fwd"), came.peer))
    <3>1. Now("fwd") = req.header["fwd"] /\ req.peer = came.peer
      BY <1>4, <1>8 DEF HeaderKeys, NotForged
    <3> QED
      BY <3>1 DEF Checked
  <2>3. layer = "geoblock" => GoodCountry(Now("country"))
    <3>1. Now("country") = req.header["country"]
      BY <1>8 DEF HeaderKeys
    <3> QED
      BY <3>1 DEF Checked
  <2>4. Passed("ipfilter")' => GoodAddress(Address(Shown("fwd", "ipfilter")', came.peer))
    BY <1>2, <1>3, <2>2 DEF PathInv, GoodClient
  <2>5. Passed("geoblock")' => GoodCountry(Shown("country", "geoblock")')
    BY <1>2, <1>3, <2>3 DEF PathInv, GoodClient
  <2> QED
    BY <1>1, <2>1, <2>4, <2>5 DEF GoodClient, Address
<1>11. Passed("requestsize") =>
          /\ Parsable' <=> Parsable
          /\ MayBeRead' <=> MayBeRead
          /\ Remains' = Remains
          /\ Shown("type", "requestsize")' = Shown("type", "requestsize")
  <2> SUFFICES ASSUME Passed("requestsize")
               PROVE  /\ Parsable' <=> Parsable
                      /\ MayBeRead' <=> MayBeRead
                      /\ Remains' = Remains
                      /\ Shown("type", "requestsize")' = Shown("type", "requestsize")
    OBVIOUS
  <2>1. /\ Passed("requestsize")'
        /\ \A l : After(l, "requestsize")' <=> After(l, "requestsize")
        /\ Shown("type", "requestsize")' = Shown("type", "requestsize")
    BY <1>2, <1>3
  <2> QED
    BY <1>1, <2>1 DEF Parsable, MayBeRead, Remains
<1>12. FewParams'
  <2>1. Passed("sanitize")' => Few(came.params)
    BY <1>2, <1>4 DEF PathInv, FewParams, Checked, NotForged
  <2>2. CASE Passed("requestsize")
    BY <1>1, <1>11, <2>1, <2>2 DEF PathInv, FewParams, Few
  <2>3. CASE layer = "requestsize"
    <3>1. Uncounted /\ Before("requestsize")
      BY <2>3 DEF Checked
    <3>2. Parsable' => Few(came.params) /\ (MayBeRead' => Few(came.fields))
      BY <1>1, <3>1, Counting
    <3> QED
      BY <1>1, <2>1, <3>2 DEF FewParams, Few
  <2>4. CASE ~Passed("requestsize")'
    BY <1>1, <2>1, <2>4 DEF FewParams, Few
  <2> QED
    BY <1>2, <2>2, <2>3, <2>4
<1>13. TrueText'
  BY <1>1, <1>2 DEF PathInv, TrueText, Treats
<1>14. TrueLimit'
  <2>1. req.limit = IF Passed("bodysize") /\ ~After("bodysize", "reqtransform")
                       THEN MaxBytes ELSE Unlimited
    BY DEF PathInv, TrueLimit
  <2>2. r.limit = IF layer = "bodysize" THEN MaxBytes
                  ELSE IF layer = "reqtransform" THEN Unlimited ELSE req.limit
    BY DEF Treats
  <2>3. /\ layer = "bodysize" => Passed("bodysize")' /\ ~After("bodysize", "reqtransform")'
        /\ layer = "reqtransform"
           => (Passed("bodysize")' => After("bodysize", "reqtransform")')
        /\ layer \notin {"bodysize", "reqtransform"}
           => /\ Passed("bodysize")' <=> Passed("bodysize")
              /\ After("bodysize", "reqtransform")' <=> After("bodysize", "reqtransform")
    BY <1>2
  <2> QED
    BY <1>1, <2>1, <2>2, <2>3 DEF TrueLimit
<1>15. TrueSize'
  <2> SUFFICES ASSUME ~Passed("reqtransform")'
               PROVE  /\ r.length = came.length
                      /\ ~MayBeRead' => r.size = came.size
                      /\ MayBeRead' =>
                            /\ r.size \in {came.size, Remains'}
                            /\ Shown("type", "requestsize")' = "form" => r.size = Remains'
    BY <1>1 DEF TrueSize
  <2>1. ~Passed("reqtransform") /\ layer # "reqtransform"
    BY <1>2
  <2>2. /\ req.length = came.length
        /\ ~MayBeRead => req.size = came.size
        /\ MayBeRead => /\ req.size \in {came.size, Remains}
                        /\ Shown("type", "requestsize") = "form" => req.size = Remains
    BY <2>1 DEF PathInv, TrueSize
  <2>3. r.length = came.length
    BY <2>1, <2>2 DEF Treats
  <2>4. CASE layer # "requestsize"
    <3>1. r.size = req.size
      BY <2>1, <2>4 DEF Treats
    <3>2. CASE Passed("requestsize")
      BY <1>11, <2>2, <2>3, <3>1, <3>2
    <3>3. CASE ~Passed("requestsize")
      <4>1. ~MayBeRead /\ ~MayBeRead'
        BY <1>2, <2>4, <3>3 DEF MayBeRead
      <4> QED
        BY <2>2, <2>3, <3>1, <4>1
    <3> QED
      BY <3>2, <3>3
  <2>5. CASE layer = "requestsize"
    <3>1. PICK read \in Reads(req) : r.size = IF read THEN Rest(req) ELSE req.size
      BY <2>5 DEF Treats
    <3>2. /\ Shown("type", "requestsize")' = Now("type")
          /\ Now("type") = req.header["type"] /\ req.post = came.post
      BY <1>3, <1>4, <1>8, <2>5 DEF HeaderKeys, NotForged
    <3>3. MayBeRead' <=> MaxParams > 0 /\ came.post /\ Now("type") # "none"
      BY <1>1, <1>2, <2>5, <3>2 DEF MayBeRead
    <3>4. req.size = came.size
      BY <1>2, <2>2, <2>5 DEF MayBeRead
    <3>5. Rest(req) = Remains'
      <4>1. After("bodysize", "requestsize")' <=> Passed("bodysize")
        BY <1>2, <2>5
      <4>2. ~After("bodysize", "reqtransform")
        BY <1>2, <2>1
      <4>3. req.limit = IF Passed("bodysize") THEN MaxBytes ELSE Unlimited
        BY <4>2 DEF PathInv, TrueLimit
      <4> QED
        BY <1>1, <3>4, <4>1, <4>3, Limits DEF Rest, Remains, Readable
    <3>6. /\ ~MayBeRead' => read = FALSE
          /\ MayBeRead' /\ Now("type") = "form" => read = TRUE
      <4>1. CASE MaxParams = 0 \/ ~came.post \/ Now("type") = "none"
        <5>1. Reads(req) = {FALSE}
          BY <3>2, <4>1 DEF Reads
        <5> QED
          BY <3>3, <4>1, <5>1, Limits
      <4>2. CASE ~(MaxParams = 0 \/ ~came.post \/ Now("type") = "none")
        <5>1. Now("type") = "form" => Reads(req) = {TRUE}
          BY <3>2, <4>2 DEF Reads
        <5>2. MaxParams > 0
          BY <4>2, Limits
        <5>3. MayBeRead'
          BY <3>3, <4>2, <5>2, Zenon
        <5> QED
          BY <5>1, <5>3
      <4> QED
        BY <4>1, <4>2
    <3> QED
      BY <2>3, <3>1, <3>2, <3>4, <3>5, <3>6
  <2> QED
    BY <2>4, <2>5
<1>16. TrueID'
  <2> DEFINE edited == \E l \in {"sanitize", "headers"} :
                          After("requestid", l) /\ Edits(l, "id")
  <2> SUFFICES ASSUME Passed("requestid")'
               PROVE  LET shown == Shown("id", "requestid")'
                      IN /\ echoed' = IF shown = "none" THEN "new" ELSE shown
                         /\ r.header["id"] = echoed' \/ edited'
    BY <1>1 DEF TrueID
  <2>1. CASE layer = "requestid"
    <3>1. /\ Shown("id", "requestid")' = Now("id") /\ ~Passed("requestid")
      BY <1>2, <1>3, <2>1
    <3>2. Now("id") = req.header["id"]
      BY <1>4, <3>1 DEF NotForged, HeaderKeys
    <3>3. echoed' = NewID /\ r.header["id"] = NewID
      BY <2>1 DEF Treats, HeaderKeys, Edits
    <3> QED
      BY <3>1, <3>2, <3>3 DEF NewID
  <2>2. CASE layer # "requestid"
    <3>1. /\ Passed("requestid") /\ Shown("id", "requestid")' = Shown("id", "requestid")
          /\ echoed' = echoed
      BY <1>2, <1>3, <2>2
    <3>2. echoed = IF Shown("id", "requestid") = "none" THEN "new" ELSE Shown("id", "requestid")
      BY <3>1 DEF PathInv, TrueID
    <3>3. req.header["id"] = echoed \/ edited
      BY <3>1 DEF PathInv, TrueID
    <3>4. edited => edited'
      BY <1>1, <1>2
    <3>5. CASE Edits(layer, "id")
      <4>1. layer \in {"sanitize", "headers"} /\ After("requestid", layer)'
        BY <1>2, <3>1, <3>5 DEF Edits
      <4> QED
        BY <1>1, <3>1, <3>2, <3>5, <4>1
    <3>6. CASE ~Edits(layer, "id")
      <4>1. r.header["id"] = req.header["id"]
        BY <2>2, <3>6 DEF Treats, HeaderKeys
      <4> QED
        BY <3>1, <3>2, <3>3, <3>4, <4>1
    <3> QED
      BY <3>5, <3>6
  <2> QED
    BY <2>1, <2>2
<1>17. Delivered'
  BY <1>1 DEF Delivered, Sent
<1> QED
  BY <1>5, <1>6, <1>7, <1>9, <1>10, <1>12, <1>13, <1>14, <1>15, <1>16, <1>17 DEF PathInv

(* What neither passes nor changes the request keeps the invariant: an     *)
(* answer, the delivery to upstream and the switch of the maintenance mode.*)
LEMMA Staying ==
    ASSUME PathInv, Fixed, past' = past, req' = req, echoed' = echoed,
           flag' \in BOOLEAN, wasOff' \in BOOLEAN,
           ~flag' => wasOff', wasOff => wasOff', Delivered'
    PROVE  PathInv'
<1>1. /\ \A l : Passed(l)' <=> Passed(l)
      /\ \A l, k : After(l, k)' <=> After(l, k)
      /\ \A l, h : Edits(l, h)' <=> Edits(l, h)
      /\ route' = route /\ lists' = lists /\ sets' = sets /\ came' = came
  BY DEF Passed, After, Edits, Fixed, config
<1>2. /\ \A h, k : Shown(h, k)' = Shown(h, k)
      /\ \A h : Now(h)' = Now(h)
  BY <1>1 DEF Shown, Now
<1>3. PathTypes0'
  BY <1>1 DEF PathInv, PathTypes0, EachLayerOnce
<1>4. NotForged'
  BY <1>1, <1>2 DEF PathInv, NotForged
<1>5. OpenOrOff' /\ KnownUser'
  BY <1>1, <1>2 DEF PathInv, OpenOrOff, KnownUser
<1>6. GoodClient'
  BY <1>1, <1>2 DEF PathInv, GoodClient, GoodAddress, GoodCountry, Address
<1>7. (MayBeRead' <=> MayBeRead) /\ (Parsable' <=> Parsable) /\ Remains' = Remains
  BY <1>1, <1>2 DEF MayBeRead, Parsable, Remains
<1>8. FewParams'
  BY <1>1, <1>7 DEF PathInv, FewParams, Few
<1>9. TrueText' /\ TrueLimit'
  BY <1>1 DEF PathInv, TrueText, TrueLimit
<1>10. TrueSize'
  BY <1>1, <1>2, <1>7 DEF PathInv, TrueSize
<1>11. TrueID'
  BY <1>1, <1>2 DEF PathInv, TrueID
<1> QED
  BY <1>3, <1>4, <1>5, <1>6, <1>8, <1>9, <1>10, <1>11 DEF PathInv

(* A layer that answers sends nothing. *)
LEMMA Ending ==
    ASSUME PathInv, Fixed, Quiet, NEW how,
           how \in {"refused", "redirected", "failed"}, End(how)
    PROVE  PathInv'
<1>1. Delivered'
  BY DEF End, Delivered, Sent
<1> QED
  BY <1>1, Staying DEF PathInv, PathTypes0, Quiet, End

LEMMA Deciding ==
    ASSUME PathInv, Fixed, NEW layer, layer # "requestid", NEW refused, NEW r,
           Decide(layer, refused, r),
           ~refused => Checked(layer) /\ Treats(layer, r)
    PROVE  PathInv'
<1>1. Before(layer) /\ Quiet
  BY DEF Decide, Quiet
<1>2. CASE refused
  BY <1>1, <1>2, Ending DEF Decide
<1>3. CASE ~refused
  BY <1>1, <1>3, Passing DEF Decide, Quiet
<1> QED
  BY <1>2, <1>3

(* One that only decides passes the request on as it is.                   *)
Plain == {"maintenance", "jwt", "basicauth", "ipfilter", "geoblock",
          "ratelimitbypath", "redirect", "canary"}

LEMMA PlainTreats ==
    ASSUME PathInv, NEW layer \in Plain
    PROVE  Treats(layer, req)
BY DEF PathInv, PathTypes0, Treats, Plain, Edits

LEMMA Filtering ==
    ASSUME PathInv, Fixed, NEW layer \in Plain, NEW refused, Filter(layer, refused),
           ~refused => Checked(layer)
    PROVE  PathInv'
<1>1. Treats(layer, req) /\ layer # "requestid"
  BY PlainTreats DEF Plain
<1> QED
  BY <1>1, Deciding DEF Filter

(* The filters pass on only what they should. *)
LEMMA FilterSteps ==
    ASSUME PathInv, Fixed,
           \/ Maintenance \/ JWT \/ BasicAuth \/ IPFilter \/ GeoBlock \/ PathLimit
    PROVE  PathInv'
<1>1. /\ lists \subseteq {"allowed", "blocked"}
      /\ req.header["fwd"] \in Marks \union {"none"}
      /\ req.header["country"] \in Marks \union {"none"}
      /\ req.peer \in {"allowed", "blocked", "neither"}
  BY DEF PathInv, PathTypes0, RequestType, HeaderType
<1>2. CASE Maintenance
  BY <1>2, Filtering DEF Maintenance, Checked, Plain
<1>3. CASE JWT
  BY <1>3, Filtering DEF JWT, Checked, Plain
<1>4. CASE BasicAuth
  BY <1>4, Filtering DEF BasicAuth, Checked, Plain
<1>5. CASE IPFilter
  <2> DEFINE address == Address(req.header["fwd"], req.peer)
             refused == \/ Listed(address, "blocked")
                        \/ "allowed" \in lists /\ ~Listed(address, "allowed")
  <2>1. address \in Marks
    BY <1>1 DEF Address, Marks
  <2>2. ~refused => GoodAddress(address)
    BY <2>1 DEF GoodAddress, Listed, Marks
  <2>3. Filter("ipfilter", refused)
    BY <1>5 DEF IPFilter
  <2>4. ~refused => Checked("ipfilter")
    BY <2>2 DEF Checked
  <2> HIDE DEF refused
  <2> QED
    BY <2>3, <2>4, Filtering DEF Plain
<1>6. CASE GeoBlock
  <2> DEFINE country == req.header["country"]
             refused == /\ country # "none"
                        /\ IF "allowed" \in lists THEN ~Listed(country, "allowed")
                                                  ELSE Listed(country, "blocked")
  <2>1. ~refused => GoodCountry(country)
    BY <1>1 DEF GoodCountry, Listed, Marks
  <2>2. Filter("geoblock", refused)
    BY <1>6 DEF GeoBlock
  <2>3. ~refused => Checked("geoblock")
    BY <2>1 DEF Checked
  <2> HIDE DEF refused
  <2> QED
    BY <2>2, <2>3, Filtering DEF Plain
<1>7. CASE PathLimit
  <2>1. PICK full \in BOOLEAN : Filter("ratelimitbypath", full)
    BY <1>7 DEF PathLimit
  <2>2. Checked("ratelimitbypath")
    BY DEF Checked
  <2> QED
    BY <2>1, <2>2, Filtering DEF Plain
<1> QED
  BY <1>2, <1>3, <1>4, <1>5, <1>6, <1>7

(* The layers that read or edit the body make of it what they should.      *)
LEMMA BodySteps ==
    ASSUME PathInv, Fixed, RequestSize \/ BodySize \/ ReqTransform
    PROVE  PathInv'
<1>1. req \in RequestType
  BY DEF PathInv, PathTypes0
<1>2. CASE RequestSize
  <2> DEFINE passed(read) == [req EXCEPT !.size = IF read THEN Rest(req) ELSE @]
             refused(read, long, fields, count) ==
                \/ long
                \/ MaxParams > 0 /\ Parsed(req, read, fields) /\ count > MaxParams
  <2>1. PICK read \in Reads(req), long \in BOOLEAN :
           \E fields \in Fields(req, read) : \E count \in Distinct(req.params, fields) :
              Decide("requestsize", refused(read, long, fields, count), passed(read))
    BY <1>2 DEF RequestSize
  <2>2. PICK fields \in Fields(req, read) : \E count \in Distinct(req.params, fields) :
           Decide("requestsize", refused(read, long, fields, count), passed(read))
    BY <2>1
  <2>3. PICK count \in Distinct(req.params, fields) :
           Decide("requestsize", refused(read, long, fields, count), passed(read))
    BY <2>2
  <2>4. ~refused(read, long, fields, count) => Checked("requestsize")
    BY DEF Checked, Uncounted
  <2>5. Rest(req) \in 0..MaxSize
    <3>1. req.size \in 0..MaxSize
      BY <1>1 DEF RequestType
    <3> QED
      BY <3>1, Limits DEF Rest
  <2>6. /\ passed(read) \in RequestType
        /\ passed(read).size = IF read THEN Rest(req) ELSE req.size
        /\ \A f \in {"header", "peer", "path", "post", "query", "params", "fields",
                     "length", "text", "limit"} : passed(read)[f] = req[f]
    BY <1>1, <2>5 DEF RequestType
  <2> HIDE DEF passed, refused
  <2>7. Treats("requestsize", passed(read))
    BY <2>6 DEF Treats, Edits
  <2> QED
    BY <2>3, <2>4, <2>7, Deciding
<1>3. CASE BodySize
  <2>1. /\ Limited(req) \in RequestType /\ Limited(req).limit = MaxBytes
        /\ \A f \in {"header", "peer", "path", "post", "query", "params", "fields",
                     "size", "length", "text"} : Limited(req)[f] = req[f]
    BY <1>1, Limits DEF RequestType, Limited
  <2>2. Treats("bodysize", Limited(req)) /\ Checked("bodysize")
    BY <2>1 DEF Treats, Edits, Checked
  <2> QED
    BY <1>3, <2>2, Deciding DEF BodySize
<1>4. CASE ReqTransform
  <2>1. PICK n \in 0..MaxSize : Decide("reqtransform", ~Readable(req), Edited(req, n))
    BY <1>4 DEF ReqTransform
  <2>2. /\ Edited(req, n) \in RequestType
        /\ Edited(req, n).text = "edited" /\ Edited(req, n).limit = Unlimited
        /\ \A f \in {"header", "peer", "path", "post", "query", "params", "fields"} :
              Edited(req, n)[f] = req[f]
    <3>1. DOMAIN req = {"header", "peer", "path", "post", "query", "params", "fields",
                        "size", "length", "text", "limit"}
      BY <1>1 DEF RequestType
    <3>2. /\ Edited(req, n).size = n /\ Edited(req, n).length = n
          /\ Edited(req, n).text = "edited" /\ Edited(req, n).limit = Unlimited
      BY <3>1 DEF Edited
    <3>3. \A f \in {"header", "peer", "path", "post", "query", "params", "fields"} :
             Edited(req, n)[f] = req[f]
      BY <3>1 DEF Edited
    <3>4. Edited(req, n) \in RequestType
      <4>1. n \in 0..MaxSize /\ n \in Nat /\ Unlimited \in Nat
        BY Limits
      <4> QED
        BY <1>1, <4>1 DEF RequestType, Edited
    <3> QED
      BY <3>2, <3>3, <3>4
  <2>3. Treats("reqtransform", Edited(req, n)) /\ Checked("reqtransform")
    BY <2>2 DEF Treats, Edits, Checked
  <2> QED
    BY <2>1, <2>3, Deciding
<1> QED
  BY <1>2, <1>3, <1>4

(* Those that edit headers or the path make of these what they should.     *)
LEMMA EditSteps ==
    ASSUME PathInv, Fixed, Sanitize \/ Headers \/ RequestID \/ Rewrite
    PROVE  PathInv'
<1>1. req \in RequestType /\ req.header \in HeaderType
  BY DEF PathInv, PathTypes0, RequestType
<1>2. ASSUME NEW header \in HeaderType
      PROVE  /\ [req EXCEPT !.header = header] \in RequestType
             /\ [req EXCEPT !.header = header].header = header
             /\ \A f \in {"peer", "path", "post", "query", "params", "fields", "size",
                          "length", "text", "limit"} :
                   [req EXCEPT !.header = header][f] = req[f]
  BY <1>1 DEF RequestType
<1>3. CASE Sanitize
  <2> DEFINE stripped == [req EXCEPT !.header = Stripped(req.header)]
  <2>1. PICK odd \in BOOLEAN :
           Decide("sanitize", odd \/ (MaxParams > 0 /\ req.params > MaxParams), stripped)
    BY <1>3 DEF Sanitize
  <2>2. /\ Stripped(req.header) \in HeaderType
        /\ \A h \in HeaderKeys : Stripped(req.header)[h]
                            = IF Edits("sanitize", h) THEN "none" ELSE req.header[h]
    BY <1>1 DEF Stripped, HeaderType, HeaderValues, Edits, HeaderKeys
  <2>3. /\ stripped \in RequestType /\ stripped.header = Stripped(req.header)
        /\ \A f \in {"peer", "path", "post", "query", "params", "fields", "size",
                     "length", "text", "limit"} : stripped[f] = req[f]
    BY <1>2, <2>2
  <2> HIDE DEF stripped
  <2>4. Treats("sanitize", stripped)
    BY <2>2, <2>3 DEF Treats
  <2>5. ~(odd \/ (MaxParams > 0 /\ req.params > MaxParams)) => Checked("sanitize")
    <3>1. req.params \in Nat
      BY <1>1 DEF RequestType
    <3> QED
      BY <3>1, Limits DEF Checked, Few
  <2> QED
    BY <2>1, <2>4, <2>5, Deciding
<1>4. CASE Headers
  <2> DEFINE overwritten == [req EXCEPT !.header = Overwritten(req.header)]
  <2>1. Decide("headers", FALSE, overwritten)
    BY <1>4 DEF Headers
  <2>2. /\ sets \in [HeaderKeys -> HeaderValues \union {"kept"}]
        /\ \A h \in {"fwd", "country"} : sets[h] \in Marks \union {"none", "kept"}
    BY DEF PathInv, PathTypes0
  <2>3. \A h \in HeaderKeys : Overwritten(req.header)[h]
                         = IF Edits("headers", h) THEN sets[h] ELSE req.header[h]
    BY DEF Overwritten, Edits
  <2>4. Overwritten(req.header) \in HeaderType
    <3>1. \A h \in HeaderKeys : sets[h] # "kept" => sets[h] \in HeaderValues
      BY <2>2
    <3>2. /\ Overwritten(req.header) \in [HeaderKeys -> HeaderValues]
      BY <1>1, <3>1 DEF Overwritten, HeaderType
    <3>3. \A h \in {"fwd", "country"} :
             Overwritten(req.header)[h] \in Marks \union {"none"}
      BY <1>1, <2>2 DEF Overwritten, HeaderType, HeaderKeys
    <3> QED
      BY <3>2, <3>3 DEF HeaderType
  <2>5. /\ overwritten \in RequestType /\ overwritten.header = Overwritten(req.header)
        /\ \A f \in {"peer", "path", "post", "query", "params", "fields", "size",
                     "length", "text", "limit"} : overwritten[f] = req[f]
    BY <1>2, <2>4
  <2> HIDE DEF overwritten
  <2>6. Treats("headers", overwritten) /\ Checked("headers")
    BY <2>3, <2>5 DEF Treats, Checked
  <2> QED
    BY <2>1, <2>6, Deciding
<1>5. CASE RequestID
  <2> DEFINE named == [req EXCEPT !.header["id"] = NewID]
             header == [req.header EXCEPT !["id"] = NewID]
  <2>1. /\ Before("requestid") /\ Pass(named) /\ echoed' = NewID
        /\ flag' = flag /\ wasOff' = wasOff
    BY <1>5 DEF RequestID, NewID
  <2>2. /\ header \in HeaderType
        /\ \A h \in HeaderKeys : header[h] = IF h = "id" THEN NewID ELSE req.header[h]
    <3>1. NewID \in HeaderValues
      BY <1>1 DEF NewID, HeaderType, HeaderValues, HeaderKeys
    <3> QED
      BY <1>1, <3>1 DEF HeaderType, HeaderKeys
  <2>3. named = [req EXCEPT !.header = header]
    BY <1>1 DEF RequestType
  <2>4. /\ named \in RequestType /\ named.header = header
        /\ \A f \in {"peer", "path", "post", "query", "params", "fields", "size",
                     "length", "text", "limit"} : named[f] = req[f]
    BY <1>2, <2>2, <2>3
  <2> HIDE DEF named, header
  <2>5. Treats("requestid", named) /\ Checked("requestid")
    BY <2>2, <2>4 DEF Treats, Edits, Checked
  <2> QED
    BY <2>1, <2>5, Passing
<1>6. CASE Rewrite
  <2>1. PICK p \in Paths : Decide("rewrite", FALSE, [req EXCEPT !.path = p])
    BY <1>6 DEF Rewrite
  <2>2. /\ [req EXCEPT !.path = p] \in RequestType
        /\ \A f \in {"header", "peer", "post", "query", "params", "fields", "size",
                     "length", "text", "limit"} : [req EXCEPT !.path = p][f] = req[f]
    BY <1>1 DEF RequestType
  <2>3. Treats("rewrite", [req EXCEPT !.path = p]) /\ Checked("rewrite")
    BY <2>2 DEF Treats, Edits, Checked
  <2> QED
    BY <2>1, <2>3, Deciding
<1> QED
  BY <1>3, <1>4, <1>5, <1>6

(* Whoever has the request has it as the last layer passed it on.          *)
LEMMA SendSteps ==
    ASSUME PathInv, Fixed, Redirect \/ Canary \/ Forward
    PROVE  PathInv'
<1>1. ASSUME NEW layer \in {"redirect", "canary"}, Before(layer), Pass(req), Quiet
      PROVE  PathInv'
  <2>1. Treats(layer, req) /\ Checked(layer)
    BY PlainTreats DEF Plain, Checked
  <2> QED
    BY <1>1, <2>1, Passing DEF Quiet
<1>2. ASSUME NEW to, Send(to), Readable(req),
             to = "canary" => req.length \in {req.size, Unknown}
      PROVE  PathInv'
  <2>1. /\ past' = past /\ req' = req /\ UNCHANGED <<flag, wasOff, echoed>>
        /\ outcome' = to
        /\ got' = [text |-> req.text, size |-> req.size, id |-> req.header["id"]]
    BY <1>2 DEF Send
  <2>2. Delivered'
    BY <1>2, <2>1 DEF Delivered, Readable, Unknown
  <2> QED
    BY <2>1, <2>2, Staying DEF PathInv, PathTypes0
<1>3. CASE Redirect
  BY <1>1, <1>3, Ending DEF Redirect, Quiet
<1>4. CASE Canary
  BY <1>1, <1>2, <1>4, Ending DEF Canary, Fail, Quiet
<1>5. CASE Forward
  BY <1>2, <1>5, Ending DEF Forward, Fail, Quiet
<1> QED
  BY <1>3, <1>4, <1>5

(* No layer admits what it should not, deceives the next one, or loses     *)
(* what it passes on.                                                      *)
LEMMA PathInvStep == PathInv /\ [PathNext]_pathVars => PathInv'
<1> SUFFICES ASSUME PathInv, [PathNext]_pathVars PROVE PathInv'
  OBVIOUS
<1>1. CASE UNCHANGED pathVars
  <2>1. Delivered'
    BY <1>1 DEF pathVars, PathInv, Delivered, Sent, Readable
  <2> QED
    BY <1>1, <2>1, Staying DEF pathVars, PathInv, PathTypes0, Fixed
<1>2. CASE PathNext
  <2>1. Fixed
    BY <1>2 DEF PathNext, Fixed
  <2>2. CASE outcome = "none" /\ Toggle
    <3>1. Delivered'
      BY <2>2 DEF Toggle, Delivered, Sent
    <3> QED
      BY <2>1, <2>2, <3>1, Staying DEF Toggle, PathInv, PathTypes0
  <2> QED
    BY <1>2, <2>1, <2>2, FilterSteps, BodySteps, EditSteps, SendSteps DEF PathNext
<1> QED
  BY <1>1, <1>2

LEMMA PathInvariant == PathSpec => []PathInv
BY PathInvInit, PathInvStep, PTL DEF PathSpec

LEMMA PathInvAdmits == PathInv => OnlyTheAdmitted
BY DEF PathInv, OnlyTheAdmitted, OpenOrOff, KnownUser, GoodClient, GoodAddress,
       GoodCountry, FewParams, Few

(* What is sent has passed each filter by what that one was shown: however *)
(* many layers there are and in whatever order, no layer shows a later one *)
(* anything but what came or what it is configured to set, and no form or  *)
(* query that parses goes uncounted.                                       *)
THEOREM Admission == PathSpec => []OnlyTheAdmitted
BY PathInvariant, PathInvAdmits, PTL

LEMMA PathInvIntact == PathInv => RequestIntact
<1> SUFFICES ASSUME PathInv, Sent PROVE RequestIntact
  BY DEF RequestIntact
<1> DEFINE rest == IF came.size > MaxForm /\ ~After("bodysize", "requestsize")
                      THEN came.size - MaxForm - 1 ELSE 0
           edited == Passed("reqtransform")
<1>1. /\ req.size \in Nat /\ came.size \in Nat /\ req.limit \in Nat
      /\ came.length \in Nat
  BY Limits DEF PathInv, PathTypes0, RequestType
<1>2. /\ got.text = req.text /\ got.size = req.size /\ got.id = req.header["id"]
      /\ req.size <= req.limit
      /\ outcome = "canary" => req.length \in {req.size, Unknown}
  BY DEF PathInv, Delivered, Readable
<1>3. /\ got.text = IF edited THEN "edited" ELSE "own"
      /\ Passed("bodysize") /\ ~After("bodysize", "reqtransform") => got.size <= MaxBytes
  BY <1>2 DEF PathInv, TrueText, TrueLimit
<1>4. ASSUME ~edited
      PROVE  /\ got.size \in {came.size, rest}
             /\ ~MayBeRead => got.size = came.size
             /\ MayBeRead /\ Shown("type", "requestsize") = "form" => got.size = rest
             /\ outcome = "canary" /\ came.length # Unknown => got.size = came.length
  <2>1. /\ req.length = came.length
        /\ ~MayBeRead => req.size = came.size
        /\ MayBeRead => /\ req.size \in {came.size, Remains}
                        /\ Shown("type", "requestsize") = "form" => req.size = Remains
    BY <1>4 DEF PathInv, TrueSize
  <2>2. After("bodysize", "requestsize") => req.limit = MaxBytes
    <3>1. ~After("bodysize", "reqtransform")
      BY <1>4 DEF After, Passed
    <3>2. After("bodysize", "requestsize") => Passed("bodysize")
      BY DEF After, Passed
    <3> QED
      BY <3>1, <3>2 DEF PathInv, TrueLimit
  <2>3. req.size = Remains => Remains = rest
    BY <1>1, <1>2, <2>2, Limits DEF Remains
  <2> QED
    BY <1>2, <2>1, <2>3
<1>5. Passed("requestid") =>
        LET shown == Shown("id", "requestid")
        IN /\ echoed = IF shown = "none" THEN "new" ELSE shown
           /\ \/ got.id = echoed
              \/ \E l \in {"sanitize", "headers"} :
                    After("requestid", l) /\ Edits(l, "id")
  BY <1>2 DEF PathInv, TrueID
<1> QED
  BY <1>3, <1>4, <1>5 DEF RequestIntact

(* However many layers it passes, in whatever order, a request that is     *)
(* sent is the one that came, or what the rules made of it: its body is    *)
(* whole and within the limit set last, but for what ParseForm takes of a  *)
(* form, and it carries the ID that the client is shown.                   *)
THEOREM Integrity == PathSpec => []RequestIntact
BY PathInvariant, PathInvIntact, PTL

-----------------------------------------------------------------------------
(* Somebody has the request exactly when it is sent, which ends it.        *)
OutcomeInv ==
    /\ outcome \in {"none", "refused", "redirected", "failed", "upstream", "canary"}
    /\ got # Nothing => Sent

(* What a step does to the outcome. *)
Decides ==
    /\ outcome = "none"
    /\ \/ UNCHANGED <<outcome, got>>
       \/ outcome' \in {"refused", "redirected", "failed"} /\ got' = got
       \/ outcome' \in {"upstream", "canary"}

LEMMA StepDecides == PathNext => Decides
<1> SUFFICES ASSUME PathNext PROVE Decides
  OBVIOUS
<1>1. ASSUME NEW layer, NEW refused, NEW r, Decide(layer, refused, r)
      PROVE  Decides
  BY <1>1 DEF Decide, Before, Pass, End, Decides
<1>2. CASE Maintenance \/ JWT \/ BasicAuth \/ IPFilter \/ GeoBlock \/ PathLimit
  BY <1>1, <1>2 DEF Maintenance, JWT, BasicAuth, IPFilter, GeoBlock, PathLimit, Filter
<1>3. CASE RequestSize \/ BodySize \/ ReqTransform
  BY <1>1, <1>3 DEF RequestSize, BodySize, ReqTransform
<1>4. CASE Sanitize \/ Headers \/ Rewrite
  BY <1>1, <1>4 DEF Sanitize, Headers, Rewrite
<1>5. CASE RequestID \/ Redirect
  BY <1>5 DEF RequestID, Redirect, Before, Pass, End, Decides
<1>6. CASE Canary \/ Forward
  BY <1>6 DEF Canary, Forward, Send, Fail, Before, Pass, End, Decides
<1>7. CASE outcome = "none" /\ Toggle
  BY <1>7 DEF Toggle, Decides
<1> QED
  BY <1>2, <1>3, <1>4, <1>5, <1>6, <1>7 DEF PathNext

LEMMA OutcomeInvStep == OutcomeInv /\ [PathNext]_pathVars => OutcomeInv'
<1> SUFFICES ASSUME OutcomeInv, [PathNext]_pathVars PROVE OutcomeInv'
  OBVIOUS
<1>1. CASE UNCHANGED pathVars
  BY <1>1 DEF pathVars, OutcomeInv, Sent
<1>2. CASE PathNext
  BY <1>2, StepDecides DEF Decides, OutcomeInv, Sent, Nothing
<1> QED
  BY <1>1, <1>2

(* For any number of layers, the body stays within the bound, and what is  *)
(* sent is recorded with who has it.                                       *)
THEOREM PathTypes == PathSpec => []PathTypeOK
<1>1. PathInit => OutcomeInv
  BY DEF PathInit, Comes, OutcomeInv, Sent
<1>2. PathInv /\ OutcomeInv => PathTypeOK
  <2> SUFFICES ASSUME PathInv, OutcomeInv PROVE PathTypeOK
    OBVIOUS
  <2>1. past \in 0..Len(route) /\ flag \in BOOLEAN /\ wasOff \in BOOLEAN
    BY DEF PathInv, PathTypes0, EachLayerOnce
  <2>2. req.size \in 0..MaxSize
    BY DEF PathInv, PathTypes0, RequestType
  <2>3. req.limit \in {MaxBytes, Unlimited}
    BY DEF PathInv, TrueLimit
  <2> QED
    BY <2>1, <2>2, <2>3 DEF OutcomeInv, Sent, PathTypeOK
<1> QED
  BY <1>1, <1>2, PathInvariant, OutcomeInvStep, PTL DEF PathSpec
=============================================================================
