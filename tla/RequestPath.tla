----------------------------- MODULE RequestPath -----------------------------
(***************************************************************************)
(* The filters and rewriters of internal/middleware on the way of one      *)
(* request to upstream, in any order in which they may be nested.  Each    *)
(* answers the request or passes it on, changed or not: what a layer does  *)
(* to it is what the layers below it look at.                              *)
(*                                                                         *)
(* A request is what the layers tell apart.  An address or a country is    *)
(* "allowed", "blocked", "both" or "neither" by the lists of the filters;  *)
(* a path is "open" (maintenance lets it pass), "old" (it has a rule of    *)
(* redirection) or "new".                                                  *)
(***************************************************************************)
EXTENDS Naturals, Sequences

CONSTANTS
    Depth,    \* bound on the number of layers
    MaxSize,  \* bound on the length of a body
    MaxBytes, \* bodysize: cfg.MaxBytes
    MaxForm,  \* the limit of ParseForm for a body that has none: 10 MB
    MaxParams \* requestsize, sanitize: cfg.MaxQueryParams, 0 for no limit

ASSUME PathAssumption ==
    {Depth, MaxSize, MaxBytes, MaxForm, MaxParams} \subseteq Nat

(* The layers by what they look at and change: the body, the address, the  *)
(* country, the path, or the credentials and the ID.  Those of different   *)
(* concerns do not meet.                                                   *)
Concerns ==
    {{"requestsize", "bodysize", "reqtransform", "sanitize", "headers", "canary"},
     {"ipfilter", "sanitize", "headers"},
     {"geoblock", "sanitize", "headers"},
     {"maintenance", "redirect", "rewrite", "ratelimitbypath"},
     {"jwt", "basicauth", "requestid", "sanitize", "headers"}}

VARIABLES
    route,   \* the layers, the outermost first
    lists,   \* the lists that ipfilter and geoblock are given
    strips,  \* the headers that sanitize removes
    sets,    \* what the headers layer makes of a header
    came,    \* the request as it came
    req,     \* the request as the next layer gets it
    past,    \* the number of layers it has passed
    flag,    \* maintenance: cfg.Enabled
    wasOff,  \* history: the flag was off at some moment since the request came
    echoed,  \* X-Request-ID of the response
    outcome, \* "none", "refused", "redirected", "failed" (its body could not
             \* be sent), or who has it: "upstream" or "canary"
    got      \* what they have

config == <<route, lists, strips, sets>>
pathVars == <<config, came, req, past, flag, wasOff, echoed, outcome, got>>

Marks == {"allowed", "blocked", "both", "neither"}
Paths == {"open", "old", "new"}

Unknown == MaxSize + 1              \* no Content-Length
Unlimited == MaxSize + MaxBytes + 1 \* the body is no http.MaxBytesReader
Malformed == MaxParams + 2          \* the fields of a body that is no form

LayersOf(s) == {s[i] : i \in DOMAIN s}

(* The values of an attribute that is of interest to some layer. *)
If(seen, values, default) == IF seen THEN values ELSE {default}

(* The headers that layers look at: X-Forwarded-For, the country,          *)
(* X-Request-ID, Authorization (a valid one of its kind, or of no use) and *)
(* Content-Type ("form"; "odd", which does not parse; or none of a form).  *)
HeaderKeys == {"fwd", "country", "id", "auth", "type"}

Readers == [fwd |-> {"ipfilter"}, country |-> {"geoblock"}, id |-> {"requestid"},
            auth |-> {"jwt", "basicauth"}, type |-> {"requestsize"}]

Looked(ls) == {h \in HeaderKeys : Readers[h] \intersect ls # {}}

(* Every header of names with one of its values, or one of the others.     *)
Headings(names, others, default) ==
    LET of(h, values) == If(h \in names, values \union others, default)
    IN [fwd     : of("fwd", Marks),
        country : of("country", Marks),
        id      : of("id", {"id1", "id2"}),
        auth    : of("auth", {"basic", "token"}),
        type    : of("type", {"form", "odd"})]

Forms == 0..MaxParams + 1 \union {Malformed}

(* What a request can be, for the layers ls.  Parameters and fields are    *)
(* counted by their distinct names; a method with "post" is one whose body *)
(* ParseForm reads.                                                        *)
Incoming(ls) ==
    LET sized == ls \intersect {"requestsize", "bodysize", "reqtransform"} # {}
    IN [header : Headings(Looked(ls), {"none"}, "none"),
        peer   : If("ipfilter" \in ls, {"allowed", "blocked"}, "neither"),
        path   : If(ls \intersect {"maintenance", "redirect"} # {}, Paths, "new"),
        post   : If("requestsize" \in ls, BOOLEAN, FALSE),
        query  : If("requestsize" \in ls, {"good", "bad"}, "good"),
        params : If(ls \intersect {"sanitize", "requestsize"} # {},
                    0..MaxParams + 1, 0),
        fields : If("requestsize" \in ls, Forms, 0),
        size   : If(sized, 0..MaxSize, MaxSize),
        length : If(ls \intersect {"bodysize", "canary"} # {} /\ sized,
                    0..MaxSize \union {Unknown}, Unknown),
        text   : {"own"},
        limit  : {Unlimited}]

(* The fields of a form are in its body, and a length that is given is     *)
(* that of the body.  What no layer would count does not matter: it is 0.  *)
Possible(r) ==
    /\ r.size = 0 => r.fields = 0
    /\ ~r.post => r.fields = 0 /\ r.header["type"] = "none"
    /\ "form" \notin {r.header["type"], sets["type"]} => r.fields = 0
    /\ r.query = "bad" /\ "sanitize" \notin LayersOf(route) => r.params = 0
    /\ r.length \in {r.size, Unknown}

Orders(layers, n) ==
    {s \in [1..n -> layers] : \A i, j \in 1..n : s[i] = s[j] => i = j}

Routes == UNION {Orders(c, n) : c \in Concerns, n \in 0..Depth}

Nothing == [text |-> "none", size |-> 0, id |-> "none"]

PathTypeOK ==
    /\ past \in 0..Len(route)
    /\ flag \in BOOLEAN /\ wasOff \in BOOLEAN
    /\ req.size \in 0..MaxSize
    /\ req.limit \in {MaxBytes, Unlimited}
    /\ outcome \in {"none", "refused", "redirected", "failed", "upstream", "canary"}
    /\ got # Nothing => outcome \in {"upstream", "canary"}

(* A request comes to layers that are nested in one of these ways. *)
Comes(routes) ==
    /\ route \in routes
    /\ LET ls == LayersOf(route)
           edited(layer) == IF layer \in ls THEN Looked(ls) ELSE {}
       IN /\ lists \in IF ls \intersect {"ipfilter", "geoblock"} = {}
                           THEN {{}} ELSE SUBSET {"allowed", "blocked"}
          /\ strips \in SUBSET edited("sanitize")
          /\ sets \in Headings(edited("headers"), {"kept", "none"}, "kept")
          /\ came \in Incoming(ls)
          /\ flag \in If("maintenance" \in ls, BOOLEAN, FALSE)
    /\ Possible(came)
    /\ req = came
    /\ past = 0
    /\ wasOff = ~flag
    /\ echoed = "none"
    /\ outcome = "none"
    /\ got = Nothing

PathInit == Comes(Routes)

-----------------------------------------------------------------------------
Before(layer) ==
    /\ outcome = "none"
    /\ past < Len(route)
    /\ route[past + 1] = layer

Pass(r) ==
    /\ past' = past + 1
    /\ req' = r
    /\ UNCHANGED <<outcome, got>>

End(how) ==
    /\ outcome' = how
    /\ UNCHANGED <<past, req, got>>

(* A layer that decides, and passes the request on as r. *)
Decide(layer, refused, r) ==
    /\ Before(layer)
    /\ IF refused THEN End("refused") ELSE Pass(r)
    /\ UNCHANGED <<flag, wasOff, echoed>>

Filter(layer, refused) == Decide(layer, refused, req)

Maintenance == Filter("maintenance", flag /\ req.path # "open")

(* A header has room for one kind of credentials. *)
JWT == Filter("jwt", req.header["auth"] # "token")
BasicAuth == Filter("basicauth", req.header["auth"] # "basic")

(* Is the marked one in a list that is given? *)
Listed(mark, list) == list \in lists /\ mark \in {list, "both"}

Address(fwd, peer) == IF fwd # "none" THEN fwd ELSE peer

(* The list of blocked addresses is looked at first ... *)
IPFilter ==
    LET address == Address(req.header["fwd"], req.peer)
    IN Filter("ipfilter",
              \/ Listed(address, "blocked")
              \/ "allowed" \in lists /\ ~Listed(address, "allowed"))

(* Mutant of GeoBlock: the blocked ones are looked at first here too.      *)
GeoBlockBlockedFirst ==
    LET country == req.header["country"]
    IN Filter("geoblock",
              /\ country # "none"
              /\ \/ Listed(country, "blocked")
                 \/ lists = {"allowed"} /\ ~Listed(country, "allowed"))

(* ... and that of blocked countries only if none of allowed ones is given.*)
GeoBlock ==
    LET country == req.header["country"]
    IN Filter("geoblock",
              /\ country # "none"
              /\ IF "allowed" \in lists THEN ~Listed(country, "allowed")
                                        ELSE Listed(country, "blocked"))

(* The limiter of the path's rule, or the fallback, may refuse at any time.*)
PathLimit == \E full \in BOOLEAN : Filter("ratelimitbypath", full)

Readable(r) == r.size <= r.limit

(* Can ParseForm read the body?  Of a form it does; a Content-Type that    *)
(* does not parse is an error, and may be one of a form nevertheless.      *)
Reads(r) ==
    IF MaxParams = 0 \/ ~r.post \/ r.header["type"] = "none" THEN {FALSE}
    ELSE IF r.header["type"] = "form" THEN {TRUE} ELSE BOOLEAN

(* What it leaves of a body that it reads: of one without a limit it reads *)
(* one byte more than its own limit, and one under a limit fails for good. *)
Rest(r) ==
    IF r.limit = Unlimited THEN IF r.size > MaxForm THEN r.size - MaxForm - 1 ELSE 0
    ELSE IF Readable(r) THEN 0 ELSE r.size

(* The fields of the form that it reads, if it does: edited by the rules,  *)
(* a body may be any form, or none.                                        *)
Fields(r, read) ==
    IF ~read \/ r.size = 0 THEN {0} ELSE IF r.text = "own" THEN {r.fields} ELSE Forms

(* It returns no error. *)
Parsed(r, read, fields) ==
    /\ r.query = "good"
    /\ r.post => r.header["type"] # "odd"
    /\ read => r.size <= IF r.limit = Unlimited THEN MaxForm ELSE r.limit
    /\ fields # Malformed

(* The number of names that parameters and fields have together. *)
Distinct(params, fields) == {n \in params..params + fields : n >= fields}

(* The body that was read for a form is not put back; after an error       *)
(* nothing is counted.  The URI or the headers may be too long.            *)
RequestSize ==
    \E read \in Reads(req), long \in BOOLEAN :
    \E fields \in Fields(req, read) : \E count \in Distinct(req.params, fields) :
        Decide("requestsize",
               \/ long
               \/ MaxParams > 0 /\ Parsed(req, read, fields) /\ count > MaxParams,
               [req EXCEPT !.size = IF read THEN Rest(req) ELSE @])

(* Mutant of Limited: the body ends at the limit without an error.         *)
LimitedCut(r) ==
    [r EXCEPT !.size = IF r.size > MaxBytes THEN MaxBytes ELSE r.size]

(* The body under an http.MaxBytesReader. *)
Limited(r) == [r EXCEPT !.limit = MaxBytes]

BodySize ==
    Decide("bodysize", req.length # Unknown /\ req.length > MaxBytes, Limited(req))

Edited(r, n) ==
    [r EXCEPT !.size = n, !.length = n, !.text = "edited", !.limit = Unlimited]

(* The body is read, edited by the rules to anything, and put back; one    *)
(* that cannot be read is answered with a 400.                             *)
ReqTransform ==
    \E n \in 0..MaxSize : Decide("reqtransform", ~Readable(req), Edited(req, n))

Stripped(header) == [h \in HeaderKeys |-> IF h \in strips THEN "none" ELSE header[h]]

(* The method may be one that is not allowed. *)
Sanitize ==
    \E odd \in BOOLEAN :
        Decide("sanitize", odd \/ (MaxParams > 0 /\ req.params > MaxParams),
               [req EXCEPT !.header = Stripped(@)])

(* What is removed and set too is set. *)
Overwritten(header) ==
    [h \in HeaderKeys |-> IF sets[h] = "kept" THEN header[h] ELSE sets[h]]

Headers == Decide("headers", FALSE, [req EXCEPT !.header = Overwritten(@)])

(* The ID of the client is kept; it is echoed, also when a layer below     *)
(* answers.                                                                *)
RequestID ==
    LET came_id == req.header["id"]
        id == IF came_id = "none" THEN "new" ELSE came_id
    IN /\ Before("requestid")
       /\ Pass([req EXCEPT !.header["id"] = id])
       /\ echoed' = id
       /\ UNCHANGED <<flag, wasOff>>

(* The rules and the prefix may make any path of any other. *)
Rewrite == \E p \in Paths : Decide("rewrite", FALSE, [req EXCEPT !.path = p])

Redirect ==
    /\ Before("redirect")
    /\ IF req.path = "old" THEN End("redirected") ELSE Pass(req)
    /\ UNCHANGED <<flag, wasOff, echoed>>

(* The body is sent to one of the two. *)
Send(to) ==
    /\ outcome' = to
    /\ got' = [text |-> req.text, size |-> req.size, id |-> req.header["id"]]
    /\ UNCHANGED <<past, req, flag, wasOff, echoed>>

Fail == End("failed") /\ UNCHANGED <<flag, wasOff, echoed>>

(* By its header or by chance the request goes to the canary, through a    *)
(* reverse proxy that keeps Content-Length, or it goes on.                 *)
Canary ==
    /\ Before("canary")
    /\ \/ Pass(req) /\ UNCHANGED <<flag, wasOff, echoed>>
       \/ IF Readable(req) /\ req.length \in {req.size, Unknown}
             THEN Send("canary") ELSE Fail

(* Past all layers, the proxy sends what it can read, without a length. *)
Forward ==
    /\ outcome = "none"
    /\ past = Len(route)
    /\ IF Readable(req) THEN Send("upstream") ELSE Fail

(* An operator switches the maintenance mode, at any time. *)
Toggle ==
    /\ "maintenance" \in LayersOf(route)
    /\ flag' = ~flag
    /\ wasOff' = (wasOff \/ flag)
    /\ UNCHANGED <<past, req, echoed, outcome, got>>

PathNext ==
    /\ \/ Maintenance \/ JWT \/ BasicAuth \/ IPFilter \/ GeoBlock
       \/ PathLimit \/ RequestSize \/ BodySize \/ ReqTransform
       \/ Sanitize \/ Headers \/ RequestID \/ Rewrite \/ Redirect
       \/ Canary \/ Forward
       \/ outcome = "none" /\ Toggle
    /\ UNCHANGED <<config, came>>

PathSpec == PathInit /\ [][PathNext]_pathVars

-----------------------------------------------------------------------------
Sent == outcome \in {"upstream", "canary"}
Passed(layer) == \E i \in 1..past : route[i] = layer
After(l, k) == \E i, j \in 1..past : i < j /\ route[i] = l /\ route[j] = k

Edits(layer, h) ==
    \/ layer = "sanitize" /\ h \in strips
    \/ layer = "headers" /\ sets[h] # "kept"

(* What the passed layer was shown of header h: what the innermost of the  *)
(* layers above it that edit h made of it.                                 *)
Shown(h, layer) ==
    LET stripped == After("sanitize", layer) /\ Edits("sanitize", h)
        set == After("headers", layer) /\ Edits("headers", h)
    IN IF set /\ (stripped => After("sanitize", "headers")) THEN sets[h]
       ELSE IF stripped THEN "none" ELSE came.header[h]

(* ParseForm was called, and whether it reads the body is not certain only *)
(* of a Content-Type that does not parse.                                  *)
MayBeRead ==
    /\ Passed("requestsize") /\ MaxParams > 0 /\ came.post
    /\ Shown("type", "requestsize") # "none"

(* What is sent is whole: it is the body that came, or what the rules made *)
(* of it, within the limit set last.  A body that is too long without      *)
(* saying so is never cut off silently: it loses bytes only to ParseForm,  *)
(* which takes all of it up to a limit, and a canary that is promised a    *)
(* length does not get less.  The client is shown the ID that is sent, its *)
(* own one if a layer above has not changed that.                          *)
RequestIntact ==
    Sent =>
      LET edited == Passed("reqtransform")
          rest == IF came.size > MaxForm /\ ~After("bodysize", "requestsize")
                     THEN came.size - MaxForm - 1 ELSE 0
          shown == Shown("id", "requestid")
      IN /\ got.text = IF edited THEN "edited" ELSE "own"
         /\ ~edited => got.size \in {came.size, rest}
         /\ ~edited /\ ~MayBeRead => got.size = came.size
         /\ ~edited /\ MayBeRead /\ Shown("type", "requestsize") = "form"
            => got.size = rest
         /\ Passed("bodysize") /\ ~After("bodysize", "reqtransform")
            => got.size <= MaxBytes
         /\ outcome = "canary" /\ ~edited /\ came.length # Unknown
            => got.size = came.length
         /\ Passed("requestid") =>
               /\ echoed = IF shown = "none" THEN "new" ELSE shown
               /\ \/ got.id = echoed
                  \/ \E l \in {"sanitize", "headers"} :
                        After("requestid", l) /\ Edits(l, "id")

(* ParseForm cannot but succeed. *)
Parsable ==
    LET type == Shown("type", "requestsize")
    IN /\ came.query = "good"
       /\ \/ ~came.post \/ type = "none"
          \/ /\ type = "form" /\ came.fields # Malformed
             /\ ~After("reqtransform", "requestsize")
             /\ came.size <= IF After("bodysize", "requestsize") THEN MaxBytes ELSE MaxForm

(* What is sent was admissible to each layer it has passed: by what came,  *)
(* or else by what the configured layers above had made of it.             *)
OnlyTheAdmitted ==
    Sent =>
      LET address == Address(Shown("fwd", "ipfilter"), came.peer)
          country == Shown("country", "geoblock")
          path == IF After("rewrite", "maintenance") THEN req.path ELSE came.path
          few(n) == n <= MaxParams \/ MaxParams = 0
      IN /\ Passed("maintenance") => wasOff \/ path = "open"
         /\ Passed("jwt") => Shown("auth", "jwt") = "token"
         /\ Passed("basicauth") => Shown("auth", "basicauth") = "basic"
         /\ Passed("ipfilter") =>
               /\ "blocked" \in lists => address \in {"allowed", "neither"}
               /\ "allowed" \in lists => address \in {"allowed", "both"}
         /\ Passed("geoblock") /\ country # "none" =>
               /\ "allowed" \in lists => country \in {"allowed", "both"}
               /\ lists = {"blocked"} => country \in {"allowed", "neither"}
         /\ Passed("sanitize") => few(came.params)
         /\ Passed("requestsize") /\ Parsable =>
               few(came.params) /\ (MayBeRead => few(came.fields))
=============================================================================
