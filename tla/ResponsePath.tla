----------------------------- MODULE ResponsePath -----------------------------
(***************************************************************************)
(* The wrappers that middlewares put around the ResponseWriter of one      *)
(* request, nested in any order: some look on (the loggers), some change   *)
(* headers, some hold the response back and change it.  A handler writes   *)
(* statuses and pieces of a body, and returns or panics; what it writes    *)
(* goes outwards through the wrappers, then they return, or are unwound,   *)
(* from the inside.  Outside is net/http, which sends the headers with the *)
(* first status or piece.                                                  *)
(***************************************************************************)
EXTENDS Naturals, Sequences

CONSTANTS
    MaxWrappers, \* bound on the number of wrappers
    MinPieces    \* cfg.MinLength of the compression, in pieces

ASSUME WrapperAssumption == MaxWrappers \in Nat /\ MinPieces \in Nat

Wrappers == {"log", "headers", "transform", "proxyerror", "compress", "upstream",
             "recovery"}

VARIABLES
    nest,    \* the wrappers, the outermost first
    matches, \* transform: the Content-Type is one of cfg.ContentTypes
    pieces,  \* the length of the handler's body: a short or a long one
    written, \* the pieces it has written, ...
    calls,   \* ... and how often it has set a status, with its first piece too
    mode,    \* "running", "panicking", "returning" or "over"
    inside,  \* how many wrappers have not returned
    io,      \* what the writers keep and what was sent, see RespTypeOK
    panic    \* history: "none", "early", or "late", when the response had begun

respVars == <<nest, matches, pieces, written, calls, mode, inside, io, panic>>

Places == 1..Len(nest)
Statuses == {"ok", "bad"}
Names == {"length", "encoding", "added", "unwanted", "latency", "error"}
None == [status |-> "none", body |-> <<>>, form |-> {}]

Message == [status : Statuses \union {"none", "500"},
            body   : Seq({"piece", "message"}),
            form   : SUBSET {"gzip", "edited"}]

(* hdr[k] is what is set in the header map of net/http (0) or of the       *)
(* recorder of wrapper k; held[k] the status, and the body with what was   *)
(* done to it, that wrapper k keeps; open[k] its committed, or             *)
(* headersWritten; logged[k] the status it logged; wire and head are what  *)
(* net/http sent.                                                          *)
Writers == [hdr    : [0..Len(nest) -> SUBSET Names],
            held   : [Places -> Message],
            open   : [Places -> BOOLEAN],
            logged : [Places -> Statuses \union {"none", "500"}],
            wire   : Message,
            head   : SUBSET Names]

RespTypeOK ==
    /\ nest \in Seq(Wrappers)
    /\ matches \in BOOLEAN
    /\ pieces \in Nat /\ written \in 0..pieces
    /\ calls \in 0..2
    /\ mode \in {"running", "panicking", "returning", "over"}
    /\ inside \in 0..Len(nest)
    /\ io \in Writers
    /\ panic \in {"none", "early", "late"}
    /\ io.wire.status = "none" => io.wire = None /\ io.head = {}

Nests ==
    UNION {{s \in [1..n -> Wrappers] : \A i, j \in 1..n : s[i] = s[j] => i = j} :
             n \in 0..MaxWrappers}

(* The innermost of some places, 0 for none. *)
Innermost(S) == IF S = {} THEN 0 ELSE CHOOSE j \in S : \A i \in S : i <= j

(* The header map that a handler under wrapper k is given. *)
Map(k) == Innermost({j \in 1..k : nest[j] = "proxyerror"})

(* A handler is called under wrappers that are nested in one of these ways.*)
Called(nests) ==
    /\ nest \in nests
    /\ matches \in IF \E k \in Places : nest[k] = "transform" THEN BOOLEAN ELSE {TRUE}
    /\ pieces \in {1, MinPieces + 1}
    /\ written = 0
    /\ calls = 0
    /\ mode = "running"
    /\ inside = Len(nest)
    /\ \E set \in {{}, {"length", "unwanted"}} :
          io = [hdr    |-> [k \in 0..Len(nest) |-> IF k = Map(Len(nest)) THEN set ELSE {}],
                held   |-> [k \in Places |-> None],
                open   |-> [k \in Places |-> FALSE],
                logged |-> [k \in Places |-> "none"],
                wire   |-> None,
                head   |-> {}]
    /\ panic = "none"

RespInit == Called(Nests)

-----------------------------------------------------------------------------
(* What the writers do, as functions of io. *)
Change(s, k, removed, added) ==
    [s EXCEPT !.hdr[Map(k)] = (@ \ removed) \union added]

Default(s, k) == IF s.held[k].status = "none" THEN "ok" ELSE s.held[k].status

(* The writer that a status from under wrapper k comes to, and the one     *)
(* that a body comes to: the compression, once committed, passes it on.    *)
Keeper(k) ==
    Innermost({j \in 1..k : nest[j] \in {"transform", "proxyerror", "compress"}})

Holder(s, k) ==
    Innermost({j \in 1..k : \/ nest[j] \in {"transform", "proxyerror"}
                            \/ nest[j] = "compress" /\ ~s.open[j]})

(* applyHeaders of the headers middleware, once, if it is passed on the    *)
(* way from under wrapper k to writer j.                                   *)
Apply(s, j, k) ==
    LET due == {i \in j + 1..k : nest[i] = "headers" /\ ~s.open[i]}
    IN IF due = {} THEN s
       ELSE [Change(s, k, {"unwanted"}, {"added"})
               EXCEPT !.open = [i \in Places |-> @[i] \/ i \in due]]

(* net/http: the first status, implicit with a piece, sends the headers. *)
Begin(s, status) ==
    IF s.wire.status = "none"
       THEN [s EXCEPT !.wire.status = status, !.head = s.hdr[0]] ELSE s

(* w.WriteHeader(status), w being the writer that wrapper k passes down:   *)
(* the loggers on the way keep it, and so does the writer it comes to.     *)
PutStatus(s, k, status) ==
    LET j == Keeper(k)
        keep == {i \in Places :
                   /\ j <= i /\ i <= k
                   /\ \/ nest[i] \in {"log", "transform", "compress"}
                      \/ nest[i] = "proxyerror" /\ s.held[i].status = "none"}
        t == [Apply(s, j, k) EXCEPT
                !.held = [i \in Places |->
                            IF i \in keep THEN [@[i] EXCEPT !.status = status]
                                          ELSE @[i]]]
    IN IF j = 0 THEN Begin(t, status) ELSE t

(* Writer k gets a body to which "form" has been done. *)
Hold(s, k, body, form) ==
    IF k = 0
       THEN [Begin(s, "ok") EXCEPT !.wire.body = @ \o body, !.wire.form = @ \union form]
       ELSE [s EXCEPT !.held[k].body = @ \o body, !.held[k].form = @ \union form,
                      !.held[k].status = IF nest[k] = "proxyerror" THEN Default(s, k)
                                                                  ELSE @]

Deliver(s, k, body, form) ==
    LET j == Holder(s, k)
        gzip == IF \E i \in j + 1..k : nest[i] = "compress" THEN {"gzip"} ELSE {}
    IN Hold(Apply(s, j, k), j, body, form \union gzip)

(* Mutant of Committed: Content-Length is left alone. *)
CommittedWithLength(s, k, full) ==
    LET t == [Change(s, k, {}, IF full THEN {"encoding"} ELSE {})
                EXCEPT !.open[k] = TRUE]
    IN IF t.held[k].status = "none" THEN t ELSE PutStatus(t, k - 1, t.held[k].status)

(* commit of the compression: its buffer is full, or never will be. *)
Committed(s, k, full) ==
    LET t == [(IF full THEN Change(s, k, {"length"}, {"encoding"}) ELSE s)
                EXCEPT !.open[k] = TRUE]
    IN IF t.held[k].status = "none" THEN t ELSE PutStatus(t, k - 1, t.held[k].status)

(* What it has buffered goes on (to no other compression). *)
Released(s, k, full) ==
    Deliver(Committed(s, k, full), k - 1, s.held[k].body,
            s.held[k].form \union IF full THEN {"gzip"} ELSE {})

(* w.Write(body), which may fill the buffer of the compression. *)
PutBody(s, k, body, form) ==
    LET j == Holder(s, k)
        t == Deliver(s, k, body, form)
    IN IF j > 0 /\ nest[j] = "compress" /\ Len(t.held[j].body) >= MinPieces
          THEN Released(t, j, TRUE) ELSE t

(* What a wrapper does when the handler under it has returned. *)
Replay(s, k, form) ==
    PutBody(PutStatus(s, k - 1, Default(s, k)), k - 1, s.held[k].body,
            s.held[k].form \union form)

Log(s, k) == [s EXCEPT !.logged[k] = Default(s, k)]

Transform(s, k) ==
    IF matches THEN Replay(Change(s, k, {"length"}, {}), k, {"edited"})
               ELSE Replay(s, k, {})

ProxyError(s, k) ==
    LET error == IF Default(s, k) = "bad" THEN {"error"} ELSE {}
    IN Replay(Change(s, k - 1, {}, s.hdr[k] \union error), k, {})

(* The deferred flush of the compression. *)
Flush(s, k) ==
    IF s.open[k] THEN s ELSE Released(s, k, FALSE)

Returned(s, k) ==
    CASE nest[k] = "log" -> Log(s, k)
      [] nest[k] = "transform" -> Transform(s, k)
      [] nest[k] = "proxyerror" -> ProxyError(s, k)
      [] nest[k] = "compress" -> Flush(s, k)
      [] nest[k] = "upstream" -> Change(s, k - 1, {}, {"latency"})
      [] OTHER -> s

-----------------------------------------------------------------------------
WriteHeader(status) ==
    /\ mode = "running"
    /\ calls < 2
    /\ calls' = calls + 1
    /\ io' = PutStatus(io, Len(nest), status)
    /\ UNCHANGED <<nest, matches, pieces, written, mode, inside, panic>>

Write ==
    /\ mode = "running"
    /\ written < pieces
    /\ written' = written + 1
    /\ calls' = IF calls = 0 THEN 1 ELSE calls
    /\ io' = PutBody(io, Len(nest), <<"piece">>, {})
    /\ UNCHANGED <<nest, matches, pieces, mode, inside, panic>>

(* The handler returns: with all of its body written, or not, when a copy  *)
(* has failed.                                                             *)
Finish ==
    /\ mode = "running"
    /\ mode' = "returning"
    /\ UNCHANGED <<nest, matches, pieces, written, calls, inside, io, panic>>

(* The response has begun when the client has its status, a recorder that  *)
(* keeps the first one, or the compression has settled it.                 *)
Begun ==
    \/ io.wire.status # "none"
    \/ \E k \in Places : nest[k] = "proxyerror" /\ io.held[k].status # "none"
    \/ \E k \in Places : nest[k] = "compress" /\ io.open[k]

Panic ==
    /\ mode = "running"
    /\ mode' = "panicking"
    /\ panic' = IF Begun THEN "late" ELSE "early"
    /\ UNCHANGED <<nest, matches, pieces, written, calls, inside, io>>

Return ==
    /\ mode = "returning"
    /\ inside > 0
    /\ io' = Returned(io, inside)
    /\ inside' = inside - 1
    /\ UNCHANGED <<nest, matches, pieces, written, calls, mode, panic>>

(* The panic reaches a wrapper: what it has deferred is run, ... *)
Unwind ==
    /\ mode = "panicking"
    /\ inside > 0
    /\ nest[inside] # "recovery"
    /\ io' = IF nest[inside] = "compress" THEN Flush(io, inside) ELSE io
    /\ inside' = inside - 1
    /\ UNCHANGED <<nest, matches, pieces, written, calls, mode, panic>>

(* Mutant of Recover: it says nothing to the client. *)
RecoverSilently ==
    /\ mode = "panicking"
    /\ inside > 0
    /\ nest[inside] = "recovery"
    /\ mode' = "returning"
    /\ inside' = inside - 1
    /\ UNCHANGED <<nest, matches, pieces, written, calls, io, panic>>

(* ... and the recovery ends it with an error of its own.  (Whether        *)
(* http.Error also takes Content-Length back depends on the version of Go.)*)
Recover ==
    /\ mode = "panicking"
    /\ inside > 0
    /\ nest[inside] = "recovery"
    /\ mode' = "returning"
    /\ io' = PutBody(PutStatus(io, inside - 1, "500"), inside - 1, <<"message">>, {})
    /\ inside' = inside - 1
    /\ UNCHANGED <<nest, matches, pieces, written, calls, panic>>

(* net/http: an empty response is a 200; a panic ends the connection. *)
Over ==
    /\ mode \in {"returning", "panicking"}
    /\ inside = 0
    /\ io' = IF mode = "returning" THEN Begin(io, "ok") ELSE io
    /\ mode' = "over"
    /\ UNCHANGED <<nest, matches, pieces, written, calls, inside, panic>>

RespNext ==
    \/ \E s \in Statuses : WriteHeader(s)
    \/ Write \/ Finish \/ Panic
    \/ Return \/ Unwind \/ Recover \/ Over

RespSpec == RespInit /\ [][RespNext]_respVars

-----------------------------------------------------------------------------
(* Some wrapper under k lets one status through only. *)
Buffered(k) == \E j \in Places : j > k /\ nest[j] \in {"transform", "compress", "proxyerror"}

FlushedBeforeRecovery ==
    \E j, k \in Places : j < k /\ nest[j] = "recovery" /\ nest[k] = "compress"

(* The status that the client has is the one that is logged, and tells of  *)
(* a recovered panic.  The exceptions: of two statuses that a handler      *)
(* writes, the loggers keep the last and net/http the first; a panic is    *)
(* logged as 500 although the response had begun, or the compression has   *)
(* flushed what it had, or a 200, on the way to the recovery.              *)
TrueStatus ==
    mode = "over" =>
      /\ \A k \in Places :
           io.logged[k] \notin {"none", io.wire.status} =>
               \/ calls > 1 /\ ~Buffered(k)
               \/ panic = "late"
               \/ panic = "early" /\ FlushedBeforeRecovery
      /\ panic = "early" /\ (\E k \in Places : nest[k] = "recovery")
         => io.wire.status = "500" \/ FlushedBeforeRecovery

(* The headers sent are true of the body sent, whatever wraps whatever:    *)
(* a length is given only if the body is the whole one it was given for,   *)
(* the encoding says whether it is compressed, an error is announced only  *)
(* with its status.  The configured headers are set and removed in every   *)
(* response that was written.                                              *)
HonestHead ==
    mode = "over" /\ panic = "none" =>
      /\ "length" \in io.head /\ written = pieces
         => io.wire.form = {} /\ Len(io.wire.body) = pieces
      /\ "encoding" \in io.head <=> "gzip" \in io.wire.form
      /\ "error" \in io.head => io.wire.status = "bad"
      /\ (\E k \in Places : nest[k] = "headers") /\ calls > 0
         => "added" \in io.head /\ "unwanted" \notin io.head
=============================================================================
