------------------------------- MODULE Compress -------------------------------
(***************************************************************************)
(* The gzip writer of internal/middleware/compress.go, one per request,    *)
(* with the code that writes to it: copyResponse of internal/proxy, whose  *)
(* io.Copy passes the upstream body on in the pieces in which the network  *)
(* delivers them, and stops when Write reports another number of bytes     *)
(* than it was given.                                                      *)
(*                                                                         *)
(* Bytes are counted: the writers keep them in order.  The pool gives a    *)
(* gzip.Writer to one request at a time and is left out.                   *)
(***************************************************************************)
EXTENDS Naturals

CONSTANTS
    MinLength, \* cfg.MinLength
    MaxLength  \* bound on the length of a body

ConfigOK == MinLength \in Nat /\ MaxLength \in Nat

VARIABLES
    length,    \* the length of the upstream body
    copied,    \* the bytes that io.Copy has taken from it and written
    pc,        \* the handler: "head", "body", "broken" (io.Copy gave up),
               \* "panicked" or "done", when the deferred flush has run
    status,    \* g.status, 0 if not set
    buf,       \* len(g.buf)
    committed, \* g.committed
    head,      \* the header sent: its status, 0 before, and the encoding
    sent       \* body bytes sent, before compression

vars == <<length, copied, pc, status, buf, committed, head, sent>>

TypeOK ==
    /\ length \in 0..MaxLength
    /\ copied \in 0..length
    /\ pc \in {"head", "body", "broken", "panicked", "done"}
    /\ status \in {0, 200, 404}
    /\ buf \in 0..MaxLength
    /\ committed \in BOOLEAN
    /\ head \in [status : {0, 200, 404}, gzip : BOOLEAN]
    /\ sent \in 0..MaxLength

Init ==
    /\ length \in 0..MaxLength
    /\ copied = 0
    /\ pc = "head"
    /\ status = 0
    /\ buf = 0
    /\ committed = FALSE
    /\ head = [status |-> 0, gzip |-> FALSE]
    /\ sent = 0

-----------------------------------------------------------------------------
(* WriteHeader keeps the status for later. *)
WriteHeader(s) ==
    /\ pc = "head"
    /\ status' = s
    /\ pc' = "body"
    /\ UNCHANGED <<length, copied, buf, committed, head, sent>>

(* commit, and the first Write after it, which makes the status 200 when   *)
(* none was set: the header is sent once.                                  *)
Commit(compress) ==
    /\ committed' = TRUE
    /\ head' = [status |-> IF status = 0 THEN 200 ELSE status, gzip |-> compress]

Fills(n) == buf + n >= MinLength

(* A piece of n bytes that leaves the buffer below MinLength is kept. *)
WriteBuffered(n) ==
    /\ ~committed
    /\ ~Fills(n)
    /\ buf' = buf + n
    /\ UNCHANGED <<committed, head, sent>>

(* Mutant of WriteFilling: the piece is compressed, the buffer is not. *)
WriteWithoutBuffer(n) ==
    /\ ~committed
    /\ Fills(n)
    /\ Commit(TRUE)
    /\ sent' = n
    /\ buf' = buf + n

(* The piece that fills it commits, and the whole buffer is compressed.    *)
WriteFilling(n) ==
    /\ ~committed
    /\ Fills(n)
    /\ Commit(TRUE)
    /\ sent' = buf + n
    /\ buf' = buf + n

WriteThrough(n) ==
    /\ committed
    /\ sent' = sent + n
    /\ UNCHANGED <<buf, committed, head>>

(* What Write returns: for the filling piece, the length of the buffer.    *)
Reported(n) == IF ~committed /\ Fills(n) THEN buf + n ELSE n

(* One turn of io.Copy. *)
Copy(n) ==
    /\ pc = "body"
    /\ copied + n <= length
    /\ copied' = copied + n
    /\ WriteBuffered(n) \/ WriteFilling(n) \/ WriteThrough(n)
    /\ pc' = IF Reported(n) = n THEN "body" ELSE "broken"
    /\ UNCHANGED <<length, status>>

Panic ==
    /\ pc \in {"head", "body"}
    /\ pc' = "panicked"
    /\ UNCHANGED <<length, copied, status, buf, committed, head, sent>>

Over ==
    \/ pc = "body" /\ copied = length
    \/ pc \in {"broken", "panicked"}

(* The handler is over and flush runs, deferred: what is buffered is sent  *)
(* as it is, or the gzip stream is closed.                                 *)
Flush ==
    /\ Over
    /\ IF committed
          THEN UNCHANGED <<committed, head, sent>>
          ELSE Commit(FALSE) /\ sent' = buf
    /\ pc' = "done"
    /\ UNCHANGED <<length, copied, status, buf>>

Next ==
    \/ \E s \in {200, 404} : WriteHeader(s)
    \/ \E n \in 1..MaxLength : Copy(n)
    \/ Panic
    \/ Flush

Spec == Init /\ [][Next]_vars

-----------------------------------------------------------------------------
(* Every byte that was written is sent or buffered, none twice, and none   *)
(* is left in the buffer at the end, whatever the pieces; the header goes  *)
(* out with the status that the handler set, and promises gzip exactly if  *)
(* MinLength bytes were written.                                           *)
DeliversWritten ==
    /\ copied = IF committed THEN sent ELSE buf
    /\ pc = "done" =>
          /\ committed
          /\ status # 0 => head.status = status
          /\ head.gzip <=> copied > 0 /\ copied >= MinLength

(* compress_doc.go:5: the middleware "transparently" compresses.  The      *)
(* client has the whole body, unless the handler panicked.                 *)
Transparent == pc = "broken" => copied = length
=============================================================================
