------------------------------- MODULE Shadow -------------------------------
(***************************************************************************)
(* The mirroring of internal/middleware/shadow.go.  The body is buffered,  *)
(* then a goroutine sends a copy of the request to the shadow backend      *)
(* while the next handler serves it.  Either may read its body in pieces,  *)
(* and the mirror may outlive the request or hang.                         *)
(*                                                                         *)
(* The handlers below are taken to leave r.Header alone: one that writes   *)
(* it would race with the loop that copies it.                             *)
(***************************************************************************)
EXTENDS Naturals

CONSTANTS
    Mirrored, \* the requests
    MaxBody   \* bound on the length of a body

Readers == {"primary", "mirror"}

VARIABLES
    length,  \* length[r]: the length of the body of r, zero for none
    primary, \* primary[r]: the server's goroutine, "idle", "buffering",
             \* "serving" (in the next handler) or "returned"
    mirror,  \* mirror[r]: the other goroutine, "none", "sending", "waiting"
             \* (for the shadow backend) or "done"
    pos,     \* pos[r][x]: the position of x's reader
    got,     \* got[r][x]: how much x has been given
    eof,     \* eof[r]: those whose reader has told them that this is all
    status   \* status[r]: the status written, "none" before

vars == <<length, primary, mirror, pos, got, eof, status>>

TypeOK ==
    /\ length \in [Mirrored -> 0..MaxBody]
    /\ primary \in [Mirrored -> {"idle", "buffering", "serving", "returned"}]
    /\ mirror \in [Mirrored -> {"none", "sending", "waiting", "done"}]
    /\ pos \in [Mirrored -> [Readers -> 0..MaxBody]]
    /\ got \in [Mirrored -> [Readers -> 0..MaxBody]]
    /\ eof \in [Mirrored -> SUBSET Readers]
    /\ status \in [Mirrored -> {"none", "500", "primary"}]

Init ==
    /\ length \in [Mirrored -> 0..MaxBody]
    /\ primary = [r \in Mirrored |-> "idle"]
    /\ mirror = [r \in Mirrored |-> "none"]
    /\ pos = [r \in Mirrored |-> [x \in Readers |-> 0]]
    /\ got = [r \in Mirrored |-> [x \in Readers |-> 0]]
    /\ eof = [r \in Mirrored |-> {}]
    /\ status = [r \in Mirrored |-> "none"]

-----------------------------------------------------------------------------
Arrive(r) ==
    /\ primary[r] = "idle"
    /\ primary' = [primary EXCEPT ![r] = "buffering"]
    /\ UNCHANGED <<length, mirror, pos, got, eof, status>>

(* io.ReadAll fails: the client has stopped sending. *)
BodyLost(r) ==
    /\ primary[r] = "buffering"
    /\ length[r] > 0
    /\ primary' = [primary EXCEPT ![r] = "returned"]
    /\ status' = [status EXCEPT ![r] = "500"]
    /\ UNCHANGED <<length, mirror, pos, got, eof>>

(* The body is in bodyBytes: the goroutine is started and the next handler *)
(* called, each with a reader of its own.                                  *)
Serve(r) ==
    /\ primary[r] = "buffering"
    /\ primary' = [primary EXCEPT ![r] = "serving"]
    /\ mirror' = [mirror EXCEPT ![r] = "sending"]
    /\ UNCHANGED <<length, pos, got, eof, status>>

Active(r, x) ==
    IF x = "primary" THEN primary[r] = "serving" ELSE mirror[r] = "sending"

(* Mutant of Advance: one reader for both. *)
AdvanceBoth(r, x, n) == pos' = [pos EXCEPT ![r] = [y \in Readers |-> @[y] + n]]

Advance(r, x, n) == pos' = [pos EXCEPT ![r][x] = @ + n]

(* x reads a piece of n bytes, or learns that there is no more. *)
Read(r, x, n) ==
    /\ Active(r, x)
    /\ n \in 1..length[r] - pos[r][x]
    /\ Advance(r, x, n)
    /\ got' = [got EXCEPT ![r][x] = @ + n]
    /\ UNCHANGED <<length, primary, mirror, eof, status>>

ReadEnd(r, x) ==
    /\ Active(r, x)
    /\ pos[r][x] = length[r]
    /\ eof' = [eof EXCEPT ![r] = @ \union {x}]
    /\ UNCHANGED <<length, primary, mirror, pos, got, status>>

(* Mutant of Return: the mirror is waited for. *)
ReturnJoining(r) ==
    /\ primary[r] = "serving"
    /\ mirror[r] = "done"
    /\ primary' = [primary EXCEPT ![r] = "returned"]
    /\ UNCHANGED <<length, mirror, pos, got, eof>>

Return(r) ==
    /\ primary[r] = "serving"
    /\ primary' = [primary EXCEPT ![r] = "returned"]
    /\ UNCHANGED <<length, mirror, pos, got, eof>>

(* The next handler answers, with as much of the body as it cared to read, *)
(* or panics; the goroutine of the mirror goes on.                         *)
Answer(r) == Return(r) /\ status' = [status EXCEPT ![r] = "primary"]

Panic(r) == Return(r) /\ UNCHANGED status

(* client.Do has sent the body, ... *)
Sent(r) ==
    /\ mirror[r] = "sending"
    /\ "mirror" \in eof[r]
    /\ mirror' = [mirror EXCEPT ![r] = "waiting"]
    /\ UNCHANGED <<length, primary, pos, got, eof, status>>

(* ... and it ends, with a response or, at any time, with an error, which  *)
(* includes a shadow URL that is none; all of that is only logged.         *)
MirrorEnds(r) ==
    /\ mirror[r] \in {"sending", "waiting"}
    /\ mirror' = [mirror EXCEPT ![r] = "done"]
    /\ UNCHANGED <<length, primary, pos, got, eof, status>>

Next ==
    \E r \in Mirrored :
       \/ Arrive(r) \/ BodyLost(r) \/ Serve(r)
       \/ Answer(r) \/ Panic(r)
       \/ Sent(r) \/ MirrorEnds(r)
       \/ \E x \in Readers :
             ReadEnd(r, x) \/ \E n \in 1..MaxBody : Read(r, x, n)

Spec == Init /\ [][Next]_vars

(* The next handler ends; the mirror may hang. *)
Fairness == \A r \in Mirrored : WF_vars(Answer(r) \/ Panic(r))

-----------------------------------------------------------------------------
(* Whoever has read to the end has the whole body, however the pieces that *)
(* the two goroutines read interleave, and the client is answered by the   *)
(* primary alone.                                                          *)
BothReadTheBody ==
    \A r \in Mirrored :
        /\ \A x \in eof[r] : got[r][x] = length[r]
        /\ status[r] = "500" => mirror[r] = "none"

(* shadow.go:32: "without affecting the primary response".  A request that *)
(* is mirrored comes to its end, also when the shadow backend hangs.       *)
MirrorDelaysNobody ==
    \A r \in Mirrored : mirror[r] # "none" ~> primary[r] = "returned"
=============================================================================
