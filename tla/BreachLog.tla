------------------------------ MODULE BreachLog ------------------------------
(***************************************************************************)
(* The error-rate log of internal/middleware/breachlog.go, for one key:    *)
(* LoadOrStore gives each key one window, and windows share nothing.  A    *)
(* request records its status and decides in one critical section of w.mu, *)
(* and notes the time of its warning in another.                           *)
(*                                                                         *)
(* A status matters as error (500 and above) or not.  Warnings are decided *)
(* on full windows only, so the threshold is a number of errors.           *)
(***************************************************************************)
EXTENDS Naturals, Sequences, FiniteSets

CONSTANTS
    Requests,   \* the goroutines that serve requests for the key
    WindowSize, \* cfg.WindowSize
    Threshold,  \* cfg.ErrorThreshold, in errors per window
    Gap         \* the 5 seconds between two warnings, in ticks

ConfigOK == WindowSize \in Nat \ {0} /\ Threshold \in Nat /\ Gap \in Nat

VARIABLES
    codes,   \* w.codes: codes[i] says whether entry i - 1 is an error
    pos,     \* w.pos
    full,    \* w.full
    since,   \* time.Since(w.logged), up to Gap + 1
    warning, \* requests that decided to warn and have not noted the time yet
    recent,  \* history: the last results recorded, oldest first
    own      \* history: own[r], ticks since r's last warning, up to Gap + 1

vars == <<codes, pos, full, since, warning, recent, own>>

TypeOK ==
    /\ codes \in [1..WindowSize -> BOOLEAN]
    /\ pos \in 0..WindowSize - 1
    /\ full \in BOOLEAN
    /\ since \in 0..Gap + 1
    /\ warning \subseteq Requests
    /\ recent \in Seq(BOOLEAN) /\ Len(recent) <= WindowSize
    /\ own \in [Requests -> 0..Gap + 1]

Init ==
    /\ codes = [i \in 1..WindowSize |-> FALSE]
    /\ pos = 0
    /\ full = FALSE
    /\ since = Gap + 1
    /\ warning = {}
    /\ recent = <<>>
    /\ own = [r \in Requests |-> Gap + 1]

-----------------------------------------------------------------------------
Errors(window) == Cardinality({i \in DOMAIN window : window[i]})

(* Mutant of Advance: full one entry early. *)
AdvanceEarly ==
    /\ pos' = (pos + 1) % WindowSize
    /\ full' = (full \/ pos' = WindowSize - 1)

Advance ==
    /\ pos' = (pos + 1) % WindowSize
    /\ full' = (full \/ pos' = 0)

(* Mutant of Breach: the time of the last warning is not looked at. *)
BreachAnyTime == full' /\ Errors(codes') >= Threshold

Breach == full' /\ since > Gap /\ Errors(codes') >= Threshold

(* record, and the middleware's decision on what it returned. *)
Record(r, isError) ==
    /\ r \notin warning
    /\ codes' = [codes EXCEPT ![pos + 1] = isError]
    /\ Advance
    /\ warning' = IF Breach THEN warning \union {r} ELSE warning
    /\ recent' = LET all == Append(recent, isError)
                 IN  IF Len(all) > WindowSize THEN Tail(all) ELSE all
    /\ UNCHANGED <<since, own>>

(* The window's time is set, and the warning is logged. *)
Warn(r) ==
    /\ r \in warning
    /\ warning' = warning \ {r}
    /\ since' = 0
    /\ own' = [own EXCEPT ![r] = 0]
    /\ UNCHANGED <<codes, pos, full, recent>>

Later(n) == IF n <= Gap THEN n + 1 ELSE n

Tick ==
    /\ \E n \in {since} \union {own[r] : r \in Requests} : n <= Gap
    /\ since' = Later(since)
    /\ own' = [r \in Requests |-> Later(own[r])]
    /\ UNCHANGED <<codes, pos, full, warning, recent>>

Next ==
    \/ \E r \in Requests, isError \in BOOLEAN : Record(r, isError)
    \/ \E r \in Requests : Warn(r)
    \/ Tick

Spec == Init /\ [][Next]_vars

-----------------------------------------------------------------------------
(* The ring holds the last WindowSize results, and nothing else once it is *)
(* full: a warning speaks of results that were recorded.                   *)
RingIsRecent ==
    LET last == SubSeq(codes, 1, pos)
    IN  recent = IF full THEN SubSeq(codes, pos + 1, WindowSize) \o last
                         ELSE last

(* breachlog_doc.go:23 has one warning per key and Gap.  What is left of   *)
(* that when the decision and the note are two critical sections: no       *)
(* goroutine warns twice within Gap, so their number bounds the warnings.  *)
OneWarningEach ==
    [][\A r \in Requests : Warn(r) => own[r] > Gap]_vars
=============================================================================
