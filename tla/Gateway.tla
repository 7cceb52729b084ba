------------------------------- MODULE Gateway -------------------------------
(***************************************************************************)
(* The server of cmd/server/main.go: the timeout and the compression       *)
(* around the handlers of Chain, under recovery and net/http.  The timeout *)
(* runs the handlers on a goroutine of their own, the worker, while the    *)
(* server's goroutine waits in a select; both write to one ResponseWriter, *)
(* the worker through a recorder that keeps the first status.  A request   *)
(* whose context is cancelled, by the deadline or because its client is    *)
(* gone, keeps its worker, and its worker its place in the chain.          *)
(*                                                                         *)
(* Time passes in the breaker only; a deadline may come at any moment.     *)
(* The loggers and the metrics outside recovery only look on.              *)
(***************************************************************************)
EXTENDS Chain

VARIABLES
    server,    \* server[r]: the server's goroutine: "idle", "waiting" in the
               \* select, or "returned"
    worker,    \* worker[r]: "none", "running", "ended" or "panicked"
    cancelled, \* cancelled[r]: r's context is done
    status,    \* status[r]: what the recorder rw keeps, "none" before
    wire,      \* wire[r]: the status sent to the client, "none" before
    crashed    \* the process has died of a panic that nobody recovered

gatewayVars == <<server, worker, cancelled, status, wire, crashed>>
fullVars == <<systemVars, gatewayVars>>

GatewayTypeOK ==
    /\ server \in [Callers -> {"idle", "waiting", "returned"}]
    /\ worker \in [Callers -> {"none", "running", "ended", "panicked"}]
    /\ cancelled \in [Callers -> BOOLEAN]
    /\ status \in [Callers -> Answers \union {"none"}]
    /\ wire \in [Callers -> Answers \union {"none", "504"}]
    /\ crashed \in BOOLEAN

GatewayInit ==
    /\ ChainInit
    /\ server = [r \in Callers |-> "idle"]
    /\ worker = [r \in Callers |-> "none"]
    /\ cancelled = [r \in Callers |-> FALSE]
    /\ status = [r \in Callers |-> "none"]
    /\ wire = [r \in Callers |-> "none"]
    /\ crashed = FALSE

-----------------------------------------------------------------------------
(* A request arrives: the context gets its deadline, the worker starts and *)
(* the server's goroutine comes to the select.                             *)
Accept(r, q) ==
    /\ Arrive(r, q)
    /\ server' = [server EXCEPT ![r] = "waiting"]
    /\ worker' = [worker EXCEPT ![r] = "running"]
    /\ UNCHANGED <<cancelled, status, wire, crashed>>

(* The deadline, or the client is gone. *)
Cancel(r) ==
    /\ server[r] = "waiting"
    /\ ~cancelled[r]
    /\ cancelled' = [cancelled EXCEPT ![r] = TRUE]
    /\ UNCHANGED <<systemVars, server, worker, status, wire, crashed>>

(* Mutant of CutShort: the request keeps the context of its client. *)
NeverCutShort(r) == FALSE

(* The worker is asking a backend with a context that is done. *)
CutShort(r) == at[r] = "retry" /\ cancelled[r]

(* The worker goes on with the handlers.  An attempt that is cut short is  *)
(* answered by the error handler of the reverse proxy, a 502, or aborted   *)
(* while its body is copied; the retry does not look at the context.       *)
Work(r) ==
    /\ worker[r] = "running"
    /\ Handle(r)
    /\ CutShort(r) => at'[r] = "done" \/ result'[r] = "bad"
    /\ UNCHANGED gatewayVars

(* w.WriteHeader: net/http sends the first status, and none once the       *)
(* server's goroutine has returned.                                        *)
Send(r, s) ==
    wire' = IF wire[r] = "none" /\ server[r] = "waiting"
               THEN [wire EXCEPT ![r] = s] ELSE wire

(* rw.WriteHeader: the first status is kept and forwarded. *)
Write(r, s) ==
    IF status[r] = "none"
       THEN status' = [status EXCEPT ![r] = s] /\ Send(r, s)
       ELSE UNCHANGED <<status, wire>>

(* What the handlers have written so far: the retry flushes its response   *)
(* before the breaker records the result.                                  *)
Response(r) == IF at[r] = "flush" THEN result[r] ELSE answer[r]

(* The response of the handlers reaches rw before they return, because the *)
(* client takes no gzip or because the body is longer than cfg.MinLength.  *)
Commit(r) ==
    /\ worker[r] = "running"
    /\ status[r] = "none"
    /\ Response(r) # "none"
    /\ Write(r, Response(r))
    /\ UNCHANGED <<systemVars, server, worker, cancelled, crashed>>

(* Mutant of Finish: the flush is not called, what is buffered stays there.*)
FinishUnflushed(r) ==
    /\ worker[r] = "running"
    /\ at[r] = "done"
    /\ worker' = [worker EXCEPT ![r] = IF answer[r] # "none" THEN "ended" ELSE "panicked"]
    /\ UNCHANGED <<systemVars, server, cancelled, status, wire, crashed>>

(* The handlers have returned, or were unwound by a panic; the deferred    *)
(* flush of the compression sends what is buffered, of a panic an empty    *)
(* body with the implicit 200, and done is closed.  Without gzip nothing   *)
(* is flushed, and a panic leaves nothing written.                         *)
Finish(r) ==
    /\ worker[r] = "running"
    /\ at[r] = "done"
    /\ IF answer[r] # "none"
          THEN /\ Write(r, answer[r])
               /\ worker' = [worker EXCEPT ![r] = "ended"]
          ELSE /\ Write(r, "ok") \/ UNCHANGED <<status, wire>>
               /\ worker' = [worker EXCEPT ![r] = "panicked"]
    /\ UNCHANGED <<systemVars, server, cancelled, crashed>>

(* No recover is deferred on the worker: the Go runtime ends the process. *)
Crash(r) ==
    /\ worker[r] = "panicked"
    /\ crashed' = TRUE
    /\ UNCHANGED <<systemVars, server, worker, cancelled, status, wire>>

(* The select takes done; rw.Status() is 200 if nothing was written. *)
InTime(r) ==
    /\ server[r] = "waiting"
    /\ worker[r] \in {"ended", "panicked"}
    /\ Send(r, IF status[r] = "none" THEN "ok" ELSE status[r])
    /\ server' = [server EXCEPT ![r] = "returned"]
    /\ UNCHANGED <<systemVars, worker, cancelled, status, crashed>>

(* Mutant of TimeOut: a 504 whatever came before. *)
TimeOutOver(r) ==
    /\ server[r] = "waiting"
    /\ cancelled[r]
    /\ wire' = [wire EXCEPT ![r] = "504"]
    /\ server' = [server EXCEPT ![r] = "returned"]
    /\ UNCHANGED <<systemVars, worker, cancelled, status, crashed>>

(* The select takes ctx.Done: a 504, unless the worker has written first. *)
TimeOut(r) ==
    /\ server[r] = "waiting"
    /\ cancelled[r]
    /\ Send(r, "504")
    /\ server' = [server EXCEPT ![r] = "returned"]
    /\ UNCHANGED <<systemVars, worker, cancelled, status, crashed>>

(* Both goroutines are done with the request. *)
Close(r) ==
    /\ server[r] = "returned"
    /\ worker[r] = "ended"
    /\ Leave(r)
    /\ server' = [server EXCEPT ![r] = "idle"]
    /\ worker' = [worker EXCEPT ![r] = "none"]
    /\ cancelled' = [cancelled EXCEPT ![r] = FALSE]
    /\ status' = [status EXCEPT ![r] = "none"]
    /\ wire' = [wire EXCEPT ![r] = "none"]
    /\ UNCHANGED crashed

(* What goes on without clients, in the chain. *)
Environment ==
    /\ \/ \E u \in Uris : Expire(u)
       \/ Tick /\ UNCHANGED chainVars
    /\ UNCHANGED gatewayVars

GatewayNext ==
    /\ ~crashed
    /\ \/ \E r \in Callers :
             \/ \E q \in RequestType : Accept(r, q)
             \/ Cancel(r)
             \/ Work(r) \/ Commit(r) \/ Finish(r) \/ Crash(r)
             \/ InTime(r) \/ TimeOut(r)
             \/ Close(r)
       \/ Environment

GatewaySpec == GatewayInit /\ [][GatewayNext]_fullVars

(* What goes on for a request without a backend: its timer fires, and of   *)
(* its goroutines one that can go on does.  Nothing is assumed of          *)
(* backends: a request they hold is cut short once its context is done.    *)
Advance(r) ==
    \/ Cancel(r)
    \/ InTime(r) \/ TimeOut(r)
    \/ Work(r) /\ (at[r] = "retry" => CutShort(r))
    \/ Finish(r)

GatewayFairness == \A r \in Callers : WF_fullVars(~crashed /\ Advance(r))

GatewayFairSpec == GatewaySpec /\ GatewayFairness

-----------------------------------------------------------------------------
(* How the two goroutines of a request, the recorder and the wire agree:   *)
(* what the recorder keeps is what the handlers answered, or the 200 of a  *)
(* panic; the wire has it, or a 504 that came first, and has something     *)
(* once the server's goroutine has returned.                               *)
RecorderInv(r) ==
    /\ at[r] = "idle" => status[r] = "none" /\ wire[r] = "none"
    /\ at[r] = "idle" <=> worker[r] = "none"
    /\ server[r] = "idle" <=> worker[r] = "none"
    /\ worker[r] = "none" => ~cancelled[r]
    /\ worker[r] \in {"ended", "panicked"} => at[r] = "done"
    /\ worker[r] = "panicked" => answer[r] = "none"
    /\ worker[r] = "ended" => answer[r] # "none" /\ status[r] = answer[r]
    /\ status[r] # "none" =>
         \/ status[r] = Response(r)
         \/ worker[r] = "panicked" /\ status[r] = "ok"
    /\ wire[r] = "504" => cancelled[r]
    /\ wire[r] \notin {"none", "504"} =>
         \/ wire[r] = status[r]
         \/ worker[r] = "panicked" /\ wire[r] = "ok"
    /\ server[r] = "waiting" => wire[r] = status[r]
    /\ server[r] = "returned" => wire[r] # "none"

(* Only a worker brings the process down, and it had no answer to give. *)
GatewayInv ==
    /\ GatewayTypeOK
    /\ \A r \in Callers : RecorderInv(r)
    /\ crashed => \E r \in Callers : worker[r] = "panicked"

(* Both goroutines of a request come to their end, though the backends may *)
(* hang for ever: the client is answered, and the worker of one who is     *)
(* gone or was told 504 is cut short, leaves the breaker and gives up.     *)
NoGoroutineLeak ==
    \A r \in Callers :
        server[r] = "waiting"
        ~> (server[r] = "returned" /\ worker[r] # "running") \/ crashed

(* recovery.go:9-11 catches panics "so that a single misbehaving request   *)
(* cannot crash the whole proxy process".  It does not see those of the    *)
(* goroutine that timeout.go:39 starts, and the reverse proxy panics when  *)
(* the copy of a body fails.                                               *)
PanicCannotCrash == ~crashed

Sort(r) ==
    CASE at[r] = "idle" -> "none"
      [] at[r] # "idle" /\ ~request[r].key -> "keyless"
      [] at[r] # "idle" /\ request[r].key ->
            IF request[r].kind = "preflight" THEN "preflight" ELSE "call"

Clients == INSTANCE GatewayContract WITH
    Statuses <- Results,
    asked    <- [r \in Callers |-> Sort(r)],
    told     <- wire,
    down     <- crashed

(* To its clients the server is what the contract says, whatever handlers, *)
(* deadlines, departures, panics and other requests do.                    *)
ImplementsGateway == Clients!Spec
=============================================================================
