----------------------------- MODULE HealthCheck -----------------------------
(***************************************************************************)
(* The backend health endpoint of internal/healthcheck/healthcheck.go.     *)
(* Each request to it starts one goroutine per target; all requests write  *)
(* their results into one map, from which each of them then reports.       *)
(* Backends, which become healthy and unhealthy, and clients, which go     *)
(* away and so cancel their own probes, are the environment.               *)
(*                                                                         *)
(* A backend is up when it answers /health below 500 within the timeout of *)
(* c.client.  Latencies are left out.                                      *)
(***************************************************************************)
EXTENDS Naturals, FiniteSets

CONSTANTS
    Checks, \* the goroutines that run Handler's function
    Targets \* c.targets

VARIABLES
    up,       \* the backends that are up
    statuses, \* c.statuses: Healthy, for the targets it holds
    probe,    \* probe[h][t]: h's goroutine for t, "none", "asking", with its
              \* result in hand ("healthy", "unhealthy"), or "done"
    gone,     \* gone[h]: the client of h is gone, r.Context() is cancelled
    answer    \* answer[h]: the status written, "none" before, "idle" at first

(* History: what was the case at some moment of the present busy period,   *)
(* which lasts from the first check of several that overlap to their end.  *)
VARIABLES
    everUp,   \* backends that were up
    everDown, \* backends that were down
    cancelled \* a client went away

codeVars == <<up, statuses, probe, gone, answer>>
healthVars == <<codeVars, everUp, everDown, cancelled>>

HTypeOK ==
    /\ up \subseteq Targets
    /\ DOMAIN statuses \subseteq Targets
    /\ \A t \in DOMAIN statuses : statuses[t] \in BOOLEAN
    /\ probe \in [Checks -> [Targets ->
                    {"none", "asking", "healthy", "unhealthy", "done"}]]
    /\ gone \in [Checks -> BOOLEAN]
    /\ answer \in [Checks -> {"idle", "none", "200", "503"}]
    /\ everUp \subseteq Targets
    /\ everDown \subseteq Targets
    /\ cancelled \in BOOLEAN

HInit ==
    /\ up \in SUBSET Targets
    /\ statuses = [t \in {} |-> TRUE]
    /\ probe = [h \in Checks |-> [t \in Targets |-> "none"]]
    /\ gone = [h \in Checks |-> FALSE]
    /\ answer = [h \in Checks |-> "idle"]
    /\ everUp = {}
    /\ everDown = {}
    /\ cancelled = FALSE

-----------------------------------------------------------------------------
Busy(h) == answer[h] = "none"

(* Handler calls Probe, which starts a goroutine for every target. *)
Begin(h) ==
    /\ ~Busy(h)
    /\ answer' = [answer EXCEPT ![h] = "none"]
    /\ probe' = [probe EXCEPT ![h] = [t \in Targets |-> "asking"]]
    /\ IF \E g \in Checks : Busy(g)
          THEN UNCHANGED <<everUp, everDown, cancelled>>
          ELSE everUp' = up /\ everDown' = Targets \ up /\ cancelled' = FALSE
    /\ UNCHANGED <<up, statuses, gone>>

(* c.client.Do ends: with a response, in time and below 500 or not, ...    *)
Heard(h, t) ==
    /\ probe[h][t] = "asking"
    /\ probe' = [probe EXCEPT ![h][t] = IF t \in up THEN "healthy" ELSE "unhealthy"]
    /\ UNCHANGED <<up, statuses, gone, answer, everUp, everDown, cancelled>>

(* ... or with an error, whatever the backend does, after a cancellation.  *)
Interrupted(h, t) ==
    /\ probe[h][t] = "asking"
    /\ gone[h]
    /\ probe' = [probe EXCEPT ![h][t] = "unhealthy"]
    /\ UNCHANGED <<up, statuses, gone, answer, everUp, everDown, cancelled>>

(* c.statuses[t] = ..., for a target the map may not hold yet. *)
Put(t, healthy) ==
    statuses' = [s \in DOMAIN statuses \union {t} |->
                   IF s = t THEN healthy ELSE statuses[s]]

(* Mutant of Record: only a response is written. *)
RecordHealthyOnly(h, t) ==
    /\ probe[h][t] \in {"healthy", "unhealthy"}
    /\ IF probe[h][t] = "healthy" THEN Put(t, TRUE) ELSE UNCHANGED statuses
    /\ probe' = [probe EXCEPT ![h][t] = "done"]
    /\ UNCHANGED <<up, gone, answer, everUp, everDown, cancelled>>

(* The goroutine writes its result under c.mu, then calls wg.Done. *)
Record(h, t) ==
    /\ probe[h][t] \in {"healthy", "unhealthy"}
    /\ Put(t, probe[h][t] = "healthy")
    /\ probe' = [probe EXCEPT ![h][t] = "done"]
    /\ UNCHANGED <<up, gone, answer, everUp, everDown, cancelled>>

(* Mutant of Probed: nobody waits. *)
ProbedAtOnce(h) == TRUE

(* wg.Wait *)
Probed(h) == \A t \in Targets : probe[h][t] = "done"

AllHealthy == \A t \in DOMAIN statuses : statuses[t]

(* Wait returns; Statuses takes its snapshot, on which the answer rests.   *)
(* The context ends with the request.                                      *)
Report(h) ==
    /\ Busy(h)
    /\ Probed(h)
    /\ answer' = [answer EXCEPT ![h] = IF AllHealthy THEN "200" ELSE "503"]
    /\ gone' = [gone EXCEPT ![h] = FALSE]
    /\ UNCHANGED <<up, statuses, probe, everUp, everDown, cancelled>>

ClientGone(h) ==
    /\ Busy(h)
    /\ ~gone[h]
    /\ gone' = [gone EXCEPT ![h] = TRUE]
    /\ cancelled' = TRUE
    /\ UNCHANGED <<up, statuses, probe, answer, everUp, everDown>>

Recover(t) ==
    /\ t \notin up
    /\ up' = up \union {t}
    /\ everUp' = everUp \union {t}
    /\ UNCHANGED <<statuses, probe, gone, answer, everDown, cancelled>>

Break(t) ==
    /\ t \in up
    /\ up' = up \ {t}
    /\ everDown' = everDown \union {t}
    /\ UNCHANGED <<statuses, probe, gone, answer, everUp, cancelled>>

Progress(h) ==
    \/ Report(h)
    \/ \E t \in Targets : Heard(h, t) \/ Interrupted(h, t) \/ Record(h, t)

HNext ==
    \/ \E h \in Checks : Begin(h) \/ Progress(h) \/ ClientGone(h)
    \/ \E t \in Targets : Recover(t) \/ Break(t)

HSpec == HInit /\ [][HNext]_healthVars

(* Of the goroutines of a check, one that can go on does: they are         *)
(* scheduled, and c.client has a timeout.                                  *)
HFairness == \A h \in Checks : WF_healthVars(Progress(h))

HFairSpec == HSpec /\ HFairness

-----------------------------------------------------------------------------
(* A report rests on what happened during the busy period it belongs to,   *)
(* never on an earlier one: 200 means that every target was up at some     *)
(* moment of it, 503 that one was down or that a client went away.  It     *)
(* depends on Wait: the map may still lack a target, or hold old results.  *)
ReportsThePeriod ==
    [][\A h \in Checks : Report(h) =>
         /\ answer'[h] = "200" => everUp = Targets
         /\ answer'[h] = "503" => everDown # {} \/ cancelled]_healthVars

(* What makes it so: a result in hand, and one in the map that this period *)
(* wrote, was the case at some moment of the period, or was interrupted;   *)
(* and a probe that is done has written the map.                           *)
Vouched(t, healthy) ==
    IF healthy THEN t \in everUp ELSE t \in everDown \/ cancelled

PeriodInv ==
    /\ HTypeOK
    /\ \A h \in Checks, t \in Targets :
        /\ probe[h][t] = "done" => t \in DOMAIN statuses
        /\ Busy(h) => /\ IF t \in up THEN t \in everUp ELSE t \in everDown
                      /\ gone[h] => cancelled
                      /\ probe[h][t] = "done" => Vouched(t, statuses[t])
        /\ ~Busy(h) => probe[h][t] \in {"none", "done"} /\ ~gone[h]
        /\ probe[h][t] = "healthy" => Vouched(t, TRUE)
        /\ probe[h][t] = "unhealthy" => Vouched(t, FALSE)

(* Every check is answered, also when its client is gone. *)
EveryCheckAnswered == \A h \in Checks : Busy(h) ~> ~Busy(h)

(* healthcheck/doc.go:13 says of 503: "one or more backends unhealthy".    *)
(* The goroutines of a client that went away record its targets as         *)
(* unhealthy, and another client reports that.                             *)
NoFalseAlarm ==
    \A h \in Checks :
        Busy(h) /\ Probed(h) /\ ~gone[h] /\ ~AllHealthy => everDown # {}
=============================================================================
