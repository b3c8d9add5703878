----------------------------- MODULE AutoAdmission -----------------------------
(***************************************************************************)
(* AutoAdmissionCoordinator: one thread that starts a Worker for every     *)
(* match the catalogue calls Playing, once a live source is confirmed and  *)
(* a slot is free.  Operators start and stop sessions beside it, matches   *)
(* end, sessions are pruned, and Workers outlive a restart of the          *)
(* Dashboard, whose sessions and records are only in memory.               *)
(*                                                                         *)
(* A session is reduced to what the coordinator sees of the Dashboard      *)
(* module: start() and stop() are one step each, taken under session.lock. *)
(***************************************************************************)
EXTENDS Naturals, FiniteSets

CONSTANTS Matches,
          MaxConcurrent,    \* GIF_MAX_CONCURRENT_MATCHES
          EmptyNeeded,      \* source_empty_confirmations
          MaxRestarts       \* restarts of the Dashboard (bound)

MissingNeeded == 2          \* AUTO_ADMISSION_MISSING_CONFIRMATIONS

PreStart == {"discovered", "source_waiting", "retrying", "waiting_capacity", "start_retrying"}
TerminalStates == {"skipped_no_source", "expired_not_started", "completed", "failed", "stopped"}
Ended == {"completed", "failed", "stopped"}

VARIABLES
    record,     \* AutoAdmissionRecord of a match; "unknown" when there is none
    session,    \* lifecycle of its session, "none" when there is none
    external,   \* matches with a Worker of an earlier Dashboard
    silent,     \* history: empty answers in a row about the source of a match
    listed,     \* the catalogue's Playing set of this pass
    step,       \* where run_once stands
    todo,       \* matches left to this part of it
    chosen,     \* the match start() was called for: none or one
    restarts

vars == <<record, session, external, silent, listed, step, todo, chosen, restarts>>

NewRecord == [state |-> "discovered", source |-> FALSE, empties |-> 0, missing |-> 0]
NoRecord == [NewRecord EXCEPT !.state = "unknown"]

Running(m) == session[m] = "running"
\* _active_match_summaries_locked, without and with surviving Workers
Own == {m \in Matches : Running(m)}
AllWorkers == Own \cup external

\* Survivors take no slot.
OwnOnly == Cardinality(Own) < MaxConcurrent
\* worker_slot_status(include_external=True)
SlotFree == Cardinality(AllWorkers) < MaxConcurrent

(***************************************************************************)
(* run_once: the catalogue.                                                *)
(***************************************************************************)

\* A record that left the catalogue's sight comes back.
Seen(m) == [(IF record[m].state = "unknown" THEN NewRecord ELSE record[m]) EXCEPT !.missing = 0]

\* A new record takes over a surviving Worker or an operator's stop.
Discovered(m) ==
    LET r == Seen(m) IN
      CASE r.state = "discovered" /\ m \in external -> [r EXCEPT !.state = "running"]
        [] r.state = "discovered" /\ m \notin external /\ session[m] = "stopped" ->
              [r EXCEPT !.state = "stopped"]
        [] OTHER -> r

\* What the session then says of a match that runs or was stopped.
Reviewed(m) ==
    LET r == Discovered(m) IN
      CASE r.state \in {"running", "stopped"} /\ Running(m) -> [r EXCEPT !.state = "running"]
        [] r.state \in {"running", "stopped"} /\ session[m] \in Ended ->
              [r EXCEPT !.state = session[m]]
        [] r.state \in {"running", "stopped"} /\ session[m] = "none" /\ m \notin external ->
              [r EXCEPT !.state = "start_retrying"]
        [] OTHER -> r

\* A fresh catalogue; an answer that is not fresh ends the pass.
Catalogue(playing) ==
    /\ step = "catalogue"
    /\ listed' = playing
    /\ record' = [m \in Matches |-> IF m \in playing THEN Reviewed(m) ELSE record[m]]
    /\ todo' = {m \in playing : record'[m].state \in PreStart}
    /\ step' = "probe"
    /\ UNCHANGED <<session, external, silent, chosen, restarts>>

(***************************************************************************)
(* run_once: the sources, asked by a pool of threads.                      *)
(***************************************************************************)

\* _schedule_source_retry: an error says nothing about the source.
Retried(r) == [r EXCEPT !.state = "retrying", !.empties = 0]

\* An empty answer; long: source_wait_seconds have passed since the first.
Emptied(r, long) ==
    LET n == IF r.empties < EmptyNeeded THEN r.empties + 1 ELSE r.empties IN
      [r EXCEPT !.source = FALSE, !.empties = n,
                !.state = IF n = EmptyNeeded /\ long THEN "skipped_no_source"
                          ELSE "source_waiting"]

\* _probe_source: not yet due, or a source is known and the match only waits for
\* a slot; else the classified answer.
Probe(m) ==
    /\ step = "probe" /\ m \in todo
    /\ todo' = todo \ {m}
    /\ \/ UNCHANGED <<record, silent>>
       \/ /\ ~(record[m].state = "waiting_capacity" /\ record[m].source)
          /\ \/ /\ record' = [record EXCEPT ![m].state = "waiting_capacity",
                                            ![m].source = TRUE, ![m].empties = 0]
                /\ silent' = [silent EXCEPT ![m] = 0]
             \/ /\ \E long \in BOOLEAN : record' = [record EXCEPT ![m] = Emptied(@, long)]
                /\ silent' = [silent EXCEPT ![m] = IF @ < EmptyNeeded THEN @ + 1 ELSE @]
             \/ /\ record' = [record EXCEPT ![m] = Retried(@)]
                /\ silent' = [silent EXCEPT ![m] = 0]
    /\ UNCHANGED <<session, external, listed, step, chosen, restarts>>

Probed ==
    /\ step = "probe" /\ todo = {}
    /\ todo' = {m \in listed : record[m].state = "waiting_capacity"}
    /\ step' = "start"
    /\ UNCHANGED <<record, session, external, silent, listed, chosen, restarts>>

(***************************************************************************)
(* run_once: the starts, one after the other, by competition and kick-off. *)
(***************************************************************************)

\* _start_waiting up to the call of start(): the session is looked at without
\* its lock.
Consider(m) ==
    /\ step = "start" /\ chosen = {} /\ m \in todo
    /\ todo' = todo \ {m}
    /\ IF ~SlotFree THEN UNCHANGED <<record, session, chosen>>
       ELSE IF m \in external
       THEN record' = [record EXCEPT ![m].state = "running"] /\ UNCHANGED <<session, chosen>>
       ELSE /\ session' = [session EXCEPT ![m] = IF @ = "none" THEN "idle" ELSE @]
            /\ IF session[m] = "stopped"
               THEN record' = [record EXCEPT ![m].state = "stopped"] /\ UNCHANGED chosen
               ELSE chosen' = {m} /\ UNCHANGED record
    /\ UNCHANGED <<external, silent, listed, step, restarts>>

\* start(include_external_workers=True) and what its answer makes of the record.
Admit(m) ==
    /\ m \in chosen
    /\ chosen' = {}
    /\ \/ /\ session[m] \notin {"running", "completed", "none"} /\ SlotFree
          /\ session' = [session EXCEPT ![m] = "running"]
          /\ record' = [record EXCEPT ![m].state = "running"]
       \/ /\ session[m] \in {"idle", "stopped", "failed"} /\ SlotFree    \* already Played
          /\ session' = [session EXCEPT ![m] = IF @ = "idle" THEN "completed" ELSE @]
          /\ record' = [record EXCEPT ![m].state = "expired_not_started"]
       \/ /\ UNCHANGED session
          /\ \/ Running(m) /\ record' = [record EXCEPT ![m].state = "running"]
             \/ ~SlotFree /\ ~Running(m) /\ UNCHANGED record
             \/ SlotFree /\ session[m] = "completed"
                  /\ record' = [record EXCEPT ![m].state = "expired_not_started"]
             \/ SlotFree /\ session[m] \notin {"running", "completed"}
                  /\ record' = [record EXCEPT ![m].state = "start_retrying"]
    /\ UNCHANGED <<external, silent, listed, step, todo, restarts>>

\* Matches the fresh catalogue does not list.
Missed(m) ==
    LET r == [record[m] EXCEPT !.missing = IF @ < MissingNeeded THEN @ + 1 ELSE @] IN
      CASE record[m].state \in PreStart ->
              IF r.missing = MissingNeeded THEN [r EXCEPT !.state = "expired_not_started"] ELSE r
        [] record[m].state = "running" /\ r.missing = MissingNeeded ->
              IF session[m] = "none" THEN [r EXCEPT !.state = "completed"]
              ELSE IF session[m] \in Ended THEN [r EXCEPT !.state = session[m]] ELSE r
        [] record[m].state = "running" /\ r.missing < MissingNeeded -> r
        [] OTHER -> record[m]

Expire ==
    /\ step = "start" /\ todo = {} /\ chosen = {}
    /\ record' = [m \in Matches |-> IF m \in listed THEN record[m] ELSE Missed(m)]
    /\ step' = "catalogue" /\ listed' = {}
    /\ UNCHANGED <<session, external, silent, todo, chosen, restarts>>

\* _prune_terminal_records_locked, in any status request
Forget(m) ==
    /\ record[m].state \in TerminalStates /\ m \notin listed
    /\ record' = [record EXCEPT ![m] = NoRecord]
    /\ UNCHANGED <<session, external, silent, listed, step, todo, chosen, restarts>>

(***************************************************************************)
(* The rest of the Dashboard.                                              *)
(***************************************************************************)

\* A request names a match.
Open(m) ==
    /\ session[m] = "none"
    /\ session' = [session EXCEPT ![m] = "idle"]
    /\ UNCHANGED <<record, external, silent, listed, step, todo, chosen, restarts>>

\* An operator's start does not count the survivors.
OperatorStarts(m) ==
    /\ session[m] \in {"idle", "stopped", "failed"} /\ OwnOnly
    /\ session' = [session EXCEPT ![m] = "running"]
    /\ UNCHANGED <<record, external, silent, listed, step, todo, chosen, restarts>>

OperatorStops(m) ==
    /\ session[m] # "none"
    /\ session' = [session EXCEPT ![m] = "stopped"]
    /\ UNCHANGED <<record, external, silent, listed, step, todo, chosen, restarts>>

Ends(m, how) ==
    /\ Running(m)
    /\ session' = [session EXCEPT ![m] = how]
    /\ UNCHANGED <<record, external, silent, listed, step, todo, chosen, restarts>>

\* A session is pruned a day after it ended or was last named; start() then
\* finds that it has expired.
Prune(m) ==
    /\ session[m] \in {"idle"} \cup Ended /\ m \notin chosen
    /\ session' = [session EXCEPT ![m] = "none"]
    /\ UNCHANGED <<record, external, silent, listed, step, todo, chosen, restarts>>

ExternalExits(m) ==
    /\ m \in external
    /\ external' = external \ {m}
    /\ UNCHANGED <<record, session, silent, listed, step, todo, chosen, restarts>>

\* Workers run in process groups of their own and survive the Dashboard.
Restart ==
    /\ restarts < MaxRestarts
    /\ restarts' = restarts + 1
    /\ external' = AllWorkers
    /\ record' = [m \in Matches |-> NoRecord]
    /\ session' = [m \in Matches |-> "none"]
    /\ listed' = {} /\ step' = "catalogue" /\ todo' = {} /\ chosen' = {}
    /\ UNCHANGED silent

Init ==
    /\ record = [m \in Matches |-> NoRecord]
    /\ session = [m \in Matches |-> "none"]
    /\ external = {} /\ listed = {}
    /\ silent = [m \in Matches |-> 0]
    /\ step = "catalogue" /\ todo = {} /\ chosen = {} /\ restarts = 0

Next ==
    \/ \E playing \in SUBSET Matches : Catalogue(playing)
    \/ Probed \/ Expire \/ Restart
    \/ \E m \in Matches :
         \/ Probe(m) \/ Consider(m) \/ Admit(m) \/ Forget(m)
         \/ Open(m) \/ OperatorStarts(m) \/ OperatorStops(m) \/ Prune(m) \/ ExternalExits(m)
         \/ \E how \in {"completed", "failed"} : Ends(m, how)

Spec == Init /\ [][Next]_vars
------------------------------------------------------------------------------
TypeOK ==
    /\ record \in [Matches -> [state : {"unknown", "running"} \cup PreStart \cup TerminalStates,
                               source : BOOLEAN, empties : 0..EmptyNeeded,
                               missing : 0..MissingNeeded]]
    /\ session \in [Matches -> {"none", "idle", "running"} \cup Ended]
    /\ external \subseteq Matches /\ listed \subseteq Matches
    /\ silent \in [Matches -> 0..EmptyNeeded]
    /\ step \in {"catalogue", "probe", "start"}
    /\ todo \subseteq Matches /\ chosen \subseteq Matches
    /\ restarts \in 0..MaxRestarts

(***************************************************************************)
(* A Playing match is given up for want of a source only after answers in  *)
(* a row that confirm it, however errors, restarts and waits for a slot    *)
(* are mixed in (_probe_source, _schedule_source_retry).                   *)
(***************************************************************************)
SkipIsEarned ==
    \A m \in Matches : record[m].state = "skipped_no_source" => silent[m] = EmptyNeeded

(***************************************************************************)
(* What admission starts never exceeds the limit, Workers that survived a  *)
(* restart of the Dashboard included, and is never a second Worker of such *)
(* a match (_start_waiting, worker_slot_status).                           *)
(***************************************************************************)
WithinLimit ==
    \A m \in chosen :
        session[m] # "running" /\ session'[m] = "running" /\ chosen' = {}
            => Cardinality(AllWorkers') <= MaxConcurrent /\ m \notin external

(***************************************************************************)
(* A match an operator stopped, whose session stays stopped until somebody *)
(* requests a start, is not started again by admission.                    *)
(***************************************************************************)
ObeysStop ==
    \A m \in chosen :
        session[m] # "running" /\ session'[m] = "running" /\ chosen' = {}
            => session[m] # "stopped"
ManualStopHolds == [][ObeysStop]_vars
==============================================================================
