------------------------------ MODULE Dashboard ------------------------------
(***************************************************************************)
(* The match sessions of src/dashboard_server.py: at most MaxConcurrent    *)
(* Worker processes, each the leader of a process group of its own, one    *)
(* per match.  HTTP requests and automatic admission start and stop them;  *)
(* one monitor thread per session polls the match, restarts a crashed      *)
(* Worker, finishes a played match and cleans up what a Worker leaves.     *)
(*                                                                         *)
(* session.lock serialises the threads of one session but is held across   *)
(* waits and network calls, while the process moves on and other sessions  *)
(* claim slots: hold[m] says who has the lock of m and where it stands.    *)
(* Deadlines and backoffs are kept as whether they have elapsed, which a   *)
(* step may find true or false.  Sessions replay no demo.                  *)
(***************************************************************************)
EXTENDS Integers, FiniteSets

CONSTANTS
    Matches,        \* match ids
    MaxConcurrent   \* GIF_MAX_CONCURRENT_MATCHES

ASSUME DashboardAssumption ==
    /\ IsFiniteSet(Matches)
    /\ MaxConcurrent \in Nat \ {0}

PlayedConfirmations == 2      \* PLAYED_CONFIRMATIONS_REQUIRED

Done == {"completed", "completed_with_warnings"}
Terminal == Done \cup {"stopping", "stopped", "failed"}   \* TERMINAL_LIFECYCLE_STATES
Lifecycles == Terminal \cup {"idle", "starting", "playing", "finishing"}

VARIABLES
    session,    \* the MatchSession of each match; Fresh when there is none
    worker,     \* its newest Worker process and what that process left behind
    hold,       \* the holder of session.lock and its progress
    watch,      \* the monitor thread: none, about to refresh or check, or leaving
    ensuring,   \* started matches whose start() has yet to call _ensure_monitor
    halted      \* history: stopped by an operator since the last requested start

vars == <<session, worker, hold, watch, ensuring, halted>>

\* "group" is worker_process_group, "clean" is worker_cleanup_stage with its
\* process group, "due" is worker_restart_due_at, "late" finish_timeout_signaled.
Session == [lc : Lifecycles, desired : BOOLEAN, due : BOOLEAN, group : BOOLEAN,
            clean : {"none", "term", "kill", "failed"},
            played : 0..PlayedConfirmations, late : BOOLEAN]
Fresh == [lc |-> "idle", desired |-> FALSE, due |-> FALSE, group |-> FALSE,
          clean |-> "none", played |-> 0, late |-> FALSE]

\* The leader exits before the Dashboard notes it (worker_exit_logged_pid);
\* "orphans" are the processes of its group that outlive it.
Process == [leader : {"none", "running", "exited", "noted"}, orphans : BOOLEAN]
NoProcess == [leader |-> "none", orphans |-> FALSE]

Places == {"free", "polls", "settle", "sigint", "cleanup", "await", "claim", "launch"}
Tasks == {"none", "refresh", "stop", "start", "restart", "recover"}
Hold == [at : Places, task : Tasks, by : {"none", "monitor", "request"}, prev : Lifecycles]
NoHold == [at |-> "free", task |-> "none", by |-> "none", prev |-> "idle"]

TypeOK ==
    /\ session \in [Matches -> Session]
    /\ worker \in [Matches -> Process]
    /\ hold \in [Matches -> Hold]
    /\ watch \in [Matches -> {"none", "refresh", "check", "leaving"}]
    /\ ensuring \in SUBSET Matches
    /\ halted \in SUBSET Matches

Init ==
    /\ session = [m \in Matches |-> Fresh]
    /\ worker = [m \in Matches |-> NoProcess]
    /\ hold = [m \in Matches |-> NoHold]
    /\ watch = [m \in Matches |-> "none"]
    /\ ensuring = {} /\ halted = {}

-----------------------------------------------------------------------------
\* State formulas of the code

Running(m) == worker[m].leader = "running"
Free(m) == hold[m].at = "free"

\* _process_group_exists, once the leader has been reaped
GroupAlive(m) == Running(m) \/ worker[m].orphans

\* Variant: a match that is only starting has not reserved its slot.
RunningOnly == {m \in Matches :
                   Running(m) \/ session[m].desired
                     \/ session[m].lc \in {"finishing", "stopping"}
                     \/ session[m].clean # "none"}
\* _active_match_summaries_locked: the matches that occupy a slot
Active == {m \in Matches :
              \/ Running(m) \/ session[m].desired
              \/ session[m].lc \in {"starting", "finishing", "stopping"}
              \/ session[m].clean # "none"}

\* _terminal_and_inactive
Inactive(m) == ~Running(m) /\ ~session[m].desired /\ ~session[m].group
                 /\ session[m].clean = "none"
TerminalAndInactive(m) == session[m].lc \in Terminal /\ Inactive(m)
\* _idle_session_expired, the retention having passed
IdleExpired(m) == session[m].lc \notin Terminal \cup {"finishing"} /\ Inactive(m)

-----------------------------------------------------------------------------
\* Operations on a session record s of match m, called under session.lock

\* _complete_worker_cleanup
Cleaned(s) == [s EXCEPT !.group = FALSE, !.clean = "none"]

\* Variant: a group that ignores SIGTERM is waited for.
AdvancedPatiently(m, s, elapsed) ==
    IF s.clean # "none" /\ ~GroupAlive(m) THEN Cleaned(s) ELSE s
\* _advance_worker_cleanup: a group that is gone completes the cleanup, else
\* SIGTERM is followed by SIGKILL and SIGKILL by giving up, each after its grace.
Advanced(m, s, elapsed) ==
    CASE s.clean = "none" -> s
      [] s.clean # "none" /\ ~GroupAlive(m) -> Cleaned(s)
      [] s.clean = "term" /\ GroupAlive(m) /\ elapsed -> [s EXCEPT !.clean = "kill"]
      [] s.clean = "kill" /\ GroupAlive(m) /\ elapsed -> [s EXCEPT !.clean = "failed"]
      [] OTHER -> s

\* Variant: nothing to do once the leader has exited.
BegunByLeader(m, s, elapsed) ==
    IF s.clean # "none" THEN Advanced(m, s, elapsed)
    ELSE IF Running(m) THEN [s EXCEPT !.clean = "term"] ELSE Cleaned(s)
\* _begin_worker_cleanup: SIGTERM to the whole group, unless it is under way
Begun(m, s, elapsed) ==
    IF s.clean # "none" THEN Advanced(m, s, elapsed)
    ELSE IF GroupAlive(m) THEN [s EXCEPT !.clean = "term"] ELSE Cleaned(s)

\* _finalize_finishing: the report and the exit code tell which of the two
Outcomes(m) == IF worker[m].leader = "none" THEN {"completed"} ELSE Done
Finalized(s, outcome) == [s EXCEPT !.lc = outcome]

\* _begin_finishing
Finishing(m, s, outcome) ==
    LET begun == [s EXCEPT !.lc = "finishing", !.desired = FALSE, !.due = FALSE,
                           !.late = FALSE] IN
    IF ~Running(m) /\ s.clean = "none" THEN Finalized(begun, outcome) ELSE begun

\* _update_match_lifecycle with the answer of the detail API
Updated(m, s, answer, outcome) ==
    IF s.lc \in Terminal \cup {"finishing"} \/ answer = "error" THEN s
    ELSE IF answer = "Played" THEN
        LET counted == [s EXCEPT !.played = @ + 1] IN
        IF counted.played >= PlayedConfirmations THEN Finishing(m, counted, outcome)
        ELSE counted
    ELSE [s EXCEPT !.played = 0, !.lc = IF answer = "Playing" THEN "playing" ELSE @]

\* _confirm_already_played_session
ConfirmedPlayed(m, s, outcome) ==
    IF s.lc \in Terminal \cup {"finishing"} THEN s
    ELSE Finishing(m, [s EXCEPT !.played = PlayedConfirmations], outcome)

-----------------------------------------------------------------------------
\* Giving the lock back; a monitor then looks whether it may end
Release(m) ==
    /\ hold' = [hold EXCEPT ![m] = NoHold]
    /\ watch' = IF hold[m].by = "monitor" THEN [watch EXCEPT ![m] = "check"] ELSE watch

GoTo(m, place) == hold' = [hold EXCEPT ![m].at = place] /\ UNCHANGED watch

\* start() raised: a request answers 409, a refresh schedules the next attempt
Raised(m, s, task) ==
    CASE task = "start" -> session' = [session EXCEPT ![m] = s] /\ Release(m)
      [] task = "recover" ->
            session' = [session EXCEPT ![m] = [s EXCEPT !.due = TRUE]] /\ Release(m)
      [] task = "restart" ->
            /\ session' = [session EXCEPT ![m] = [s EXCEPT !.due = TRUE]]
            /\ GoTo(m, "settle")

\* Variant: only a session without a history is asked.
FreshPlayed(s, task) == task = "start" /\ s.lc = "idle" /\ s.played > 0
\* A requested start of a match whose status is Played
AlreadyPlayed(s, task) == task = "start" /\ s.played > 0

\* start() once no earlier group is left: the lifecycle and configuration checks,
\* then "starting", which reserves a slot before it is claimed
Prepared(m, s, task) ==
    \/ /\ s.lc \in Done \cup {"finishing"}
       /\ Raised(m, s, task)
    \/ /\ s.lc \notin Done \cup {"finishing"}
       /\ AlreadyPlayed(s, task)
       /\ \E outcome \in Outcomes(m) : Raised(m, ConfirmedPlayed(m, s, outcome), task)
    \/ /\ s.lc \notin Done \cup {"finishing"}
       /\ ~AlreadyPlayed(s, task)
       /\ \/ Raised(m, s, task)             \* no source, a missing profile file
          \/ /\ session' = [session EXCEPT ![m] = [s EXCEPT !.lc = "starting"]]
             /\ hold' = [hold EXCEPT ![m].at = "claim", ![m].task = task,
                                     ![m].prev = s.lc]
             /\ UNCHANGED watch

\* Variant: whatever an earlier Worker left behind is its own affair.
StartRequestAtOnce(m) ==
    /\ Free(m) /\ ~Running(m)
    /\ ~session[m].desired
    /\ session[m].lc \notin {"starting", "finishing", "stopping"}
    /\ m \in Active \/ Cardinality(Active) < MaxConcurrent
    /\ Prepared(m, session[m], "start")
    /\ UNCHANGED <<worker, ensuring, halted>>
\* start() asked by a request or by automatic admission
StartRequest(m) ==
    /\ Free(m) /\ ~Running(m)
    /\ session[m].clean = "none"
    /\ ~session[m].desired
    /\ session[m].lc \notin {"starting", "finishing", "stopping"}
    /\ m \in Active \/ Cardinality(Active) < MaxConcurrent
    /\ IF session[m].group
       THEN /\ hold' = [hold EXCEPT ![m].at = "cleanup", ![m].task = "start"]
            /\ UNCHANGED <<session, watch>>
       ELSE Prepared(m, session[m], "start")
    /\ UNCHANGED <<worker, ensuring, halted>>

\* _claim_worker_slot, under the Dashboard's lock
ClaimSlot(m) ==
    /\ hold[m].at = "claim"
    /\ IF Cardinality(Active) <= MaxConcurrent
       THEN GoTo(m, "launch") /\ UNCHANGED session
       ELSE Raised(m, [session[m] EXCEPT !.lc = hold[m].prev], hold[m].task)
    /\ UNCHANGED <<worker, ensuring, halted>>

\* A requested start forgets the confirmations of an earlier one.
Launched(s, task) ==
    [s EXCEPT !.lc = "playing", !.desired = TRUE, !.due = FALSE, !.group = TRUE,
              !.late = FALSE, !.played = IF task = "start" THEN 0 ELSE @]

\* Popen and the bookkeeping after it.  A start() nested in a monitor's refresh
\* calls _ensure_monitor at once and finds that monitor alive.
Launch(m) ==
    /\ hold[m].at = "launch"
    /\ session' = [session EXCEPT ![m] = Launched(@, hold[m].task)]
    /\ worker' = [worker EXCEPT ![m] = [leader |-> "running", orphans |-> FALSE]]
    /\ IF hold[m].task = "start"
       THEN Release(m) /\ ensuring' = ensuring \cup {m} /\ halted' = halted \ {m}
       ELSE /\ IF hold[m].task = "restart" THEN GoTo(m, "settle") ELSE Release(m)
            /\ UNCHANGED <<ensuring, halted>>

LaunchFails(m) ==
    /\ hold[m].at = "launch"
    /\ Raised(m, [session[m] EXCEPT !.lc = hold[m].prev], hold[m].task)
    /\ UNCHANGED <<worker, ensuring, halted>>

-----------------------------------------------------------------------------
\* stop(): the desired state goes first, then SIGINT, a wait, and the cleanup

StopRequest(m) ==
    /\ Free(m)
    /\ LET s == [session[m] EXCEPT !.desired = FALSE, !.due = FALSE, !.lc = "stopping"] IN
       IF Running(m) \/ s.clean # "none" \/ s.group
       THEN /\ session' = [session EXCEPT ![m] = s]
            /\ hold' = [hold EXCEPT ![m].at = IF Running(m) THEN "sigint" ELSE "cleanup",
                                    ![m].task = "stop", ![m].by = "request"]
       ELSE /\ session' = [session EXCEPT ![m] = [s EXCEPT !.lc = "stopped"]]
            /\ UNCHANGED hold
    /\ halted' = halted \cup {m}
    /\ UNCHANGED <<worker, watch, ensuring>>

\* worker.wait(timeout=12) returned or timed out
Waited(m) ==
    /\ hold[m].at = "sigint"
    /\ GoTo(m, "cleanup")
    /\ UNCHANGED <<session, worker, ensuring, halted>>

\* _cleanup_worker_group_blocking: its first call, then its polls
BeginCleanup(m, elapsed) ==
    /\ hold[m].at = "cleanup"
    /\ session' = [session EXCEPT ![m] = Begun(m, @, elapsed)]
    /\ GoTo(m, "await")
    /\ UNCHANGED <<worker, ensuring, halted>>

PollCleanup(m, elapsed) ==
    /\ hold[m].at = "await"
    /\ session[m].clean \in {"term", "kill"}
    /\ session' = [session EXCEPT ![m] = Advanced(m, @, elapsed)]
    /\ UNCHANGED <<worker, hold, watch, ensuring, halted>>

CleanupSucceeds(m) ==
    /\ hold[m].at = "await" /\ session[m].clean = "none"
    /\ IF hold[m].task = "stop"
       THEN session' = [session EXCEPT ![m].lc = "stopped"] /\ Release(m)
       ELSE Prepared(m, session[m], hold[m].task)
    /\ UNCHANGED <<worker, ensuring, halted>>

CleanupFails(m) ==
    /\ hold[m].at = "await" /\ session[m].clean = "failed"
    /\ IF hold[m].task = "stop"
       THEN session' = [session EXCEPT ![m].lc = "failed"] /\ Release(m)
       ELSE Raised(m, session[m], hold[m].task)
    /\ UNCHANGED <<worker, ensuring, halted>>

-----------------------------------------------------------------------------
\* refresh(): first a Worker that has exited is noted, its group cleaned up and
\* its restart scheduled.  A request refreshes only before a source is known,
\* which is before the first Worker.
Refresh(m, by) ==
    /\ Free(m)
    /\ by = "monitor" => watch[m] = "refresh"
    /\ by = "request" => worker[m].leader = "none"
    /\ hold' = [hold EXCEPT ![m] = [NoHold EXCEPT !.at = "polls", !.task = "refresh",
                                                  !.by = by]]
    /\ IF worker[m].leader # "exited"
       THEN UNCHANGED <<session, worker>>
       ELSE LET s == IF session[m].group THEN Begun(m, session[m], FALSE) ELSE session[m] IN
            /\ worker' = [worker EXCEPT ![m].leader = "noted"]
            /\ \E outcome \in Done :
                  session' = [session EXCEPT ![m] =
                      IF s.lc = "finishing" /\ s.clean = "none" THEN Finalized(s, outcome)
                      ELSE IF s.desired THEN [s EXCEPT !.due = TRUE] ELSE s]
    /\ UNCHANGED <<watch, ensuring, halted>>

\* then the detail and source APIs are asked; a source that changed stops the
\* running Worker and keeps the match desired
Poll(m, answer, changed) ==
    /\ hold[m].at = "polls"
    /\ \E outcome \in Outcomes(m) :
          LET s == Updated(m, session[m], answer, outcome) IN
          /\ session' = [session EXCEPT ![m] = s]
          /\ IF changed /\ s.lc \notin Terminal \cup {"finishing"} /\ Running(m)
                        /\ s.clean = "none"
             THEN hold' = [hold EXCEPT ![m].at = "sigint", ![m].task = "restart"]
             ELSE hold' = [hold EXCEPT ![m].at = "settle", ![m].task = "refresh"]
    /\ UNCHANGED <<worker, watch, ensuring, halted>>

\* Variant: every Worker that exited is restarted, not only a desired one.
MayRecoverExited(m, s, elapsed) ==
    /\ s.lc \notin Done \cup {"finishing"} /\ worker[m].leader = "noted"
    /\ s.clean = "none" /\ elapsed
\* the Worker of a desired match is not running and its backoff has elapsed
MayRecover(m, s, elapsed) ==
    /\ s.desired /\ s.lc \notin Terminal \cup {"finishing"} /\ ~Running(m)
    /\ s.clean = "none" /\ s.due /\ elapsed

\* last the cleanup advances, a crashed Worker is started again once its backoff
\* has elapsed, and a finishing match ends with its Worker or at its deadline
Settle(m, elapsed) ==
    /\ hold[m].at = "settle"
    /\ LET s == Advanced(m, session[m], elapsed) IN
       IF MayRecover(m, s, elapsed)
       THEN LET again == [s EXCEPT !.due = FALSE] IN
            IF s.group
            THEN /\ session' = [session EXCEPT ![m] = again]
                 /\ hold' = [hold EXCEPT ![m].at = "cleanup", ![m].task = "recover"]
                 /\ UNCHANGED watch
            ELSE Prepared(m, again, "recover")
       ELSE /\ Release(m)
            /\ \E outcome \in Outcomes(m) :
                  session' = [session EXCEPT ![m] =
                      IF s.lc # "finishing" THEN s
                      ELSE IF Running(m)
                           THEN IF elapsed /\ ~s.late
                                THEN Begun(m, [s EXCEPT !.late = TRUE], FALSE)
                                ELSE s
                      ELSE IF s.clean = "none" THEN Finalized(s, outcome) ELSE s]
    /\ UNCHANGED <<worker, ensuring, halted>>

-----------------------------------------------------------------------------
\* The monitor thread and the registry

\* _ensure_monitor; a thread on its way out is still alive
EnsureMonitor(m) ==
    watch' = IF watch[m] = "none" /\ ~TerminalAndInactive(m)
             THEN [watch EXCEPT ![m] = "refresh"] ELSE watch

\* get() of any request that names the match
Get(m) ==
    /\ EnsureMonitor(m)
    /\ UNCHANGED <<session, worker, hold, ensuring, halted>>

\* the end of start(), after session.lock was given back
EnsureStarted(m) ==
    /\ m \in ensuring
    /\ EnsureMonitor(m)
    /\ ensuring' = ensuring \ {m}
    /\ UNCHANGED <<session, worker, hold, halted>>

\* _monitor after a refresh: leave the loop, or wait for the next round
MonitorChecks(m) ==
    /\ watch[m] = "check" /\ Free(m)
    /\ \/ TerminalAndInactive(m) /\ watch' = [watch EXCEPT ![m] = "leaving"]
       \/ IdleExpired(m) /\ watch' = [watch EXCEPT ![m] = "leaving"]
       \/ ~TerminalAndInactive(m) /\ watch' = [watch EXCEPT ![m] = "refresh"]
    /\ UNCHANGED <<session, worker, hold, ensuring, halted>>

MonitorLeaves(m) ==
    /\ watch[m] = "leaving"
    /\ watch' = [watch EXCEPT ![m] = "none"]
    /\ UNCHANGED <<session, worker, hold, ensuring, halted>>

\* _prune_terminal_sessions_locked, _prune_idle_sessions_locked
Prune(m) ==
    /\ Free(m) /\ m \notin ensuring /\ watch[m] = "none"
    /\ TerminalAndInactive(m) \/ IdleExpired(m)
    /\ session' = [session EXCEPT ![m] = Fresh]
    /\ worker' = [worker EXCEPT ![m] = NoProcess]
    /\ halted' = halted \ {m}
    /\ UNCHANGED <<hold, watch, ensuring>>

-----------------------------------------------------------------------------
\* The processes: a leader ends (finished, crashed, or on a signal) and may leave
\* processes of its group behind, which end in turn

LeaderExits(m) ==
    /\ Running(m)
    /\ \E orphans \in BOOLEAN :
          worker' = [worker EXCEPT ![m] = [leader |-> "exited", orphans |-> orphans]]
    /\ UNCHANGED <<session, hold, watch, ensuring, halted>>

OrphansExit(m) ==
    /\ worker[m].orphans
    /\ worker' = [worker EXCEPT ![m].orphans = FALSE]
    /\ UNCHANGED <<session, hold, watch, ensuring, halted>>

-----------------------------------------------------------------------------
MatchStep(m) ==
    \/ StartRequest(m) \/ ClaimSlot(m) \/ Launch(m) \/ LaunchFails(m)
    \/ StopRequest(m) \/ Waited(m) \/ CleanupSucceeds(m) \/ CleanupFails(m)
    \/ (\E elapsed \in BOOLEAN :
           BeginCleanup(m, elapsed) \/ PollCleanup(m, elapsed) \/ Settle(m, elapsed))
    \/ (\E by \in {"monitor", "request"} : Refresh(m, by))
    \/ (\E answer \in {"error", "Playing", "Played", "Uncertain"}, changed \in BOOLEAN :
           Poll(m, answer, changed))
    \/ Get(m) \/ EnsureStarted(m) \/ MonitorChecks(m) \/ MonitorLeaves(m) \/ Prune(m)
    \/ LeaderExits(m) \/ OrphansExit(m)

Next == \E m \in Matches : MatchStep(m)

Spec == Init /\ [][Next]_vars

\* Whoever holds the lock goes on; a waiting monitor gets it in the end, requests
\* being rare.  Clocks advance, so that a deadline is not missed for ever, and a
\* configuration that worked and Popen succeed now and then.  SIGKILL kills.
Proceeds(m) ==
    \/ ClaimSlot(m) \/ Launch(m) \/ LaunchFails(m) \/ Waited(m)
    \/ CleanupSucceeds(m) \/ CleanupFails(m)
    \/ \E elapsed \in BOOLEAN : BeginCleanup(m, elapsed) \/ Settle(m, elapsed)
    \/ \E answer \in {"error", "Playing", "Played", "Uncertain"}, changed \in BOOLEAN :
          Poll(m, answer, changed)
Recovers(m) == Settle(m, TRUE) /\ hold'[m].at # "free"
Dies(m) == session[m].clean \in {"kill", "failed"} /\ (LeaderExits(m) \/ OrphansExit(m))

Fairness == \A m \in Matches :
    /\ WF_vars(Proceeds(m)) /\ WF_vars(PollCleanup(m, TRUE))
    /\ SF_vars(Refresh(m, "monitor")) /\ SF_vars(MonitorChecks(m))
    /\ SF_vars(Settle(m, TRUE)) /\ SF_vars(Recovers(m)) /\ SF_vars(Launch(m))
    /\ WF_vars(Dies(m))

FairSpec == Spec /\ Fairness

-----------------------------------------------------------------------------
(***************************************************************************)
(* Properties.                                                             *)
(***************************************************************************)

\* "A ninth match receives an HTTP 409": the Workers of this Dashboard, those
\* about to be launched included, never exceed the limit, whichever sessions
\* check, reserve and claim at the same time.
WorkersWithinLimit ==
    Cardinality({m \in Matches : Running(m) \/ hold[m].at = "launch"}) <= MaxConcurrent

\* A Worker is launched only when nothing of the match's previous process group
\* is left: two never share its database and buffer.
OneGroupPerMatch ==
    [][\A m \in Matches : ~Running(m) /\ Running(m)' => ~worker[m].orphans]_vars

\* "A manual stop clears the desired state first, so it is never undone by
\* automatic recovery", whether it meets a crash, a backoff, a changed source
\* or a cleanup that fails.
StopNotUndone ==
    [][\A m \in Matches :
          m \in halted /\ ~Running(m) /\ Running(m)' => hold[m].task = "start"]_vars

\* A session that is stopped, or that the registry may drop and whose buffer the
\* maintenance deletes, has no process left.
StoppedMeansGone ==
    \A m \in Matches :
       session[m].lc = "stopped" \/ TerminalAndInactive(m) => ~GroupAlive(m)

\* A match that was confirmed as played gets no Worker again.
PlayedNotRestarted ==
    \A m \in Matches : hold[m].at = "launch" => session[m].played < PlayedConfirmations

Watched(m) == watch[m] \in {"refresh", "check"}

\* A watched match does not stay finishing, though its Worker ignores the request
\* and the signals that follow the deadline (a match is watched while it finishes).
FinishingEnds == \A m \in Matches : []<>(session[m].lc # "finishing" \/ ~Watched(m))

\* A watched match that is to run does not stay without a Worker: a crashed one is
\* started again, or the match is stopped or finished (while it is to run, it is
\* watched).
CrashedWorkerReturns ==
    \A m \in Matches : []<>(Running(m) \/ ~session[m].desired \/ ~Watched(m))
=============================================================================
