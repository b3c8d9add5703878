--------------------------- MODULE DashboardProofs ---------------------------
(***************************************************************************)
(* The safety properties of Dashboard for any finite set of matches and    *)
(* any limit.  They follow from an invariant with one part for the session *)
(* record, which every operation on it preserves, and one part for what    *)
(* the holder of session.lock has established on its way; a step of one    *)
(* match leaves the parts of the others alone.                             *)
(***************************************************************************)
EXTENDS MCDashboard, FiniteSetTheorems, TLAPS

Ended == Terminal \cup {"finishing"}
OnItsWay == {"claim", "launch"}
Stopping == {"sigint", "cleanup", "await"}

\* What holds of the session record s of match m, also while an operation is
\* building it
SessionOk(m, s) ==
    /\ GroupAlive(m) => s.group
    /\ s.clean # "none" => s.group
    /\ s.lc = "stopped" => ~s.group
    /\ s.lc \notin Ended => s.played < PlayedConfirmations
    /\ m \in halted => ~s.desired

\* A start that is on its way has nothing of an earlier group beside it.
LaunchClear(m) ==
    /\ session[m].lc = "starting" => hold[m].at \in OnItsWay
    /\ hold[m].at \in OnItsWay =>
          /\ session[m].lc = "starting" /\ hold[m].prev # "starting"
          /\ ~session[m].group /\ session[m].clean = "none"
    /\ hold[m].at = "await" /\ session[m].clean = "none" => ~session[m].group

\* A restart is on its way only for a match that is to run.
RestartWanted(m) ==
    /\ hold[m].at \in OnItsWay => hold[m].task \in {"start", "restart", "recover"}
    /\ hold[m].at \in Stopping => hold[m].task \in {"stop", "start", "restart", "recover"}
    /\ hold[m].at \in OnItsWay \cup Stopping /\ hold[m].task \in {"restart", "recover"} =>
          m \notin halted
    /\ hold[m].at \in Stopping /\ hold[m].task \in {"restart", "recover"} =>
          session[m].lc \notin Ended

\* A stopped match stays in a terminal state unless a request starts it.
HaltedStays(m) ==
    m \in halted => \/ session[m].lc \in Terminal
                    \/ /\ hold[m].at \in OnItsWay /\ hold[m].task = "start"
                       /\ hold[m].prev \in Terminal

MatchInv(m) ==
    /\ SessionOk(m, session[m])
    /\ LaunchClear(m) /\ RestartWanted(m) /\ HaltedStays(m)

DashboardInv == TypeOK /\ \A m \in Matches : MatchInv(m)

-----------------------------------------------------------------------------
\* The operations on a session record

\* _complete_worker_cleanup and _advance_worker_cleanup give up a group only when
\* no process of it is left, and touch nothing but the group and the stage.
LEMMA AdvancedOk ==
  ASSUME NEW m \in Matches, NEW s \in Session, NEW elapsed \in BOOLEAN, SessionOk(m, s),
         NEW t, t = Advanced(m, s, elapsed)
  PROVE  /\ t \in Session /\ SessionOk(m, t)
         /\ t.lc = s.lc /\ t.desired = s.desired /\ t.played = s.played
         /\ s.clean = "none" => t = s
         /\ s.clean # "none" /\ t.clean = "none" => ~t.group
<1>1. s.clean \in {"none", "term", "kill", "failed"}
  BY DEF Session
<1>2. CASE s.clean = "none"
  <2>1. t = s
    BY <1>2 DEF Advanced
  <2> QED
    BY <1>2, <2>1
<1>3. CASE s.clean # "none" /\ ~GroupAlive(m)
  <2>1. t = [s EXCEPT !.group = FALSE, !.clean = "none"]
    BY <1>1, <1>3 DEF Advanced, Cleaned
  <2>2. /\ t \in Session /\ t.lc = s.lc /\ t.desired = s.desired
        /\ t.played = s.played /\ ~t.group /\ t.clean = "none"
    BY <2>1 DEF Session
  <2> QED
    BY <1>3, <2>2 DEF SessionOk
<1>4. CASE s.clean # "none" /\ GroupAlive(m)
  <2>1. \/ t = s
        \/ t = [s EXCEPT !.clean = "kill"]
        \/ t = [s EXCEPT !.clean = "failed"]
    BY <1>1, <1>4 DEF Advanced
  <2>2. /\ t \in Session /\ t.lc = s.lc /\ t.desired = s.desired
        /\ t.played = s.played /\ t.group = s.group /\ t.clean # "none"
    BY <1>4, <2>1 DEF Session
  <2> QED
    BY <1>4, <2>2 DEF SessionOk
<1> QED
  BY <1>2, <1>3, <1>4

\* _begin_worker_cleanup: afterwards either a stage is under way or nothing of
\* the group is left.
LEMMA BegunOk ==
  ASSUME NEW m \in Matches, NEW s \in Session, NEW elapsed \in BOOLEAN, SessionOk(m, s),
         NEW t, t = Begun(m, s, elapsed)
  PROVE  /\ t \in Session /\ SessionOk(m, t)
         /\ t.lc = s.lc /\ t.desired = s.desired /\ t.played = s.played
         /\ t.clean = "none" => ~t.group
<1>1. CASE s.clean # "none"
  <2>1. t = Advanced(m, s, elapsed)
    BY <1>1 DEF Begun
  <2> QED
    BY <1>1, <2>1, AdvancedOk
<1>2. CASE s.clean = "none" /\ GroupAlive(m)
  <2>1. t = [s EXCEPT !.clean = "term"]
    BY <1>2 DEF Begun
  <2>2. /\ t \in Session /\ t.lc = s.lc /\ t.desired = s.desired
        /\ t.played = s.played /\ t.group = s.group /\ t.clean = "term"
    BY <2>1 DEF Session
  <2> QED
    BY <1>2, <2>2 DEF SessionOk
<1>3. CASE s.clean = "none" /\ ~GroupAlive(m)
  <2>1. t = [s EXCEPT !.group = FALSE, !.clean = "none"]
    BY <1>3 DEF Begun, Cleaned
  <2>2. /\ t \in Session /\ t.lc = s.lc /\ t.desired = s.desired
        /\ t.played = s.played /\ ~t.group /\ t.clean = "none"
    BY <2>1 DEF Session
  <2> QED
    BY <1>3, <2>2 DEF SessionOk
<1> QED
  BY <1>1, <1>2, <1>3

\* _begin_finishing ends the match, _finalize_finishing included.
LEMMA FinishingOk ==
  ASSUME NEW m \in Matches, NEW s \in Session, NEW outcome \in Done,
         GroupAlive(m) => s.group, s.clean # "none" => s.group,
         NEW t, t = Finishing(m, s, outcome)
  PROVE  /\ t \in Session /\ SessionOk(m, t) /\ t.lc \in Done \cup {"finishing"}
         /\ t.group = s.group /\ t.clean = s.clean
<1>1. PICK begun : begun = [s EXCEPT !.lc = "finishing", !.desired = FALSE,
                                     !.due = FALSE, !.late = FALSE]
  OBVIOUS
<1>2. /\ begun \in Session /\ begun.lc = "finishing" /\ ~begun.desired
      /\ begun.group = s.group /\ begun.clean = s.clean
  BY <1>1 DEF Session, Lifecycles
<1>3. t = begun \/ t = [begun EXCEPT !.lc = outcome]
  BY <1>1 DEF Finishing, Finalized
<1>4. /\ t \in Session /\ t.lc \in Done \cup {"finishing"} /\ ~t.desired
      /\ t.group = s.group /\ t.clean = s.clean
  BY <1>2, <1>3 DEF Session, Lifecycles, Terminal
<1>5. t.lc \in Ended /\ t.lc # "stopped"
  BY <1>4 DEF Ended, Terminal, Done
<1> QED
  BY <1>4, <1>5 DEF SessionOk

\* _update_match_lifecycle: the second confirmation ends the match, so that one
\* that has not ended has fewer.
LEMMA UpdatedOk ==
  ASSUME NEW m \in Matches, NEW s \in Session, SessionOk(m, s), s.lc # "starting",
         NEW answer \in {"error", "Playing", "Played", "Uncertain"}, NEW outcome \in Done,
         NEW t, t = Updated(m, s, answer, outcome)
  PROVE  /\ t \in Session /\ SessionOk(m, t) /\ t.lc # "starting"
         /\ s.lc \in Terminal => t.lc \in Terminal
         /\ t.group = s.group /\ t.clean = s.clean
<1>1. CASE s.lc \in Terminal \cup {"finishing"} \/ answer = "error"
  <2>1. t = s
    BY <1>1 DEF Updated
  <2> QED
    BY <2>1
<1>2. CASE s.lc \notin Terminal \cup {"finishing"} /\ answer = "Played"
  <2>1. s.played \in Nat /\ s.played < 2
    BY <1>2 DEF Session, SessionOk, Ended, PlayedConfirmations
  <2>2. PICK counted : counted = [s EXCEPT !.played = @ + 1]
    OBVIOUS
  <2>3. /\ counted \in Session /\ counted.played = s.played + 1
        /\ counted.lc = s.lc /\ counted.group = s.group /\ counted.clean = s.clean
        /\ counted.desired = s.desired
    BY <2>1, <2>2 DEF Session, PlayedConfirmations
  <2>4. t = IF counted.played >= PlayedConfirmations
            THEN Finishing(m, counted, outcome) ELSE counted
    BY <1>2, <2>2 DEF Updated
  <2>5. CASE counted.played < 2
    <3>1. t = counted
      BY <2>1, <2>3, <2>4, <2>5 DEF PlayedConfirmations
    <3> QED
      BY <1>2, <2>3, <2>5, <3>1 DEF SessionOk, PlayedConfirmations
  <2>6. CASE ~(counted.played < 2)
    <3>1. t = Finishing(m, counted, outcome)
      BY <2>1, <2>3, <2>4, <2>6 DEF PlayedConfirmations
    <3>2. (GroupAlive(m) => counted.group) /\ (counted.clean # "none" => counted.group)
      BY <2>3 DEF SessionOk
    <3>3. /\ t \in Session /\ SessionOk(m, t) /\ t.lc \in Done \cup {"finishing"}
          /\ t.group = counted.group /\ t.clean = counted.clean
      BY <2>3, <3>1, <3>2, FinishingOk
    <3> QED
      BY <1>2, <2>3, <3>3 DEF Done
  <2> QED
    BY <2>5, <2>6
<1>3. CASE s.lc \notin Terminal \cup {"finishing"} /\ answer \in {"Playing", "Uncertain"}
  <2>1. PICK lc \in {s.lc, "playing"} : t = [s EXCEPT !.played = 0, !.lc = lc]
    BY <1>3 DEF Updated
  <2>2. lc \in Lifecycles /\ 0 \in 0..PlayedConfirmations
    BY DEF Session, Lifecycles, PlayedConfirmations
  <2>3. t \in Session /\ t.lc = lc /\ t.group = s.group
           /\ t.clean = s.clean /\ t.played = 0 /\ t.desired = s.desired
    BY <2>1, <2>2 DEF Session
  <2> QED
    BY <1>3, <2>3 DEF SessionOk, PlayedConfirmations
<1> QED
  BY <1>1, <1>2, <1>3

\* _confirm_already_played_session
LEMMA ConfirmedOk ==
  ASSUME NEW m \in Matches, NEW s \in Session, SessionOk(m, s), NEW outcome \in Done,
         NEW t, t = ConfirmedPlayed(m, s, outcome)
  PROVE  /\ t \in Session /\ SessionOk(m, t) /\ t.lc \in Ended
         /\ t.group = s.group /\ t.clean = s.clean
         /\ s.lc \in Terminal => t.lc \in Terminal
<1>1. CASE s.lc \in Terminal \cup {"finishing"}
  <2>1. t = s
    BY <1>1 DEF ConfirmedPlayed
  <2> QED
    BY <1>1, <2>1 DEF Ended
<1>2. CASE s.lc \notin Terminal \cup {"finishing"}
  <2>1. PICK u : u = [s EXCEPT !.played = PlayedConfirmations]
    OBVIOUS
  <2>2. t = Finishing(m, u, outcome)
    BY <1>2, <2>1 DEF ConfirmedPlayed
  <2>3. u \in Session /\ u.group = s.group /\ u.clean = s.clean
    BY <2>1 DEF Session, PlayedConfirmations
  <2>4. /\ t \in Session /\ SessionOk(m, t) /\ t.lc \in Done \cup {"finishing"}
        /\ t.group = s.group /\ t.clean = s.clean
    BY <2>2, <2>3, FinishingOk DEF SessionOk
  <2> QED
    BY <1>2, <2>4 DEF Ended, Terminal
<1> QED
  BY <1>1, <1>2

\* _finalize_finishing chooses between the two completed states.
LEMMA OutcomesDone == \A m \in Matches : Outcomes(m) \subseteq Done
BY DEF Outcomes, Done

-----------------------------------------------------------------------------
\* The ends of a start

\* What a step of match m leaves alone
OthersKept(m) ==
    /\ \A n \in Matches \ {m} : /\ session'[n] = session[n] /\ worker'[n] = worker[n]
                                /\ hold'[n] = hold[n]
                                /\ n \in halted' <=> n \in halted
    /\ ensuring' \in SUBSET Matches

\* The holder of session.lock goes on, or gives the lock back.
LEMMA GoToOk ==
  ASSUME TypeOK, NEW m \in Matches, NEW place \in Places, GoTo(m, place)
  PROVE  /\ hold' \in [Matches -> Hold]
         /\ hold'[m].at = place /\ hold'[m].task = hold[m].task
         /\ hold'[m].prev = hold[m].prev
         /\ \A n \in Matches \ {m} : hold'[n] = hold[n]
         /\ watch' \in [Matches -> {"none", "refresh", "check", "leaving"}]
<1>1. hold[m] \in Hold
  BY DEF TypeOK
<1>2. PICK h : h = [hold[m] EXCEPT !.at = place]
  OBVIOUS
<1>3. h \in Hold /\ h.at = place /\ h.task = hold[m].task /\ h.prev = hold[m].prev
  BY <1>1, <1>2 DEF Hold
<1>4. hold' = [hold EXCEPT ![m] = h]
  BY <1>2 DEF GoTo
<1> QED
  BY <1>3, <1>4 DEF GoTo, TypeOK

\* Giving session.lock back leaves the holders of the other sessions alone.
LEMMA ReleaseOk ==
  ASSUME TypeOK, NEW m \in Matches, Release(m)
  PROVE  /\ hold' \in [Matches -> Hold] /\ hold'[m] = NoHold /\ hold'[m].at = "free"
         /\ \A n \in Matches \ {m} : hold'[n] = hold[n]
         /\ watch' \in [Matches -> {"none", "refresh", "check", "leaving"}]
<1>1. NoHold \in Hold /\ NoHold.at = "free"
  BY DEF NoHold, Hold, Places, Tasks, Lifecycles
<1>2. hold' = [hold EXCEPT ![m] = NoHold]
  BY DEF Release
<1>3. watch' = watch \/ watch' = [watch EXCEPT ![m] = "check"]
  BY DEF Release
<1> QED
  BY <1>1, <1>2, <1>3 DEF TypeOK

\* A record that is stored where no start or stop is on its way needs no more
\* than its own part of the invariant.
LEMMA AtRest ==
  ASSUME TypeOK, NEW m \in Matches, NEW s \in Session,
         session' = [session EXCEPT ![m] = s], UNCHANGED <<worker, halted>>,
         hold'[m].at \in {"free", "polls", "settle"},
         SessionOk(m, s), s.lc # "starting", m \in halted => s.lc \in Terminal
  PROVE  MatchInv(m)'
<1>1. session'[m] = s
  BY DEF TypeOK
<1>2. SessionOk(m, session[m])'
  BY <1>1 DEF SessionOk, GroupAlive, Running
<1>3. hold'[m].at \notin OnItsWay \cup Stopping /\ hold'[m].at # "await"
  BY DEF OnItsWay, Stopping
<1> QED
  BY <1>1, <1>2, <1>3 DEF MatchInv, LaunchClear, RestartWanted, HaltedStays

\* start() raised: the lock is free, or the refresh goes on.
LEMMA RaisedInv ==
  ASSUME TypeOK, NEW m \in Matches, NEW s \in Session, SessionOk(m, s),
         s.lc # "starting", m \in halted => s.lc \in Terminal,
         NEW task \in {"start", "restart", "recover"}, Raised(m, s, task),
         UNCHANGED <<worker, ensuring, halted>>
  PROVE  TypeOK' /\ MatchInv(m)' /\ OthersKept(m)
<1>1. PICK t \in {s, [s EXCEPT !.due = TRUE]} :
        /\ session' = [session EXCEPT ![m] = t]
        /\ GoTo(m, "settle") \/ Release(m)
  BY DEF Raised
<1>2. t \in Session /\ t.lc = s.lc /\ t.group = s.group /\ t.clean = s.clean
         /\ t.played = s.played /\ t.desired = s.desired
  BY DEF Session
<1>3. /\ hold' \in [Matches -> Hold] /\ hold'[m].at \in {"free", "settle"}
      /\ \A n \in Matches \ {m} : hold'[n] = hold[n]
      /\ watch' \in [Matches -> {"none", "refresh", "check", "leaving"}]
  BY <1>1, GoToOk, ReleaseOk DEF Places
<1>4. TypeOK'
  BY <1>1, <1>2, <1>3 DEF TypeOK
<1>5. SessionOk(m, t)
  BY <1>2 DEF SessionOk
<1>6. MatchInv(m)'
  BY <1>1, <1>2, <1>3, <1>5, AtRest
<1> QED
  BY <1>1, <1>3, <1>4, <1>6 DEF OthersKept, TypeOK

\* start() up to the reservation of a slot
LEMMA PreparedInv ==
  ASSUME TypeOK, NEW m \in Matches, NEW s \in Session, SessionOk(m, s),
         ~s.group, s.clean = "none", s.lc # "starting",
         m \in halted => s.lc \in Terminal,
         NEW task \in {"start", "restart", "recover"},
         task # "start" => m \notin halted /\ s.lc \notin Ended,
         Prepared(m, s, task), UNCHANGED <<worker, ensuring, halted>>
  PROVE  TypeOK' /\ MatchInv(m)' /\ OthersKept(m)
<1>1. CASE Raised(m, s, task)
  BY <1>1, RaisedInv
<1>2. CASE \E outcome \in Outcomes(m) : Raised(m, ConfirmedPlayed(m, s, outcome), task)
  <2>1. PICK outcome \in Done : Raised(m, ConfirmedPlayed(m, s, outcome), task)
    BY <1>2, OutcomesDone
  <2>2. PICK t : t = ConfirmedPlayed(m, s, outcome)
    OBVIOUS
  <2>3. t \in Session /\ SessionOk(m, t) /\ t.lc \in Ended
           /\ (s.lc \in Terminal => t.lc \in Terminal)
    BY <2>2, ConfirmedOk
  <2>4. t.lc # "starting"
    BY <2>3 DEF Ended, Terminal, Done
  <2>5. Raised(m, t, task)
    BY <2>1, <2>2
  <2> QED
    BY <2>3, <2>4, <2>5, RaisedInv
<1>3. CASE /\ s.lc \notin Done \cup {"finishing"} /\ ~AlreadyPlayed(s, task)
           /\ session' = [session EXCEPT ![m] = [s EXCEPT !.lc = "starting"]]
           /\ hold' = [hold EXCEPT ![m].at = "claim", ![m].task = task, ![m].prev = s.lc]
           /\ UNCHANGED watch
  <2>1. PICK t : t = [s EXCEPT !.lc = "starting"]
    OBVIOUS
  <2>2. t \in Session /\ t.lc = "starting" /\ t.group = s.group /\ t.clean = s.clean
           /\ t.played = s.played /\ t.desired = s.desired
    BY <2>1 DEF Session, Lifecycles
  <2>3. session'[m] = t /\ session' \in [Matches -> Session]
    BY <1>3, <2>1, <2>2 DEF TypeOK
  <2>4. s.played < PlayedConfirmations
    <3>1. CASE task = "start"
      BY <1>3, <3>1 DEF AlreadyPlayed, Session, PlayedConfirmations
    <3>2. CASE task # "start"
      BY <3>2 DEF SessionOk
    <3> QED
      BY <3>1, <3>2
  <2>5. SessionOk(m, session[m])'
    BY <2>2, <2>3, <2>4 DEF SessionOk, GroupAlive, Running
  <2>6. s.lc \in Lifecycles
    BY DEF Session
  <2>7. /\ hold'[m].at = "claim" /\ hold'[m].task = task /\ hold'[m].prev = s.lc
        /\ hold' \in [Matches -> Hold]
        /\ \A n \in Matches \ {m} : hold'[n] = hold[n]
    <3>1. PICK h : h = [hold[m] EXCEPT !.at = "claim", !.task = task, !.prev = s.lc]
      OBVIOUS
    <3>2. h \in Hold /\ h.at = "claim" /\ h.task = task /\ h.prev = s.lc
      BY <2>6, <3>1 DEF TypeOK, Hold, Places, Tasks
    <3>3. hold' = [hold EXCEPT ![m] = h]
      BY <1>3, <3>1 DEF TypeOK
    <3> QED
      BY <3>2, <3>3 DEF TypeOK
  <2>8. TypeOK'
    BY <1>3, <2>3, <2>7 DEF TypeOK
  <2>9. LaunchClear(m)' /\ RestartWanted(m)' /\ HaltedStays(m)'
    BY <2>2, <2>3, <2>7 DEF LaunchClear, RestartWanted, HaltedStays, OnItsWay, Stopping,
                            Ended
  <2> QED
    BY <1>3, <2>5, <2>7, <2>8, <2>9 DEF MatchInv, OthersKept, TypeOK
<1> QED
  BY <1>1, <1>2, <1>3 DEF Prepared

-----------------------------------------------------------------------------
\* Every step keeps the invariant of its match.

\* A match none of whose starts has got as far as the reservation
LEMMA RestFacts ==
  ASSUME TypeOK, NEW m \in Matches, MatchInv(m), hold[m].at \notin OnItsWay
  PROVE  /\ session[m] \in Session /\ SessionOk(m, session[m])
         /\ session[m].lc # "starting"
         /\ m \in halted => session[m].lc \in Terminal
BY DEF TypeOK, MatchInv, LaunchClear, HaltedStays

\* A step that only moves the holder on, short of the reservation
LEMMA MovedOn ==
  ASSUME TypeOK, NEW m \in Matches, NEW place \in Stopping, NEW s \in Session,
         SessionOk(m, s), s.lc # "starting", m \in halted => s.lc \in Terminal,
         session' = [session EXCEPT ![m] = s], UNCHANGED <<worker, halted>>,
         hold'[m].at = place, hold'[m].task \in {"stop", "start", "restart", "recover"},
         hold'[m].task \in {"restart", "recover"} => m \notin halted /\ s.lc \notin Ended,
         place = "await" /\ s.clean = "none" => ~s.group
  PROVE  MatchInv(m)'
<1>1. session'[m] = s
  BY DEF TypeOK
<1>2. SessionOk(m, session[m])'
  BY <1>1 DEF SessionOk, GroupAlive, Running
<1>3. hold'[m].at \notin OnItsWay
  BY DEF OnItsWay, Stopping
<1> QED
  BY <1>1, <1>2, <1>3 DEF MatchInv, LaunchClear, RestartWanted, HaltedStays

\* start() up to the cleanup of an earlier group, or to its reservation.
LEMMA StartRequestInv ==
  ASSUME TypeOK, NEW m \in Matches, MatchInv(m), StartRequest(m)
  PROVE  TypeOK' /\ MatchInv(m)' /\ OthersKept(m)
<1>1. hold[m].at = "free" /\ hold[m].at \notin OnItsWay
  BY DEF StartRequest, Free, OnItsWay
<1>2. /\ session[m] \in Session /\ SessionOk(m, session[m])
      /\ session[m].lc # "starting" /\ (m \in halted => session[m].lc \in Terminal)
  BY <1>1, RestFacts
<1>3. CASE session[m].group
  <2>1. hold' = [hold EXCEPT ![m].at = "cleanup", ![m].task = "start"]
    BY <1>3 DEF StartRequest
  <2>2. UNCHANGED <<session, watch, worker, ensuring, halted>>
    BY <1>3 DEF StartRequest
  <2>3. PICK h : h = [hold[m] EXCEPT !.at = "cleanup", !.task = "start"]
    OBVIOUS
  <2>4. h \in Hold /\ h.at = "cleanup" /\ h.task = "start"
    BY <2>3 DEF TypeOK, Hold, Places, Tasks
  <2>5. hold' = [hold EXCEPT ![m] = h]
    BY <2>1, <2>3 DEF TypeOK
  <2>6. /\ hold' \in [Matches -> Hold] /\ hold'[m] = h
        /\ \A n \in Matches \ {m} : hold'[n] = hold[n]
    BY <2>4, <2>5 DEF TypeOK
  <2>7. session' = [session EXCEPT ![m] = session[m]]
    BY <2>2 DEF TypeOK
  <2>8. MatchInv(m)'
    BY <1>2, <2>2, <2>4, <2>6, <2>7, MovedOn DEF Stopping
  <2> QED
    BY <2>2, <2>6, <2>8 DEF TypeOK, OthersKept
<1>4. CASE ~session[m].group
  <2>1. /\ Prepared(m, session[m], "start") /\ session[m].clean = "none"
        /\ UNCHANGED <<worker, ensuring, halted>>
    BY <1>4 DEF StartRequest
  <2> QED
    BY <1>2, <1>4, <2>1, PreparedInv
<1> QED
  BY <1>3, <1>4

\* A start that fails after its reservation puts the old state back.
LEMMA BackedOut ==
  ASSUME TypeOK, NEW m \in Matches, MatchInv(m), hold[m].at \in OnItsWay,
         Raised(m, [session[m] EXCEPT !.lc = hold[m].prev], hold[m].task),
         UNCHANGED <<worker, ensuring, halted>>
  PROVE  TypeOK' /\ MatchInv(m)' /\ OthersKept(m)
<1>1. /\ session[m] \in Session /\ hold[m].prev \in Lifecycles
      /\ hold[m].prev # "starting" /\ session[m].lc = "starting"
      /\ hold[m].task \in {"start", "restart", "recover"}
      /\ ~session[m].group /\ SessionOk(m, session[m])
  BY DEF TypeOK, Hold, MatchInv, LaunchClear, RestartWanted
<1>2. PICK s : s = [session[m] EXCEPT !.lc = hold[m].prev]
  OBVIOUS
<1>3. s \in Session /\ s.lc = hold[m].prev /\ s.group = session[m].group
         /\ s.clean = session[m].clean /\ s.played = session[m].played
         /\ s.desired = session[m].desired
  BY <1>1, <1>2 DEF Session
<1>4. "starting" \notin Ended
  BY DEF Ended, Terminal, Done
<1>5. SessionOk(m, s)
  BY <1>1, <1>3, <1>4 DEF SessionOk
<1>6. m \in halted => s.lc \in Terminal
  BY <1>1, <1>3, <1>4 DEF MatchInv, HaltedStays, Ended
<1> QED
  BY <1>1, <1>2, <1>3, <1>5, <1>6, RaisedInv

\* _claim_worker_slot grants the reserved slot, or start() backs out.
LEMMA ClaimSlotInv ==
  ASSUME TypeOK, NEW m \in Matches, MatchInv(m), ClaimSlot(m)
  PROVE  TypeOK' /\ MatchInv(m)' /\ OthersKept(m)
<1>1. hold[m].at = "claim" /\ hold[m].at \in OnItsWay
  BY DEF ClaimSlot, OnItsWay
<1>2. CASE GoTo(m, "launch") /\ UNCHANGED session
  <2>1. /\ hold' \in [Matches -> Hold]
        /\ hold'[m].at = "launch" /\ hold'[m].task = hold[m].task
        /\ hold'[m].prev = hold[m].prev
        /\ \A n \in Matches \ {m} : hold'[n] = hold[n]
        /\ watch' \in [Matches -> {"none", "refresh", "check", "leaving"}]
    BY <1>2, GoToOk DEF Places
  <2>2. UNCHANGED <<session, worker, ensuring, halted>>
    BY <1>2 DEF ClaimSlot
  <2>3. SessionOk(m, session[m])'
    BY <2>2 DEF MatchInv, SessionOk, GroupAlive, Running
  <2>4. hold'[m].at \in OnItsWay /\ hold'[m].at \notin Stopping
    BY <2>1 DEF OnItsWay, Stopping
  <2>5. LaunchClear(m)' /\ RestartWanted(m)' /\ HaltedStays(m)'
    BY <1>1, <2>1, <2>2, <2>4 DEF MatchInv, LaunchClear, RestartWanted, HaltedStays
  <2> QED
    BY <2>1, <2>2, <2>3, <2>5 DEF TypeOK, MatchInv, OthersKept
<1>3. CASE ~(GoTo(m, "launch") /\ UNCHANGED session)
  BY <1>1, <1>3, BackedOut DEF ClaimSlot
<1> QED
  BY <1>2, <1>3

\* Popen raised: start() backs out.
LEMMA LaunchFailsInv ==
  ASSUME TypeOK, NEW m \in Matches, MatchInv(m), LaunchFails(m)
  PROVE  TypeOK' /\ MatchInv(m)' /\ OthersKept(m)
BY BackedOut DEF LaunchFails, OnItsWay

\* A launched match is desired again, with fewer than two confirmations.
LEMMA LaunchInv ==
  ASSUME TypeOK, NEW m \in Matches, MatchInv(m), Launch(m)
  PROVE  TypeOK' /\ MatchInv(m)' /\ OthersKept(m)
<1>1. /\ session[m] \in Session /\ session[m].lc = "starting"
      /\ hold[m].at = "launch" /\ hold[m].task \in {"start", "restart", "recover"}
      /\ session[m].played < PlayedConfirmations
  BY DEF Launch, TypeOK, MatchInv, LaunchClear, RestartWanted, SessionOk, OnItsWay, Ended,
         Terminal, Done
<1>2. PICK s : s = Launched(session[m], hold[m].task)
  OBVIOUS
<1>3. PICK p \in 0..PlayedConfirmations :
        /\ p < PlayedConfirmations
        /\ p = IF hold[m].task = "start" THEN 0 ELSE session[m].played
  BY <1>1 DEF Session, PlayedConfirmations
<1>4. s \in Session /\ s.lc = "playing" /\ s.group /\ s.played = p
  <2>1. s = [session[m] EXCEPT !.lc = "playing", !.desired = TRUE, !.due = FALSE,
                               !.group = TRUE, !.late = FALSE, !.played = p]
    BY <1>1, <1>2, <1>3 DEF Launched, Session
  <2> QED
    BY <1>1, <2>1 DEF Session, Lifecycles
<1>5. session' = [session EXCEPT ![m] = s]
  BY <1>2 DEF Launch, TypeOK
<1>6. worker' \in [Matches -> Process] /\ \A n \in Matches \ {m} : worker'[n] = worker[n]
  BY DEF Launch, TypeOK, Process
<1>7. /\ hold' \in [Matches -> Hold] /\ hold'[m].at \in {"free", "settle"}
      /\ \A n \in Matches \ {m} : hold'[n] = hold[n]
      /\ watch' \in [Matches -> {"none", "refresh", "check", "leaving"}]
  BY GoToOk, ReleaseOk DEF Launch, Places
<1>8. /\ ensuring' \in SUBSET Matches /\ halted' \in SUBSET Matches
      /\ \A n \in Matches \ {m} : n \in halted' <=> n \in halted
      /\ m \notin halted'
  <2>1. CASE hold[m].task = "start"
    BY <2>1 DEF Launch, TypeOK
  <2>2. CASE hold[m].task # "start"
    BY <1>1, <2>2 DEF Launch, TypeOK, MatchInv, RestartWanted, OnItsWay
  <2> QED
    BY <2>1, <2>2
<1>9. session'[m] = s /\ session' \in [Matches -> Session]
         /\ \A n \in Matches \ {m} : session'[n] = session[n]
  BY <1>4, <1>5 DEF TypeOK
<1>10. SessionOk(m, session[m])'
  BY <1>3, <1>4, <1>8, <1>9 DEF SessionOk
<1>11. LaunchClear(m)' /\ RestartWanted(m)' /\ HaltedStays(m)'
  BY <1>4, <1>7, <1>8, <1>9 DEF LaunchClear, RestartWanted, HaltedStays, OnItsWay, Stopping
<1> QED
  BY <1>6, <1>7, <1>8, <1>9, <1>10, <1>11 DEF TypeOK, MatchInv, OthersKept

\* stop() withdraws the desire first; a match without a group is stopped at once.
LEMMA StopRequestInv ==
  ASSUME TypeOK, NEW m \in Matches, MatchInv(m), StopRequest(m)
  PROVE  TypeOK' /\ MatchInv(m)' /\ OthersKept(m)
<1>1. /\ hold[m].at = "free" /\ session[m] \in Session /\ SessionOk(m, session[m])
      /\ halted' = halted \cup {m} /\ UNCHANGED <<worker, watch, ensuring>>
  BY DEF StopRequest, Free, TypeOK, MatchInv
<1>2. PICK s : s = [session[m] EXCEPT !.desired = FALSE, !.due = FALSE, !.lc = "stopping"]
  OBVIOUS
<1>3. s \in Session /\ s.lc = "stopping" /\ ~s.desired /\ s.group = session[m].group
         /\ s.clean = session[m].clean /\ s.played = session[m].played
  BY <1>1, <1>2 DEF Session, Lifecycles, Terminal
<1>4. "stopping" \in Terminal /\ "stopped" \in Terminal /\ Terminal \subseteq Ended
         /\ "starting" \notin Ended
  BY DEF Terminal, Ended, Done
<1>5. CASE Running(m) \/ s.clean # "none" \/ s.group
  <2>1. /\ session' = [session EXCEPT ![m] = s]
        /\ hold' = [hold EXCEPT ![m].at = IF Running(m) THEN "sigint" ELSE "cleanup",
                                ![m].task = "stop", ![m].by = "request"]
    BY <1>2, <1>5 DEF StopRequest
  <2>2. PICK place \in {"sigint", "cleanup"} :
          place = IF Running(m) THEN "sigint" ELSE "cleanup"
    OBVIOUS
  <2>3. PICK h : h = [hold[m] EXCEPT !.at = place, !.task = "stop", !.by = "request"]
    OBVIOUS
  <2>4. h \in Hold /\ h.at = place /\ h.task = "stop"
    BY <2>3 DEF TypeOK, Hold, Places, Tasks
  <2>5. hold' = [hold EXCEPT ![m] = h]
    BY <2>1, <2>2, <2>3 DEF TypeOK
  <2>6. /\ hold' \in [Matches -> Hold] /\ hold'[m] = h
        /\ \A n \in Matches \ {m} : hold'[n] = hold[n]
    BY <2>4, <2>5 DEF TypeOK
  <2>7. session'[m] = s /\ session' \in [Matches -> Session]
           /\ \A n \in Matches \ {m} : session'[n] = session[n]
    BY <1>3, <2>1 DEF TypeOK
  <2>8. SessionOk(m, session[m])'
    BY <1>1, <1>3, <1>4, <2>7 DEF SessionOk, GroupAlive, Running
  <2>9. LaunchClear(m)' /\ RestartWanted(m)' /\ HaltedStays(m)'
    BY <1>3, <1>4, <2>4, <2>6, <2>7
    DEF LaunchClear, RestartWanted, HaltedStays, OnItsWay, Stopping
  <2> QED
    BY <1>1, <2>6, <2>7, <2>8, <2>9 DEF TypeOK, MatchInv, OthersKept
<1>6. CASE ~(Running(m) \/ s.clean # "none" \/ s.group)
  <2>1. /\ session' = [session EXCEPT ![m] = [s EXCEPT !.lc = "stopped"]]
        /\ UNCHANGED hold
    BY <1>2, <1>6 DEF StopRequest
  <2>2. PICK t : t = [s EXCEPT !.lc = "stopped"]
    OBVIOUS
  <2>3. t \in Session /\ t.lc = "stopped" /\ ~t.desired /\ ~t.group /\ t.clean = "none"
    BY <1>3, <1>6, <2>2 DEF Session, Lifecycles, Terminal
  <2>4. session'[m] = t /\ session' \in [Matches -> Session]
           /\ \A n \in Matches \ {m} : session'[n] = session[n]
    BY <2>1, <2>2, <2>3 DEF TypeOK
  <2>5. GroupAlive(m)' => GroupAlive(m)
    BY <1>1 DEF GroupAlive, Running
  <2>6. ~GroupAlive(m)
    BY <1>1, <1>3, <1>6 DEF SessionOk
  <2>7. SessionOk(m, session[m])'
    BY <1>4, <2>3, <2>4, <2>5, <2>6 DEF SessionOk
  <2>8. LaunchClear(m)' /\ RestartWanted(m)' /\ HaltedStays(m)'
    BY <1>1, <1>4, <2>1, <2>3, <2>4
    DEF LaunchClear, RestartWanted, HaltedStays, OnItsWay, Stopping
  <2> QED
    BY <1>1, <2>1, <2>4, <2>7, <2>8 DEF TypeOK, MatchInv, OthersKept
<1> QED
  BY <1>5, <1>6

\* stop() after the wait for its SIGINT.
LEMMA WaitedInv ==
  ASSUME TypeOK, NEW m \in Matches, MatchInv(m), Waited(m)
  PROVE  TypeOK' /\ MatchInv(m)' /\ OthersKept(m)
<1>1. /\ hold[m].at = "sigint" /\ hold[m].at \in Stopping /\ hold[m].at \notin OnItsWay
      /\ GoTo(m, "cleanup") /\ UNCHANGED <<session, worker, ensuring, halted>>
  BY DEF Waited, Stopping, OnItsWay
<1>2. /\ hold' \in [Matches -> Hold]
      /\ hold'[m].at = "cleanup" /\ hold'[m].task = hold[m].task
      /\ \A n \in Matches \ {m} : hold'[n] = hold[n]
      /\ watch' \in [Matches -> {"none", "refresh", "check", "leaving"}]
  BY <1>1, GoToOk DEF Places
<1>3. session' = [session EXCEPT ![m] = session[m]]
  BY <1>1 DEF TypeOK
<1>4. /\ hold'[m].task \in {"stop", "start", "restart", "recover"}
      /\ hold'[m].task \in {"restart", "recover"} =>
            m \notin halted /\ session[m].lc \notin Ended
  BY <1>1, <1>2 DEF MatchInv, RestartWanted
<1>5. MatchInv(m)'
  BY <1>1, <1>2, <1>3, <1>4, RestFacts, MovedOn DEF Stopping
<1> QED
  BY <1>1, <1>2, <1>5 DEF TypeOK, OthersKept

\* The first call of _cleanup_worker_group_blocking.
LEMMA BeginCleanupInv ==
  ASSUME TypeOK, NEW m \in Matches, NEW elapsed \in BOOLEAN, MatchInv(m),
         BeginCleanup(m, elapsed)
  PROVE  TypeOK' /\ MatchInv(m)' /\ OthersKept(m)
<1>1. /\ hold[m].at = "cleanup" /\ hold[m].at \in Stopping /\ hold[m].at \notin OnItsWay
      /\ GoTo(m, "await") /\ UNCHANGED <<worker, ensuring, halted>>
  BY DEF BeginCleanup, Stopping, OnItsWay
<1>2. /\ hold' \in [Matches -> Hold]
      /\ hold'[m].at = "await" /\ hold'[m].task = hold[m].task
      /\ \A n \in Matches \ {m} : hold'[n] = hold[n]
      /\ watch' \in [Matches -> {"none", "refresh", "check", "leaving"}]
  BY <1>1, GoToOk DEF Places
<1>3. /\ session[m] \in Session /\ SessionOk(m, session[m])
      /\ session[m].lc # "starting" /\ (m \in halted => session[m].lc \in Terminal)
  BY <1>1, RestFacts
<1>4. PICK t : t = Begun(m, session[m], elapsed)
  OBVIOUS
<1>5. /\ t \in Session /\ SessionOk(m, t) /\ t.lc = session[m].lc
      /\ t.clean = "none" => ~t.group
  BY <1>3, <1>4, BegunOk
<1>6. session' = [session EXCEPT ![m] = t]
  BY <1>4 DEF BeginCleanup, TypeOK
<1>7. /\ hold'[m].task \in {"stop", "start", "restart", "recover"}
      /\ hold'[m].task \in {"restart", "recover"} => m \notin halted /\ t.lc \notin Ended
  BY <1>1, <1>2, <1>5 DEF MatchInv, RestartWanted
<1>8. MatchInv(m)'
  BY <1>1, <1>2, <1>3, <1>5, <1>6, <1>7, MovedOn DEF Stopping
<1> QED
  BY <1>1, <1>2, <1>5, <1>6, <1>8 DEF TypeOK, OthersKept

\* Its polls, until the group is gone or given up.
LEMMA PollCleanupInv ==
  ASSUME TypeOK, NEW m \in Matches, NEW elapsed \in BOOLEAN, MatchInv(m),
         PollCleanup(m, elapsed)
  PROVE  TypeOK' /\ MatchInv(m)' /\ OthersKept(m)
<1>1. /\ hold[m].at = "await" /\ hold[m].at \in Stopping /\ hold[m].at \notin OnItsWay
      /\ session[m].clean # "none" /\ UNCHANGED <<worker, hold, watch, ensuring, halted>>
  BY DEF PollCleanup, Stopping, OnItsWay
<1>2. /\ session[m] \in Session /\ SessionOk(m, session[m])
      /\ session[m].lc # "starting" /\ (m \in halted => session[m].lc \in Terminal)
  BY <1>1, RestFacts
<1>3. PICK t : t = Advanced(m, session[m], elapsed)
  OBVIOUS
<1>4. /\ t \in Session /\ SessionOk(m, t) /\ t.lc = session[m].lc
      /\ t.clean = "none" => ~t.group
  BY <1>1, <1>2, <1>3, AdvancedOk
<1>5. session' = [session EXCEPT ![m] = t]
  BY <1>3 DEF PollCleanup, TypeOK
<1>6. /\ hold'[m].task \in {"stop", "start", "restart", "recover"}
      /\ hold'[m].task \in {"restart", "recover"} => m \notin halted /\ t.lc \notin Ended
  BY <1>1, <1>4 DEF MatchInv, RestartWanted
<1>7. MatchInv(m)'
  BY <1>1, <1>2, <1>4, <1>5, <1>6, MovedOn
<1> QED
  BY <1>1, <1>4, <1>5, <1>7 DEF TypeOK, OthersKept

\* A stop or a restart whose cleanup is over
LEMMA CleanupSucceedsInv ==
  ASSUME TypeOK, NEW m \in Matches, MatchInv(m), CleanupSucceeds(m)
  PROVE  TypeOK' /\ MatchInv(m)' /\ OthersKept(m)
<1>1. /\ hold[m].at = "await" /\ hold[m].at \in Stopping /\ hold[m].at \notin OnItsWay
      /\ session[m].clean = "none" /\ UNCHANGED <<worker, ensuring, halted>>
  BY DEF CleanupSucceeds, Stopping, OnItsWay
<1>2. /\ session[m] \in Session /\ SessionOk(m, session[m])
      /\ session[m].lc # "starting" /\ (m \in halted => session[m].lc \in Terminal)
  BY <1>1, RestFacts
<1>3. ~session[m].group
  BY <1>1 DEF MatchInv, LaunchClear
<1>4. CASE hold[m].task = "stop"
  <2>1. PICK s : s = [session[m] EXCEPT !.lc = "stopped"]
    OBVIOUS
  <2>2. /\ s \in Session /\ s.lc = "stopped" /\ s.group = session[m].group
        /\ s.clean = session[m].clean /\ s.desired = session[m].desired
        /\ "stopped" \in Terminal /\ "stopped" \in Ended
    BY <1>2, <2>1 DEF Session, Lifecycles, Terminal, Ended
  <2>3. session' = [session EXCEPT ![m] = s] /\ Release(m)
    BY <1>4, <2>1 DEF CleanupSucceeds, TypeOK
  <2>4. /\ hold' \in [Matches -> Hold] /\ hold'[m].at = "free"
        /\ \A n \in Matches \ {m} : hold'[n] = hold[n]
        /\ watch' \in [Matches -> {"none", "refresh", "check", "leaving"}]
    BY <2>3, ReleaseOk
  <2>5. SessionOk(m, s)
    BY <1>2, <1>3, <2>2 DEF SessionOk
  <2>6. MatchInv(m)'
    BY <1>1, <2>2, <2>3, <2>4, <2>5, AtRest
  <2> QED
    BY <1>1, <2>2, <2>3, <2>4, <2>6 DEF TypeOK, OthersKept
<1>5. CASE hold[m].task # "stop"
  <2>1. /\ hold[m].task \in {"start", "restart", "recover"}
        /\ hold[m].task # "start" => m \notin halted /\ session[m].lc \notin Ended
    BY <1>1, <1>5 DEF MatchInv, RestartWanted
  <2>2. Prepared(m, session[m], hold[m].task)
    BY <1>5 DEF CleanupSucceeds
  <2> QED
    BY <1>1, <1>2, <1>3, <2>1, <2>2, PreparedInv
<1> QED
  BY <1>4, <1>5

\* A group that outlives SIGKILL: stop() fails, start() raises.
LEMMA CleanupFailsInv ==
  ASSUME TypeOK, NEW m \in Matches, MatchInv(m), CleanupFails(m)
  PROVE  TypeOK' /\ MatchInv(m)' /\ OthersKept(m)
<1>1. /\ hold[m].at = "await" /\ hold[m].at \in Stopping /\ hold[m].at \notin OnItsWay
      /\ session[m].clean = "failed" /\ UNCHANGED <<worker, ensuring, halted>>
  BY DEF CleanupFails, Stopping, OnItsWay
<1>2. /\ session[m] \in Session /\ SessionOk(m, session[m])
      /\ session[m].lc # "starting" /\ (m \in halted => session[m].lc \in Terminal)
  BY <1>1, RestFacts
<1>3. CASE hold[m].task = "stop"
  <2>1. PICK s : s = [session[m] EXCEPT !.lc = "failed"]
    OBVIOUS
  <2>2. /\ s \in Session /\ s.lc = "failed" /\ s.group = session[m].group
        /\ s.clean = session[m].clean /\ s.desired = session[m].desired
        /\ "failed" \in Terminal /\ "failed" \in Ended
    BY <1>2, <2>1 DEF Session, Lifecycles, Terminal, Ended
  <2>3. session' = [session EXCEPT ![m] = s] /\ Release(m)
    BY <1>3, <2>1 DEF CleanupFails, TypeOK
  <2>4. /\ hold' \in [Matches -> Hold] /\ hold'[m].at = "free"
        /\ \A n \in Matches \ {m} : hold'[n] = hold[n]
        /\ watch' \in [Matches -> {"none", "refresh", "check", "leaving"}]
    BY <2>3, ReleaseOk
  <2>5. SessionOk(m, s)
    BY <1>2, <2>2 DEF SessionOk
  <2>6. MatchInv(m)'
    BY <1>1, <2>2, <2>3, <2>4, <2>5, AtRest
  <2> QED
    BY <1>1, <2>2, <2>3, <2>4, <2>6 DEF TypeOK, OthersKept
<1>4. CASE hold[m].task # "stop"
  <2>1. hold[m].task \in {"start", "restart", "recover"}
    BY <1>1, <1>4 DEF MatchInv, RestartWanted
  <2>2. Raised(m, session[m], hold[m].task)
    BY <1>4 DEF CleanupFails
  <2> QED
    BY <1>1, <1>2, <2>1, <2>2, RaisedInv
<1> QED
  BY <1>3, <1>4

\* refresh() notes an exit and schedules the restart of a desired match only.
LEMMA RefreshInv ==
  ASSUME TypeOK, NEW m \in Matches, NEW by \in {"monitor", "request"}, MatchInv(m),
         Refresh(m, by)
  PROVE  TypeOK' /\ MatchInv(m)' /\ OthersKept(m)
<1>1. /\ hold[m].at = "free" /\ hold[m].at \notin OnItsWay
      /\ UNCHANGED <<watch, ensuring, halted>>
  BY DEF Refresh, Free, OnItsWay
<1>2. /\ session[m] \in Session /\ SessionOk(m, session[m])
      /\ session[m].lc # "starting" /\ (m \in halted => session[m].lc \in Terminal)
  BY <1>1, RestFacts
<1>3. /\ hold' \in [Matches -> Hold] /\ hold'[m].at = "polls"
      /\ \A n \in Matches \ {m} : hold'[n] = hold[n]
  <2>1. PICK h : h = [NoHold EXCEPT !.at = "polls", !.task = "refresh", !.by = by]
    OBVIOUS
  <2>2. h \in Hold /\ h.at = "polls"
    BY <2>1 DEF NoHold, Hold, Places, Tasks, Lifecycles
  <2>3. hold' = [hold EXCEPT ![m] = h]
    BY <2>1 DEF Refresh
  <2> QED
    BY <2>2, <2>3 DEF TypeOK
<1>4. CASE worker[m].leader # "exited"
  <2>1. UNCHANGED <<session, worker>>
    BY <1>4 DEF Refresh
  <2>2. session' = [session EXCEPT ![m] = session[m]]
    BY <2>1 DEF TypeOK
  <2>3. MatchInv(m)'
    BY <1>1, <1>2, <1>3, <2>1, <2>2, AtRest
  <2> QED
    BY <1>1, <1>3, <2>1, <2>3 DEF TypeOK, OthersKept
<1>5. CASE worker[m].leader = "exited"
  <2>1. PICK s : s = IF session[m].group THEN Begun(m, session[m], FALSE) ELSE session[m]
    OBVIOUS
  <2>2. s \in Session /\ SessionOk(m, s) /\ s.lc = session[m].lc
    <3>1. FALSE \in BOOLEAN
      OBVIOUS
    <3>2. PICK b : b = Begun(m, session[m], FALSE)
      OBVIOUS
    <3>3. b \in Session /\ SessionOk(m, b) /\ b.lc = session[m].lc
      BY <1>2, <3>1, <3>2, BegunOk
    <3>4. s = b \/ s = session[m]
      BY <2>1, <3>2
    <3> QED
      BY <1>2, <3>3, <3>4
  <2>3. worker' = [worker EXCEPT ![m].leader = "noted"]
    BY <1>5 DEF Refresh
  <2>4. PICK outcome \in Done :
          session' = [session EXCEPT ![m] =
              IF s.lc = "finishing" /\ s.clean = "none" THEN Finalized(s, outcome)
              ELSE IF s.desired THEN [s EXCEPT !.due = TRUE] ELSE s]
    BY <1>5, <2>1 DEF Refresh
  <2>5. PICK t : t = IF s.lc = "finishing" /\ s.clean = "none" THEN Finalized(s, outcome)
                     ELSE IF s.desired THEN [s EXCEPT !.due = TRUE] ELSE s
    OBVIOUS
  <2>6. t \in {[s EXCEPT !.lc = outcome], [s EXCEPT !.due = TRUE], s}
    BY <2>5 DEF Finalized
  <2>7. /\ t \in Session /\ (t.lc = s.lc \/ t.lc \in Done) /\ t.group = s.group
        /\ t.clean = s.clean /\ t.played = s.played /\ t.desired = s.desired
    BY <2>2, <2>6 DEF Session, Lifecycles, Terminal
  <2>8. Done \subseteq Terminal /\ Terminal \subseteq Ended /\ "stopped" \notin Done
           /\ "starting" \notin Done
    BY DEF Done, Terminal, Ended
  <2>9. SessionOk(m, t)
    BY <2>2, <2>7, <2>8 DEF SessionOk
  <2>10. session'[m] = t /\ session' \in [Matches -> Session]
            /\ \A n \in Matches \ {m} : session'[n] = session[n]
    BY <2>4, <2>5, <2>7 DEF TypeOK
  <2>11. /\ worker' \in [Matches -> Process]
         /\ \A n \in Matches \ {m} : worker'[n] = worker[n]
         /\ GroupAlive(m)' => GroupAlive(m)
    <3>1. PICK w : w = [worker[m] EXCEPT !.leader = "noted"]
      OBVIOUS
    <3>2. w \in Process /\ w.leader = "noted" /\ w.orphans = worker[m].orphans
      BY <3>1 DEF TypeOK, Process
    <3>3. worker' = [worker EXCEPT ![m] = w]
      BY <2>3, <3>1 DEF TypeOK
    <3> QED
      BY <3>2, <3>3 DEF TypeOK, GroupAlive, Running
  <2>12. SessionOk(m, session[m])'
    BY <1>1, <2>9, <2>10, <2>11 DEF SessionOk
  <2>13. LaunchClear(m)' /\ RestartWanted(m)' /\ HaltedStays(m)'
    BY <1>1, <1>2, <1>3, <2>2, <2>7, <2>8, <2>10
    DEF LaunchClear, RestartWanted, HaltedStays, OnItsWay, Stopping
  <2> QED
    BY <1>1, <1>3, <2>10, <2>11, <2>12, <2>13 DEF TypeOK, MatchInv, OthersKept
<1> QED
  BY <1>4, <1>5

\* refresh() takes the answers of the APIs; only a match to run is restarted.
LEMMA PollInv ==
  ASSUME TypeOK, NEW m \in Matches, MatchInv(m),
         NEW answer \in {"error", "Playing", "Played", "Uncertain"},
         NEW changed \in BOOLEAN, Poll(m, answer, changed)
  PROVE  TypeOK' /\ MatchInv(m)' /\ OthersKept(m)
<1>1. /\ hold[m].at = "polls" /\ hold[m].at \notin OnItsWay
      /\ UNCHANGED <<worker, watch, ensuring, halted>>
  BY DEF Poll, OnItsWay
<1>2. /\ session[m] \in Session /\ SessionOk(m, session[m])
      /\ session[m].lc # "starting" /\ (m \in halted => session[m].lc \in Terminal)
  BY <1>1, RestFacts
<1>3. PICK outcome \in Done :
        LET s == Updated(m, session[m], answer, outcome) IN
        /\ session' = [session EXCEPT ![m] = s]
        /\ IF changed /\ s.lc \notin Terminal \cup {"finishing"} /\ Running(m)
                      /\ s.clean = "none"
           THEN hold' = [hold EXCEPT ![m].at = "sigint", ![m].task = "restart"]
           ELSE hold' = [hold EXCEPT ![m].at = "settle", ![m].task = "refresh"]
  BY OutcomesDone DEF Poll
<1>4. PICK s : s = Updated(m, session[m], answer, outcome)
  OBVIOUS
<1>5. s \in Session /\ SessionOk(m, s) /\ s.lc # "starting"
         /\ (m \in halted => s.lc \in Terminal)
  BY <1>2, <1>4, UpdatedOk
<1>6. session' = [session EXCEPT ![m] = s]
  BY <1>3, <1>4
<1>7. PICK place \in {"sigint", "settle"}, task \in {"restart", "refresh"} :
        /\ hold' = [hold EXCEPT ![m].at = place, ![m].task = task]
        /\ place = "sigint" => task = "restart" /\ s.lc \notin Terminal \cup {"finishing"}
  BY <1>3, <1>4
<1>8. /\ hold' \in [Matches -> Hold] /\ hold'[m].at = place /\ hold'[m].task = task
      /\ \A n \in Matches \ {m} : hold'[n] = hold[n]
  <2>1. PICK h : h = [hold[m] EXCEPT !.at = place, !.task = task]
    OBVIOUS
  <2>2. h \in Hold /\ h.at = place /\ h.task = task
    BY <2>1 DEF TypeOK, Hold, Places, Tasks
  <2>3. hold' = [hold EXCEPT ![m] = h]
    BY <1>7, <2>1 DEF TypeOK
  <2> QED
    BY <2>2, <2>3 DEF TypeOK
<1>9. CASE place = "sigint"
  <2>1. task = "restart" /\ s.lc \notin Ended /\ m \notin halted
    BY <1>5, <1>7, <1>9 DEF Ended
  <2>2. MatchInv(m)'
    BY <1>1, <1>5, <1>6, <1>8, <1>9, <2>1, MovedOn DEF Stopping
  <2> QED
    BY <1>1, <1>5, <1>6, <1>8, <2>2 DEF TypeOK, OthersKept
<1>10. CASE place = "settle"
  <2>1. MatchInv(m)'
    BY <1>1, <1>5, <1>6, <1>8, <1>10, AtRest
  <2> QED
    BY <1>1, <1>5, <1>6, <1>8, <2>1 DEF TypeOK, OthersKept
<1> QED
  BY <1>9, <1>10

\* The end of refresh() for a match whose Worker is not to be started again
LEMMA FinishInv ==
  ASSUME TypeOK, NEW m \in Matches, NEW elapsed \in BOOLEAN, NEW s \in Session,
         SessionOk(m, s), s.lc # "starting", m \in halted => s.lc \in Terminal,
         Release(m), UNCHANGED <<worker, ensuring, halted>>,
         NEW outcome \in Outcomes(m),
         session' = [session EXCEPT ![m] =
                      IF s.lc # "finishing" THEN s
                      ELSE IF Running(m)
                           THEN IF elapsed /\ ~s.late
                                THEN Begun(m, [s EXCEPT !.late = TRUE], FALSE)
                                ELSE s
                      ELSE IF s.clean = "none" THEN Finalized(s, outcome) ELSE s]
  PROVE  TypeOK' /\ MatchInv(m)' /\ OthersKept(m)
<1>1. PICK u : u = [s EXCEPT !.late = TRUE]
  OBVIOUS
<1>2. u \in Session /\ SessionOk(m, u) /\ u.lc = s.lc
  BY <1>1 DEF Session, SessionOk
<1>3. PICK b : b = Begun(m, u, FALSE)
  OBVIOUS
<1>4. b \in Session /\ SessionOk(m, b) /\ b.lc = s.lc
  BY <1>2, <1>3, BegunOk
<1>5. PICK f : f = [s EXCEPT !.lc = outcome]
  OBVIOUS
<1>6. outcome \in Done /\ outcome \in Terminal /\ outcome \in Ended
         /\ outcome # "starting" /\ outcome # "stopped"
  BY OutcomesDone DEF Done, Terminal, Ended
<1>7. /\ f \in Session /\ f.lc = outcome /\ f.group = s.group /\ f.clean = s.clean
      /\ f.desired = s.desired
  BY <1>5, <1>6 DEF Session, Lifecycles
<1>8. SessionOk(m, f)
  BY <1>6, <1>7 DEF SessionOk
<1>9. PICK t \in {s, b, f} : session' = [session EXCEPT ![m] = t]
  BY <1>1, <1>3, <1>5 DEF Finalized
<1>10. t \in Session /\ SessionOk(m, t) /\ t.lc # "starting"
          /\ (m \in halted => t.lc \in Terminal)
  BY <1>4, <1>6, <1>7, <1>8, <1>9
<1>11. /\ hold' \in [Matches -> Hold] /\ hold'[m].at = "free"
       /\ \A n \in Matches \ {m} : hold'[n] = hold[n]
       /\ watch' \in [Matches -> {"none", "refresh", "check", "leaving"}]
  BY ReleaseOk
<1>12. MatchInv(m)'
  BY <1>9, <1>10, <1>11, AtRest
<1> QED
  BY <1>9, <1>10, <1>11, <1>12 DEF TypeOK, OthersKept

\* The end of refresh(), recovery included.
LEMMA SettleInv ==
  ASSUME TypeOK, NEW m \in Matches, NEW elapsed \in BOOLEAN, MatchInv(m),
         Settle(m, elapsed)
  PROVE  TypeOK' /\ MatchInv(m)' /\ OthersKept(m)
<1>1. /\ hold[m].at = "settle" /\ hold[m].at \notin OnItsWay
      /\ UNCHANGED <<worker, ensuring, halted>>
  BY DEF Settle, OnItsWay
<1>2. /\ session[m] \in Session /\ SessionOk(m, session[m])
      /\ session[m].lc # "starting" /\ (m \in halted => session[m].lc \in Terminal)
  BY <1>1, RestFacts
<1>3. PICK s : s = Advanced(m, session[m], elapsed)
  OBVIOUS
<1>4. s \in Session /\ SessionOk(m, s) /\ s.lc = session[m].lc
  BY <1>2, <1>3, AdvancedOk
<1>5. CASE ~MayRecover(m, s, elapsed)
  <2>1. PICK outcome \in Outcomes(m) :
          session' = [session EXCEPT ![m] =
                      IF s.lc # "finishing" THEN s
                      ELSE IF Running(m)
                           THEN IF elapsed /\ ~s.late
                                THEN Begun(m, [s EXCEPT !.late = TRUE], FALSE)
                                ELSE s
                      ELSE IF s.clean = "none" THEN Finalized(s, outcome) ELSE s]
    BY <1>3, <1>5 DEF Settle
  <2>2. Release(m)
    BY <1>3, <1>5 DEF Settle
  <2> QED
    BY <1>1, <1>2, <1>4, <2>1, <2>2, FinishInv
<1>6. CASE MayRecover(m, s, elapsed)
  <2>1. PICK again : again = [s EXCEPT !.due = FALSE]
    OBVIOUS
  <2>2. again \in Session /\ again.lc = s.lc /\ again.group = s.group
           /\ again.clean = s.clean /\ again.played = s.played /\ again.desired = s.desired
    BY <1>4, <2>1 DEF Session
  <2>3. SessionOk(m, again)
    BY <1>4, <2>2 DEF SessionOk
  <2>4. m \notin halted /\ s.lc \notin Ended /\ s.clean = "none"
    BY <1>4, <1>6 DEF MayRecover, SessionOk, Ended
  <2>5. CASE s.group
    <3>1. /\ session' = [session EXCEPT ![m] = again]
          /\ hold' = [hold EXCEPT ![m].at = "cleanup", ![m].task = "recover"]
          /\ UNCHANGED watch
      BY <1>3, <1>6, <2>1, <2>5 DEF Settle
    <3>2. /\ hold' \in [Matches -> Hold] /\ hold'[m].at = "cleanup"
          /\ hold'[m].task = "recover"
          /\ \A n \in Matches \ {m} : hold'[n] = hold[n]
      <4>1. PICK h : h = [hold[m] EXCEPT !.at = "cleanup", !.task = "recover"]
        OBVIOUS
      <4>2. h \in Hold /\ h.at = "cleanup" /\ h.task = "recover"
        BY <4>1 DEF TypeOK, Hold, Places, Tasks
      <4>3. hold' = [hold EXCEPT ![m] = h]
        BY <3>1, <4>1 DEF TypeOK
      <4> QED
        BY <4>2, <4>3 DEF TypeOK
    <3>3. MatchInv(m)'
      BY <1>1, <1>2, <1>4, <2>2, <2>3, <2>4, <3>1, <3>2, MovedOn DEF Stopping
    <3> QED
      BY <1>1, <2>2, <3>1, <3>2, <3>3 DEF TypeOK, OthersKept
  <2>6. CASE ~s.group
    <3>1. Prepared(m, again, "recover")
      BY <1>3, <1>6, <2>1, <2>6 DEF Settle
    <3> QED
      BY <1>1, <1>2, <1>4, <2>2, <2>3, <2>4, <2>6, <3>1, PreparedInv
  <2> QED
    BY <2>5, <2>6
<1> QED
  BY <1>5, <1>6

\* _ensure_monitor and the thread itself touch no session.
LEMMA WatchingInv ==
  ASSUME TypeOK, NEW m \in Matches, MatchInv(m),
         Get(m) \/ EnsureStarted(m) \/ MonitorChecks(m) \/ MonitorLeaves(m)
  PROVE  TypeOK' /\ MatchInv(m)' /\ OthersKept(m)
<1>1. UNCHANGED <<session, worker, hold, halted>> /\ ensuring' \in SUBSET Matches
  BY DEF Get, EnsureStarted, MonitorChecks, MonitorLeaves, TypeOK
<1>2. watch' \in [Matches -> {"none", "refresh", "check", "leaving"}]
  BY DEF Get, EnsureStarted, MonitorChecks, MonitorLeaves, EnsureMonitor, TypeOK
<1>3. MatchInv(m)'
  BY <1>1 DEF MatchInv, SessionOk, GroupAlive, Running, LaunchClear, RestartWanted,
              HaltedStays
<1> QED
  BY <1>1, <1>2, <1>3 DEF TypeOK, OthersKept

\* The registry drops a session, and a fresh one takes its place.
LEMMA PruneInv ==
  ASSUME TypeOK, NEW m \in Matches, MatchInv(m), Prune(m)
  PROVE  TypeOK' /\ MatchInv(m)' /\ OthersKept(m)
<1>1. hold[m].at = "free" /\ UNCHANGED <<hold, watch, ensuring>>
  BY DEF Prune, Free
<1>2. /\ Fresh \in Session /\ Fresh.lc = "idle" /\ ~Fresh.group /\ Fresh.clean = "none"
      /\ Fresh.played < PlayedConfirmations
  BY DEF Fresh, Session, Lifecycles, PlayedConfirmations
<1>3. session'[m] = Fresh /\ session' \in [Matches -> Session]
         /\ \A n \in Matches \ {m} : session'[n] = session[n]
  BY <1>2 DEF Prune, TypeOK
<1>4. /\ worker' \in [Matches -> Process] /\ worker'[m] = NoProcess
      /\ \A n \in Matches \ {m} : worker'[n] = worker[n]
  BY DEF Prune, TypeOK, NoProcess, Process
<1>5. /\ halted' \in SUBSET Matches /\ m \notin halted'
      /\ \A n \in Matches \ {m} : n \in halted' <=> n \in halted
  BY DEF Prune, TypeOK
<1>6. SessionOk(m, session[m])'
  BY <1>2, <1>3, <1>4, <1>5 DEF SessionOk, GroupAlive, Running, NoProcess
<1>7. LaunchClear(m)' /\ RestartWanted(m)' /\ HaltedStays(m)'
  BY <1>1, <1>2, <1>3, <1>5 DEF LaunchClear, RestartWanted, HaltedStays, OnItsWay, Stopping
<1> QED
  BY <1>1, <1>3, <1>4, <1>5, <1>6, <1>7 DEF TypeOK, MatchInv, OthersKept

\* Processes that end leave no fewer obligations, and no more processes.
LEMMA ExitsInv ==
  ASSUME TypeOK, NEW m \in Matches, MatchInv(m), LeaderExits(m) \/ OrphansExit(m)
  PROVE  TypeOK' /\ MatchInv(m)' /\ OthersKept(m)
<1>1. UNCHANGED <<session, hold, watch, ensuring, halted>>
  BY DEF LeaderExits, OrphansExit
<1>2. PICK w \in Process : /\ worker' = [worker EXCEPT ![m] = w]
                           /\ w.leader = "running" \/ w.orphans => GroupAlive(m)
  <2>1. CASE LeaderExits(m)
    BY <2>1 DEF LeaderExits, GroupAlive, Process
  <2>2. CASE OrphansExit(m)
    <3>1. PICK w : w = [worker[m] EXCEPT !.orphans = FALSE]
      OBVIOUS
    <3>2. w \in Process /\ w.leader = worker[m].leader /\ ~w.orphans
      BY <3>1 DEF TypeOK, Process
    <3>3. worker' = [worker EXCEPT ![m] = w]
      BY <2>2, <3>1 DEF OrphansExit, TypeOK
    <3> QED
      BY <3>2, <3>3 DEF GroupAlive, Running
  <2> QED
    BY <2>1, <2>2
<1>3. /\ worker' \in [Matches -> Process] /\ worker'[m] = w
      /\ \A n \in Matches \ {m} : worker'[n] = worker[n]
  BY <1>2 DEF TypeOK
<1>4. SessionOk(m, session[m])'
  BY <1>1, <1>2, <1>3 DEF MatchInv, SessionOk, GroupAlive, Running
<1>5. LaunchClear(m)' /\ RestartWanted(m)' /\ HaltedStays(m)'
  BY <1>1 DEF MatchInv, LaunchClear, RestartWanted, HaltedStays
<1> QED
  BY <1>1, <1>3, <1>4, <1>5 DEF TypeOK, MatchInv, OthersKept

\* Every action on a match keeps the invariant of that match.
LEMMA MatchStepInv ==
  ASSUME TypeOK, NEW m \in Matches, MatchInv(m), MatchStep(m)
  PROVE  TypeOK' /\ MatchInv(m)' /\ OthersKept(m)
BY StartRequestInv, ClaimSlotInv, LaunchInv, LaunchFailsInv, StopRequestInv, WaitedInv,
   BeginCleanupInv, PollCleanupInv, CleanupSucceedsInv, CleanupFailsInv, RefreshInv,
   PollInv, SettleInv, WatchingInv, PruneInv, ExitsInv
DEF MatchStep

-----------------------------------------------------------------------------
\* The invariant

\* The Dashboard starts without sessions.
LEMMA InvInit == Init => DashboardInv
<1> SUFFICES ASSUME Init PROVE DashboardInv
  OBVIOUS
<1>1. /\ Fresh \in Session /\ Fresh.lc = "idle" /\ ~Fresh.group /\ Fresh.clean = "none"
      /\ Fresh.played < PlayedConfirmations
  BY DEF Fresh, Session, Lifecycles, PlayedConfirmations
<1>2. NoHold \in Hold /\ NoHold.at = "free" /\ NoProcess \in Process
  BY DEF NoHold, Hold, Places, Tasks, Lifecycles, NoProcess, Process
<1>3. TypeOK
  BY <1>1, <1>2 DEF Init, TypeOK
<1>4. ASSUME NEW m \in Matches
      PROVE  MatchInv(m)
  <2>1. /\ session[m] = Fresh /\ hold[m].at = "free" /\ m \notin halted
        /\ worker[m].leader = "none" /\ ~worker[m].orphans
    BY <1>2 DEF Init, NoProcess
  <2> QED
    BY <1>1, <2>1 DEF MatchInv, SessionOk, GroupAlive, Running, LaunchClear, RestartWanted,
                      HaltedStays, OnItsWay, Stopping
<1> QED
  BY <1>3, <1>4 DEF DashboardInv

\* The invariant of every match is kept by the steps of all matches.
LEMMA InvNext == DashboardInv /\ [Next]_vars => DashboardInv'
<1> SUFFICES ASSUME DashboardInv, [Next]_vars PROVE DashboardInv'
  OBVIOUS
<1>1. CASE Next
  <2>1. PICK m \in Matches : MatchStep(m)
    BY <1>1 DEF Next
  <2>2. TypeOK' /\ MatchInv(m)' /\ OthersKept(m)
    BY <2>1, MatchStepInv DEF DashboardInv
  <2>3. ASSUME NEW n \in Matches \ {m}
        PROVE  MatchInv(n)'
    <3>1. /\ session'[n] = session[n] /\ worker'[n] = worker[n] /\ hold'[n] = hold[n]
          /\ n \in halted' <=> n \in halted
      BY <2>2 DEF OthersKept
    <3>2. MatchInv(n)
      BY DEF DashboardInv
    <3>3. SessionOk(n, session[n])'
      BY <3>1, <3>2 DEF MatchInv, SessionOk, GroupAlive, Running
    <3>4. LaunchClear(n)' /\ RestartWanted(n)' /\ HaltedStays(n)'
      BY <3>1, <3>2 DEF MatchInv, LaunchClear, RestartWanted, HaltedStays
    <3> QED
      BY <3>3, <3>4 DEF MatchInv
  <2> QED
    BY <2>2, <2>3 DEF DashboardInv
<1>2. CASE UNCHANGED vars
  BY <1>2 DEF vars, DashboardInv, TypeOK, MatchInv, SessionOk, GroupAlive, Running,
              LaunchClear, RestartWanted, HaltedStays
<1> QED
  BY <1>1, <1>2

\* The invariant holds in every reachable state.
LEMMA InvHolds == Spec => []DashboardInv
<1> QED
  BY InvInit, InvNext, PTL DEF Spec

\* The sessions, Workers, locks and monitors stay within their types; above all
\* played_confirmation_count never passes PLAYED_CONFIRMATIONS_REQUIRED.
THEOREM TypeCorrect == Spec => []TypeOK
<1>1. DashboardInv => TypeOK
  BY DEF DashboardInv
<1> QED
  BY <1>1, InvHolds, PTL

\* stop() and the registry find no process left once the state says so.
THEOREM StoppedGone == Spec => []StoppedMeansGone
<1>1. DashboardInv => StoppedMeansGone
  <2> SUFFICES ASSUME DashboardInv, NEW m \in Matches,
                      session[m].lc = "stopped" \/ TerminalAndInactive(m)
               PROVE  ~GroupAlive(m)
    BY DEF StoppedMeansGone
  <2>1. SessionOk(m, session[m])
    BY DEF DashboardInv, MatchInv
  <2>2. ~session[m].group
    BY <2>1 DEF SessionOk, TerminalAndInactive, Inactive
  <2> QED
    BY <2>1, <2>2 DEF SessionOk
<1> QED
  BY <1>1, InvHolds, PTL

\* start() and the restarts of refresh() leave a confirmed match alone.
THEOREM PlayedStays == Spec => []PlayedNotRestarted
<1>1. DashboardInv => PlayedNotRestarted
  <2> SUFFICES ASSUME DashboardInv, NEW m \in Matches, hold[m].at = "launch"
               PROVE  session[m].played < PlayedConfirmations
    BY DEF PlayedNotRestarted
  <2>1. SessionOk(m, session[m]) /\ LaunchClear(m)
    BY DEF DashboardInv, MatchInv
  <2>2. session[m].lc = "starting"
    BY <2>1 DEF LaunchClear, OnItsWay
  <2> QED
    BY <2>1, <2>2 DEF SessionOk, Ended, Terminal, Done
<1> QED
  BY <1>1, InvHolds, PTL

-----------------------------------------------------------------------------
\* A Worker appears by Launch alone.
LEMMA OnlyLaunched ==
  ASSUME TypeOK, NEW k \in Matches, MatchInv(k), MatchStep(k), NEW m \in Matches,
         ~Running(m), Running(m)'
  PROVE  m = k /\ Launch(m)
<1>1. OthersKept(k)
  BY MatchStepInv
<1>2. m = k
  BY <1>1 DEF OthersKept, Running
<1>3. ~(worker' = worker)
  BY DEF Running
<1>4. ASSUME Refresh(m, "monitor") \/ Refresh(m, "request") \/ OrphansExit(m)
      PROVE  FALSE
  <2>1. PICK w : /\ w = [worker[m] EXCEPT !.leader = "noted"]
                      \/ w = [worker[m] EXCEPT !.orphans = FALSE]
                 /\ worker' = [worker EXCEPT ![m] = w]
    BY <1>3, <1>4 DEF Refresh, OrphansExit, TypeOK
  <2>2. w.leader # "running"
    BY <2>1 DEF TypeOK, Process, Running
  <2> QED
    BY <2>1, <2>2 DEF TypeOK, Running
<1>5. ASSUME Prune(m) \/ LeaderExits(m)
      PROVE  FALSE
  <2>1. PICK w : w.leader # "running" /\ worker' = [worker EXCEPT ![m] = w]
    BY <1>5 DEF Prune, LeaderExits, NoProcess
  <2> QED
    BY <2>1 DEF TypeOK, Running
<1> QED
  BY <1>2, <1>3, <1>4, <1>5
  DEF MatchStep, StartRequest, ClaimSlot, LaunchFails, StopRequest, Waited,
      CleanupSucceeds, CleanupFails, BeginCleanup, PollCleanup, Settle, Poll, Get,
      EnsureStarted, MonitorChecks, MonitorLeaves

\* A Worker never starts beside processes of its predecessor's group, and one
\* that an operator stopped only by a start that was asked for.
LEMMA LaunchAllowed ==
  ASSUME DashboardInv, [Next]_vars, NEW m \in Matches, ~Running(m), Running(m)'
  PROVE  /\ ~worker[m].orphans
         /\ m \in halted => hold[m].task = "start"
<1>1. Next
  BY DEF vars, Running
<1>2. PICK k \in Matches : MatchStep(k)
  BY <1>1 DEF Next
<1>3. MatchInv(m) /\ Launch(m)
  BY <1>2, OnlyLaunched DEF DashboardInv
<1>4. hold[m].at = "launch" /\ session[m].lc = "starting" /\ ~session[m].group
  BY <1>3 DEF Launch, MatchInv, LaunchClear, OnItsWay
<1>5. ~worker[m].orphans
  BY <1>3, <1>4 DEF MatchInv, SessionOk, GroupAlive
<1>6. m \in halted => hold[m].task = "start"
  BY <1>3, <1>4 DEF MatchInv, HaltedStays, Terminal, Done
<1> QED
  BY <1>5, <1>6

\* The database and buffer of a match belong to one process group at a time.
THEOREM OneGroup == Spec => OneGroupPerMatch
<1>1. DashboardInv /\ [Next]_vars =>
         [\A m \in Matches : ~Running(m) /\ Running(m)' => ~worker[m].orphans]_vars
  BY LaunchAllowed
<1> QED
  BY <1>1, InvHolds, PTL DEF Spec, OneGroupPerMatch

\* stop() is not undone by the monitor, whatever it was about to do.
THEOREM StopStays == Spec => StopNotUndone
<1>1. DashboardInv /\ [Next]_vars =>
         [\A m \in Matches : m \in halted /\ ~Running(m) /\ Running(m)'
                                => hold[m].task = "start"]_vars
  BY LaunchAllowed
<1> QED
  BY <1>1, InvHolds, PTL DEF Spec, StopNotUndone

-----------------------------------------------------------------------------
\* The limit: whoever runs or may launch is active, and a claim counts them all.
Holders == {m \in Matches : Running(m) \/ hold[m].at = "launch"}

\* _active_match_summaries_locked counts every match that holds a slot.
LEMMA HoldersActive == DashboardInv => Holders \subseteq Active
<1> SUFFICES ASSUME DashboardInv, NEW m \in Holders PROVE m \in Active
  OBVIOUS
<1>1. m \in Matches /\ MatchInv(m)
  BY DEF Holders, DashboardInv
<1>2. hold[m].at = "launch" => session[m].lc = "starting"
  BY <1>1 DEF MatchInv, LaunchClear, OnItsWay
<1> QED
  BY <1>1, <1>2 DEF Holders, Active

\* No other step than a claim leads to the launch.
LEMMA PreparedPlace ==
  ASSUME TypeOK, NEW m \in Matches, NEW s, NEW task \in {"start", "restart", "recover"},
         Prepared(m, s, task)
  PROVE  hold'[m].at # "launch"
<1>1. ASSUME NEW t, Raised(m, t, task)
      PROVE  hold'[m].at # "launch"
  BY <1>1, GoToOk, ReleaseOk DEF Raised, Places
<1>2. CASE \E t : Raised(m, t, task)
  BY <1>1, <1>2
<1>3. CASE hold' = [hold EXCEPT ![m].at = "claim", ![m].task = task, ![m].prev = s.lc]
  <2>1. PICK h : h = [hold[m] EXCEPT !.at = "claim", !.task = task, !.prev = s.lc]
    OBVIOUS
  <2>2. h.at = "claim"
    BY <2>1 DEF TypeOK, Hold
  <2>3. hold' = [hold EXCEPT ![m] = h]
    BY <1>3, <2>1 DEF TypeOK
  <2> QED
    BY <2>2, <2>3 DEF TypeOK
<1> QED
  BY <1>2, <1>3 DEF Prepared

\* Only a claim that _claim_worker_slot grants leads to the launch.
LEMMA LaunchReached ==
  ASSUME TypeOK, NEW m \in Matches, MatchInv(m), MatchStep(m),
         hold[m].at # "launch", hold'[m].at = "launch"
  PROVE  ClaimSlot(m) /\ Cardinality(Active) <= MaxConcurrent
<1>1. /\ hold[m].at \in OnItsWay => hold[m].task \in {"start", "restart", "recover"}
      /\ hold[m].at \in Stopping => hold[m].task \in {"stop", "start", "restart", "recover"}
  BY DEF MatchInv, RestartWanted
<1>2. ~(hold' = hold)
  OBVIOUS
<1>3. ASSUME NEW h, h.at # "launch", hold' = [hold EXCEPT ![m] = h]
      PROVE  FALSE
  BY <1>3 DEF TypeOK
<1>4. ASSUME NEW place \in Places \ {"launch"}, GoTo(m, place)
      PROVE  FALSE
  BY <1>4, GoToOk
<1>5. ~Release(m)
  BY ReleaseOk
<1>6. ASSUME NEW t, NEW task \in {"start", "restart", "recover"}, Raised(m, t, task)
      PROVE  FALSE
  BY <1>4, <1>5, <1>6 DEF Raised, Places
<1>7. ASSUME NEW place \in Places \ {"launch"}, NEW task,
             hold' = [hold EXCEPT ![m].at = place, ![m].task = task]
      PROVE  FALSE
  <2>1. PICK h : h = [hold[m] EXCEPT !.at = place, !.task = task]
    OBVIOUS
  <2>2. h.at = place
    BY <2>1 DEF TypeOK, Hold
  <2>3. hold' = [hold EXCEPT ![m] = h]
    BY <1>7, <2>1 DEF TypeOK
  <2> QED
    BY <1>3, <2>2, <2>3
<1>8. ~StartRequest(m)
  BY <1>7, PreparedPlace DEF StartRequest, Places
<1>9. ~LaunchFails(m) /\ ~Launch(m)
  BY DEF LaunchFails, Launch
<1>10. ~StopRequest(m)
  <2> SUFFICES ASSUME StopRequest(m) PROVE FALSE
    OBVIOUS
  <2>1. PICK place \in {"sigint", "cleanup"} :
          hold' = [hold EXCEPT ![m].at = place, ![m].task = "stop", ![m].by = "request"]
    BY <1>2 DEF StopRequest
  <2>2. PICK h : h = [hold[m] EXCEPT !.at = place, !.task = "stop", !.by = "request"]
    OBVIOUS
  <2>3. h.at = place
    BY <2>2 DEF TypeOK, Hold
  <2>4. hold' = [hold EXCEPT ![m] = h]
    BY <2>1, <2>2 DEF TypeOK
  <2> QED
    BY <1>3, <2>3, <2>4
<1>11. ~Waited(m)
  BY <1>4 DEF Waited, Places
<1>12. ~CleanupSucceeds(m) /\ ~CleanupFails(m)
  BY <1>1, <1>5, <1>6, PreparedPlace DEF CleanupSucceeds, CleanupFails, Stopping
<1>13. ASSUME NEW elapsed \in BOOLEAN
       PROVE  ~BeginCleanup(m, elapsed) /\ ~PollCleanup(m, elapsed)
  BY <1>2, <1>4 DEF BeginCleanup, PollCleanup, Places
<1>14. ASSUME NEW elapsed \in BOOLEAN
       PROVE  ~Settle(m, elapsed)
  <2>1. ASSUME NEW s, Prepared(m, s, "recover")
        PROVE  FALSE
    BY <2>1, PreparedPlace
  <2>2. ~(hold' = [hold EXCEPT ![m].at = "cleanup", ![m].task = "recover"])
    BY <1>7 DEF Places
  <2>3. Settle(m, elapsed) =>
           \/ hold' = [hold EXCEPT ![m].at = "cleanup", ![m].task = "recover"]
           \/ Release(m)
           \/ \E s : Prepared(m, s, "recover")
    BY DEF Settle
  <2> QED
    BY <1>5, <2>1, <2>2, <2>3
<1>15. ASSUME NEW by
       PROVE  ~Refresh(m, by)
  <2> SUFFICES ASSUME Refresh(m, by) PROVE FALSE
    OBVIOUS
  <2>1. PICK h : h = [NoHold EXCEPT !.at = "polls", !.task = "refresh", !.by = by]
    OBVIOUS
  <2>2. h.at = "polls" /\ hold' = [hold EXCEPT ![m] = h]
    BY <2>1 DEF NoHold, Refresh
  <2> QED
    BY <1>3, <2>2
<1>16. ASSUME NEW answer, NEW changed
       PROVE  ~Poll(m, answer, changed)
  BY <1>7 DEF Poll, Places
<1>17. ~(Get(m) \/ EnsureStarted(m) \/ MonitorChecks(m) \/ MonitorLeaves(m) \/ Prune(m)
           \/ LeaderExits(m) \/ OrphansExit(m))
  BY <1>2 DEF Get, EnsureStarted, MonitorChecks, MonitorLeaves, Prune, LeaderExits,
              OrphansExit
<1>18. ClaimSlot(m)
  BY <1>8, <1>9, <1>10, <1>11, <1>12, <1>13, <1>14, <1>15, <1>16, <1>17 DEF MatchStep
<1>19. hold[m].task \in {"start", "restart", "recover"}
  BY <1>1, <1>18 DEF ClaimSlot, OnItsWay
<1> QED
  BY <1>6, <1>18, <1>19 DEF ClaimSlot

\* Only a claim adds to those who hold a slot, and only itself.
LEMMA HoldersGrow ==
  ASSUME DashboardInv, NEW k \in Matches, MatchStep(k)
  PROVE  \/ Holders' \subseteq Holders
         \/ /\ Holders' \subseteq Active
            /\ Cardinality(Active) <= MaxConcurrent
<1>1. MatchInv(k) /\ TypeOK /\ OthersKept(k) /\ TypeOK'
  BY MatchStepInv DEF DashboardInv
<1>2. ASSUME NEW m \in Matches, Running(m)' PROVE m \in Holders
  <2>1. CASE Running(m)
    BY <2>1 DEF Holders
  <2>2. CASE ~Running(m)
    BY <1>1, <1>2, <2>2, OnlyLaunched DEF Holders, Launch
  <2> QED
    BY <2>1, <2>2
<1>3. CASE ClaimSlot(k) /\ Cardinality(Active) <= MaxConcurrent
  <2>1. k \in Active
    BY <1>1, <1>3 DEF ClaimSlot, MatchInv, LaunchClear, OnItsWay, Active
  <2>2. \A m \in Matches \ {k} : hold'[m] = hold[m]
    BY <1>1 DEF OthersKept
  <2>3. Holders' \subseteq Holders \cup {k}
    BY <1>2, <2>2 DEF Holders
  <2> QED
    BY <1>3, <2>1, <2>3, HoldersActive
<1>4. CASE ~(ClaimSlot(k) /\ Cardinality(Active) <= MaxConcurrent)
  <2>1. hold'[k].at = "launch" => hold[k].at = "launch"
    BY <1>1, <1>4, LaunchReached
  <2>2. Holders' \subseteq Holders
    BY <1>1, <1>2, <2>1 DEF Holders, OthersKept
  <2> QED
    BY <2>2
<1> QED
  BY <1>3, <1>4

\* GIF_MAX_CONCURRENT_MATCHES: the reservation made by start() is counted by
\* every claim that follows, so that no two of them see the same last slot.
THEOREM LimitHolds == Spec => []WorkersWithinLimit
<1> DEFINE Within(S) == Cardinality(S) <= MaxConcurrent
<1>1. ASSUME NEW S, NEW T, T \subseteq Matches, S \subseteq T, Within(T)
      PROVE  Within(S)
  <2>1. IsFiniteSet(T)
    BY <1>1, DashboardAssumption, FS_Subset
  <2>2. IsFiniteSet(S) /\ Cardinality(S) <= Cardinality(T)
    BY <1>1, <2>1, FS_Subset
  <2>3. Cardinality(S) \in Nat /\ Cardinality(T) \in Nat
    BY <2>1, <2>2, FS_CardinalityType
  <2> QED
    BY <1>1, <2>2, <2>3, DashboardAssumption
<1>2. Init => Within(Holders)
  <2> SUFFICES ASSUME Init PROVE Within(Holders)
    OBVIOUS
  <2>1. Holders = {}
    BY DEF Init, Holders, Running, NoProcess, NoHold
  <2> QED
    BY <2>1, FS_EmptySet, DashboardAssumption
<1>3. DashboardInv /\ Within(Holders) /\ [Next]_vars => Within(Holders)'
  <2> SUFFICES ASSUME DashboardInv, Within(Holders), [Next]_vars PROVE Within(Holders')
    OBVIOUS
  <2>1. CASE UNCHANGED vars
    <3>1. Holders' = Holders
      BY <2>1 DEF vars, Holders, Running
    <3> QED
      BY <3>1
  <2>2. CASE Next
    <3>1. \/ Holders' \subseteq Holders
          \/ Holders' \subseteq Active /\ Within(Active)
      BY <2>2, HoldersGrow DEF Next
    <3>2. Holders \subseteq Matches /\ Active \subseteq Matches
      BY DEF Holders, Active
    <3> HIDE DEF Within
    <3> QED
      BY <1>1, <3>1, <3>2
  <2> QED
    BY <2>1, <2>2
<1>4. Within(Holders) => WorkersWithinLimit
  BY DEF WorkersWithinLimit, Holders
<1> QED
  BY <1>2, <1>3, <1>4, InvHolds, PTL DEF Spec

-----------------------------------------------------------------------------
(***************************************************************************)
(* Automatic admission, for any finite set of matches, any limit, any      *)
(* number of confirmations and of restarts.  One lemma per action says what*)
(* it does to the records; what they count never exceeds the empty answers *)
(* that were heard in a row.                                               *)
(***************************************************************************)

\* What the settings of admission are.
Settings ==
    /\ IsFiniteSet(Matches)
    /\ MaxConcurrent \in Nat /\ EmptyNeeded \in Nat /\ MaxRestarts \in Nat

States == {"unknown", "running"} \cup Admission!PreStart \cup Admission!TerminalStates
Records == [state : States, source : BOOLEAN, empties : 0..EmptyNeeded,
            missing : 0..Admission!MissingNeeded]

\* A record counts no empty answer that was not heard since the last other one.
CountsHeard == \A m \in Matches : aRecord[m].empties <= aSilent[m]

\* The match that start() is called for has no surviving Worker.
ChosenClear == aChosen \cap aExternal = {}

AdmissionInv == Admission!TypeOK /\ CountsHeard /\ Admission!SkipIsEarned /\ ChosenClear

\* What a step that hears no answer may make of the record r.
Follows(r, s) ==
    /\ s \in Records
    /\ s.empties <= r.empties
    /\ s.state = "skipped_no_source" => r.state = "skipped_no_source"

-----------------------------------------------------------------------------
LEMMA Names ==
    /\ Admission!PreStart \subseteq States /\ Admission!TerminalStates \subseteq States
    /\ Admission!Ended \subseteq Admission!TerminalStates
    /\ "skipped_no_source" \notin Admission!Ended
    /\ "skipped_no_source" \notin Admission!PreStart
    /\ {"unknown", "running", "discovered", "start_retrying", "expired_not_started",
        "waiting_capacity", "source_waiting", "retrying", "completed", "stopped",
        "skipped_no_source"} \subseteq States
BY DEF States, Admission!PreStart, Admission!TerminalStates, Admission!Ended

LEMMA FollowsItself == ASSUME NEW r \in Records, Settings PROVE Follows(r, r)
BY DEF Follows, Records, Settings

LEMMA FollowsState ==
    ASSUME Settings, NEW r \in Records, NEW st \in States, st # "skipped_no_source"
    PROVE  Follows(r, [r EXCEPT !.state = st])
BY DEF Follows, Records, Settings

LEMMA NewRecords ==
    ASSUME Settings
    PROVE  /\ Admission!NewRecord \in Records
           /\ Admission!NewRecord.state = "discovered" /\ Admission!NewRecord.empties = 0
           /\ Admission!NoRecord \in Records
           /\ Admission!NoRecord.state = "unknown" /\ Admission!NoRecord.empties = 0
<1>1. "discovered" \in States /\ "unknown" \in States  BY Names
<1>2. 0 \in 0..EmptyNeeded /\ 0 \in 0..Admission!MissingNeeded  BY DEF Settings,
    Admission!MissingNeeded
<1>3. /\ Admission!NewRecord \in Records
      /\ Admission!NewRecord.state = "discovered" /\ Admission!NewRecord.empties = 0
    BY <1>1, <1>2 DEF Records, Admission!NewRecord
<1>4. Admission!NoRecord = [Admission!NewRecord EXCEPT !.state = "unknown"]
    BY DEF Admission!NoRecord
<1>. QED  BY <1>1, <1>3, <1>4 DEF Records

LEMMA NoRecordFollows == ASSUME Settings, NEW r \in Records PROVE Follows(r, Admission!NoRecord)
<1>1. r.empties \in 0..EmptyNeeded  BY DEF Records
<1>. QED  BY <1>1, NewRecords DEF Follows, Settings

\* Records that only follow keep what was counted.
LEMMA Following ==
    ASSUME Settings, AdmissionInv, aSilent' = aSilent,
           aRecord' \in [Matches -> Records],
           \A m \in Matches : Follows(aRecord[m], aRecord'[m])
    PROVE  CountsHeard' /\ Admission!SkipIsEarned'
<1>1. /\ aRecord \in [Matches -> Records] /\ aSilent \in [Matches -> 0..EmptyNeeded]
    BY DEF AdmissionInv, Admission!TypeOK, Records, States
<1>2. CountsHeard'
    <2>1. SUFFICES ASSUME NEW m \in Matches PROVE aRecord'[m].empties <= aSilent[m]
        BY DEF CountsHeard
    <2>2. /\ aRecord[m].empties \in Nat /\ aRecord'[m].empties \in Nat /\ aSilent[m] \in Nat
        BY <1>1 DEF Records, Settings
    <2>. QED  BY <2>2 DEF Follows, AdmissionInv, CountsHeard
<1>3. Admission!SkipIsEarned'  BY DEF Follows, AdmissionInv, Admission!SkipIsEarned
<1>. QED  BY <1>2, <1>3

LEMMA InitAdmission == ASSUME Settings, Admission!Init PROVE AdmissionInv
<1>1. /\ Admission!NoRecord \in Records
      /\ Admission!NoRecord.state = "unknown" /\ Admission!NoRecord.empties = 0
    BY NewRecords
<1>2. Admission!TypeOK  BY <1>1 DEF Admission!Init, Admission!TypeOK, Records, States,
    Settings
<1>3. CountsHeard /\ Admission!SkipIsEarned
    BY <1>1 DEF Admission!Init, CountsHeard, Admission!SkipIsEarned, Settings
<1>4. ChosenClear  BY DEF Admission!Init, ChosenClear
<1>. QED  BY <1>2, <1>3, <1>4 DEF AdmissionInv

-----------------------------------------------------------------------------
(* The operations on a record *)

LEMMA ReviewedFollows ==
    ASSUME Settings, AdmissionInv, NEW m \in Matches
    PROVE  Follows(aRecord[m], Admission!Reviewed(m))
<1>1. aRecord[m] \in Records  BY DEF AdmissionInv, Admission!TypeOK, Records, States
<1>2. /\ Admission!Seen(m) \in Records /\ Admission!Seen(m).empties <= aRecord[m].empties
      /\ Admission!Seen(m).state = "skipped_no_source" => aRecord[m].state = "skipped_no_source"
    <2>. DEFINE r == IF aRecord[m].state = "unknown" THEN Admission!NewRecord ELSE aRecord[m]
    <2>1. /\ r \in Records /\ r.empties <= aRecord[m].empties
          /\ r.state = "skipped_no_source" => aRecord[m].state = "skipped_no_source"
        BY <1>1, NewRecords, FollowsItself DEF Follows, Records, Settings
    <2>2. Admission!Seen(m) = [r EXCEPT !.missing = 0]  BY DEF Admission!Seen
    <2>3. 0 \in 0..Admission!MissingNeeded  BY DEF Admission!MissingNeeded
    <2>. QED  BY <2>1, <2>2, <2>3 DEF Records
<1>3. /\ Admission!Discovered(m) \in Records
      /\ Admission!Discovered(m).empties = Admission!Seen(m).empties
      /\ Admission!Discovered(m).state = "skipped_no_source"
            => Admission!Seen(m).state = "skipped_no_source"
    <2>1. Admission!Discovered(m) = Admission!Seen(m) \/ \E st \in {"running", "stopped"} :
              Admission!Discovered(m) = [Admission!Seen(m) EXCEPT !.state = st]
        BY DEF Admission!Discovered
    <2>. QED  BY <1>2, <2>1, Names DEF Records
<1>4. /\ Admission!Reviewed(m) \in Records
      /\ Admission!Reviewed(m).empties = Admission!Discovered(m).empties
      /\ Admission!Reviewed(m).state = "skipped_no_source"
            => Admission!Discovered(m).state = "skipped_no_source"
    <2>1. \/ Admission!Reviewed(m) = Admission!Discovered(m)
          \/ \E st \in {"running", "start_retrying"} \cup Admission!Ended :
              Admission!Reviewed(m) = [Admission!Discovered(m) EXCEPT !.state = st]
        <3>. DEFINE r == Admission!Discovered(m)
        <3>1. CASE r.state \in {"running", "stopped"} /\ Admission!Running(m)
            BY <3>1 DEF Admission!Reviewed, Admission!Running, Admission!Ended
        <3>2. CASE r.state \in {"running", "stopped"} /\ aSession[m] \in Admission!Ended
            BY <3>2 DEF Admission!Reviewed, Admission!Running, Admission!Ended
        <3>3. CASE r.state \in {"running", "stopped"} /\ aSession[m] = "none" /\ m \notin aExternal
            BY <3>3 DEF Admission!Reviewed, Admission!Running, Admission!Ended
        <3>. QED  BY <3>1, <3>2, <3>3 DEF Admission!Reviewed
    <2>. QED  BY <1>3, <2>1, Names DEF Records
<1>. QED  BY <1>2, <1>3, <1>4 DEF Follows

LEMMA MissedFollows ==
    ASSUME Settings, AdmissionInv, NEW m \in Matches
    PROVE  Follows(aRecord[m], Admission!Missed(m))
<1>. DEFINE r == [aRecord[m] EXCEPT !.missing = IF @ < Admission!MissingNeeded THEN @ + 1 ELSE @]
<1>1. aRecord[m] \in Records  BY DEF AdmissionInv, Admission!TypeOK, Records, States
<1>2. r \in Records /\ r.empties = aRecord[m].empties /\ r.state = aRecord[m].state
    BY <1>1 DEF Records, Admission!MissingNeeded
<1>3. \/ Admission!Missed(m) = aRecord[m] \/ Admission!Missed(m) = r
      \/ \E st \in {"expired_not_started"} \cup Admission!Ended :
            Admission!Missed(m) = [r EXCEPT !.state = st]
    <2>1. CASE aRecord[m].state \in Admission!PreStart  BY <2>1 DEF Admission!Missed,
        Admission!PreStart
    <2>2. CASE aRecord[m].state = "running" /\ r.missing = Admission!MissingNeeded
        <3>1. aRecord[m].state \notin Admission!PreStart /\ ~(r.missing < Admission!MissingNeeded)
            BY <2>2 DEF Admission!PreStart, Admission!MissingNeeded
        <3>2. Admission!Missed(m) =
                IF aSession[m] = "none" THEN [r EXCEPT !.state = "completed"]
                ELSE IF aSession[m] \in Admission!Ended THEN [r EXCEPT !.state = aSession[m]]
                ELSE r
            BY <2>2, <3>1 DEF Admission!Missed
        <3>. QED  BY <3>2 DEF Admission!Ended
    <2>3. CASE aRecord[m].state = "running" /\ r.missing < Admission!MissingNeeded
        BY <2>3 DEF Admission!Missed, Admission!PreStart, Admission!MissingNeeded
    <2>. QED  BY <2>1, <2>2, <2>3 DEF Admission!Missed
<1>4. Follows(aRecord[m], aRecord[m])  BY <1>1, FollowsItself
<1>5. Follows(aRecord[m], r)  BY <1>2, <1>4 DEF Follows
<1>6. ASSUME NEW st \in {"expired_not_started"} \cup Admission!Ended
      PROVE  Follows(aRecord[m], [r EXCEPT !.state = st])
    <2>1. st \in States /\ st # "skipped_no_source"  BY <1>6, Names
    <2>. QED  BY <1>2, <1>5, <2>1 DEF Follows, Records
<1>. QED  BY <1>3, <1>4, <1>5, <1>6

-----------------------------------------------------------------------------
(* The actions *)

\* The parts of the invariant that records and answers do not touch.
RestOK ==
    /\ aSession \in [Matches -> {"none", "idle", "running"} \cup Admission!Ended]
    /\ aExternal \subseteq Matches /\ aListed \subseteq Matches
    /\ aStep \in {"catalogue", "probe", "start"}
    /\ aTodo \subseteq Matches /\ aChosen \subseteq Matches
    /\ aRestarts \in 0..MaxRestarts

LEMMA AdmissionParts ==
    Admission!TypeOK <=>
        /\ aRecord \in [Matches -> Records] /\ aSilent \in [Matches -> 0..EmptyNeeded]
        /\ RestOK
BY DEF Admission!TypeOK, RestOK, Records, States

\* A step that hears no answer.
LEMMA Unheard ==
    ASSUME Settings, AdmissionInv, aSilent' = aSilent, aRecord' \in [Matches -> Records],
           \A m \in Matches : Follows(aRecord[m], aRecord'[m]), RestOK', ChosenClear'
    PROVE  AdmissionInv'
<1>1. aSilent' \in [Matches -> 0..EmptyNeeded]  BY AdmissionParts DEF AdmissionInv
<1>2. Admission!TypeOK'  BY <1>1, AdmissionParts DEF Admission!TypeOK, RestOK, Records,
    States
<1>. QED  BY <1>2, Following DEF AdmissionInv

\* A step that changes one record, or none.
LEMMA OneFollows ==
    ASSUME Settings, AdmissionInv, aSilent' = aSilent, NEW m \in Matches, NEW r,
           Follows(aRecord[m], r), aRecord' \in {aRecord, [aRecord EXCEPT ![m] = r]},
           RestOK', ChosenClear'
    PROVE  AdmissionInv'
<1>1. aRecord \in [Matches -> Records]  BY AdmissionParts DEF AdmissionInv
<1>2. r \in Records  BY DEF Follows
<1>3. aRecord' \in [Matches -> Records]  BY <1>1, <1>2
<1>4. ASSUME NEW n \in Matches PROVE Follows(aRecord[n], aRecord'[n])
    BY <1>1, FollowsItself
<1>. QED  BY <1>3, <1>4, Unheard

\* A step that leaves records and answers alone.
LEMMA RecordsAlone ==
    ASSUME Settings, AdmissionInv, aRecord' = aRecord, aSilent' = aSilent, RestOK', ChosenClear'
    PROVE  AdmissionInv'
<1>1. aRecord \in [Matches -> Records]  BY AdmissionParts DEF AdmissionInv
<1>. QED  BY <1>1, FollowsItself, Unheard

LEMMA CatalogueKeeps ==
    ASSUME Settings, AdmissionInv, NEW playing \in SUBSET Matches, Admission!Catalogue(playing)
    PROVE  AdmissionInv'
<1>1. aRecord' = [m \in Matches |-> IF m \in playing THEN Admission!Reviewed(m) ELSE aRecord[m]]
    BY DEF Admission!Catalogue
<1>2. ASSUME NEW m \in Matches PROVE Follows(aRecord[m], aRecord'[m])
    <2>1. Follows(aRecord[m], aRecord[m])
        BY FollowsItself, AdmissionParts DEF AdmissionInv
    <2>. QED  BY <1>1, <2>1, ReviewedFollows
<1>3. aRecord' \in [Matches -> Records]  BY <1>1, <1>2 DEF Follows
<1>4. RestOK' /\ ChosenClear'
    BY AdmissionParts DEF AdmissionInv, Admission!Catalogue, RestOK, ChosenClear
<1>. QED  BY <1>2, <1>3, <1>4, Unheard DEF Admission!Catalogue

\* _probe_source: the record and what was heard change together.
LEMMA ProbeKeeps ==
    ASSUME Settings, AdmissionInv, NEW m \in Matches, Admission!Probe(m)
    PROVE  AdmissionInv'
<1>1. RestOK' /\ ChosenClear'
    BY AdmissionParts DEF AdmissionInv, Admission!Probe, RestOK, ChosenClear
<1>2. aRecord \in [Matches -> Records] /\ aSilent \in [Matches -> 0..EmptyNeeded]
    BY AdmissionParts DEF AdmissionInv
<1>3. CASE aRecord' = aRecord /\ aSilent' = aSilent
    BY <1>1, <1>3, RecordsAlone
<1>4. ASSUME NEW r \in Records, NEW n \in 0..EmptyNeeded, r.empties <= n,
             r.state = "skipped_no_source" => n = EmptyNeeded,
             aRecord' = [aRecord EXCEPT ![m] = r], aSilent' = [aSilent EXCEPT ![m] = n]
      PROVE  AdmissionInv'
    <2>1. aRecord' \in [Matches -> Records] /\ aSilent' \in [Matches -> 0..EmptyNeeded]
        BY <1>2, <1>4
    <2>2. Admission!TypeOK'  BY <1>1, <2>1 DEF Admission!TypeOK, RestOK, Records, States
    <2>3. CountsHeard' /\ Admission!SkipIsEarned'
        BY <1>2, <1>4 DEF AdmissionInv, CountsHeard, Admission!SkipIsEarned
    <2>. QED  BY <1>1, <2>2, <2>3 DEF AdmissionInv
<1>5. aRecord[m] \in Records /\ aSilent[m] \in 0..EmptyNeeded /\ 0 \in 0..EmptyNeeded
      /\ aRecord[m].empties \in 0..EmptyNeeded /\ aRecord[m].empties <= aSilent[m]
    BY <1>2 DEF Records, Settings, AdmissionInv, CountsHeard
<1>6. CASE /\ aRecord' = [aRecord EXCEPT ![m].state = "waiting_capacity",
                                       ![m].source = TRUE, ![m].empties = 0]
           /\ aSilent' = [aSilent EXCEPT ![m] = 0]
    <2>. DEFINE r == [aRecord[m] EXCEPT !.state = "waiting_capacity", !.source = TRUE, !.empties = 0]
    <2>1. aRecord' = [aRecord EXCEPT ![m] = r]  BY <1>2, <1>6
    <2>2. r \in Records /\ r.empties = 0 /\ r.state = "waiting_capacity"
        BY <1>5, Names DEF Records
    <2>3. aSilent' = [aSilent EXCEPT ![m] = 0] /\ r.empties <= 0  BY <1>6, <2>2
    <2>. HIDE DEF r
    <2>. QED  BY <1>4, <1>5, <2>1, <2>2, <2>3
<1>7. CASE /\ \E long \in BOOLEAN : aRecord' = [aRecord EXCEPT ![m] = Admission!Emptied(@, long)]
           /\ aSilent' = [aSilent EXCEPT ![m] = IF @ < EmptyNeeded THEN @ + 1 ELSE @]
    <2>1. PICK long \in BOOLEAN :
             aRecord' = [aRecord EXCEPT ![m] = Admission!Emptied(aRecord[m], long)]
        BY <1>2, <1>7
    <2>. DEFINE k == IF aRecord[m].empties < EmptyNeeded THEN aRecord[m].empties + 1
                     ELSE aRecord[m].empties
                n == IF aSilent[m] < EmptyNeeded THEN aSilent[m] + 1 ELSE aSilent[m]
                r == Admission!Emptied(aRecord[m], long)
    <2>2. k \in 0..EmptyNeeded /\ n \in 0..EmptyNeeded /\ k <= n /\ (k = EmptyNeeded => n = EmptyNeeded)
        BY <1>5 DEF Settings
    <2>3. \E st \in {"skipped_no_source", "source_waiting"} :
              /\ r = [aRecord[m] EXCEPT !.source = FALSE, !.empties = k, !.state = st]
              /\ st = "skipped_no_source" => k = EmptyNeeded
        BY DEF Admission!Emptied
    <2>4. r \in Records /\ r.empties = k /\ (r.state = "skipped_no_source" => k = EmptyNeeded)
        BY <1>5, <2>2, <2>3, Names DEF Records
    <2>5. aSilent' = [aSilent EXCEPT ![m] = n]  BY <1>2, <1>7
    <2>. HIDE DEF k, n, r
    <2>. QED  BY <1>4, <2>1, <2>2, <2>4, <2>5 DEF r
<1>8. CASE /\ aRecord' = [aRecord EXCEPT ![m] = Admission!Retried(@)]
           /\ aSilent' = [aSilent EXCEPT ![m] = 0]
    <2>. DEFINE r == [aRecord[m] EXCEPT !.state = "retrying", !.empties = 0]
    <2>1. aRecord' = [aRecord EXCEPT ![m] = r]  BY <1>2, <1>8 DEF Admission!Retried
    <2>2. r \in Records /\ r.empties = 0 /\ r.state = "retrying"
        BY <1>5, Names DEF Records
    <2>3. aSilent' = [aSilent EXCEPT ![m] = 0] /\ r.empties <= 0  BY <1>8, <2>2
    <2>. HIDE DEF r
    <2>. QED  BY <1>4, <1>5, <2>1, <2>2, <2>3
<1>. QED  BY <1>3, <1>6, <1>7, <1>8 DEF Admission!Probe

\* _start_waiting: a surviving Worker is found before start() is called.
LEMMA ConsiderKeeps ==
    ASSUME Settings, AdmissionInv, NEW m \in Matches, Admission!Consider(m)
    PROVE  AdmissionInv'
<1>1. aRecord[m] \in Records  BY AdmissionParts DEF AdmissionInv
<1>2. RestOK'  BY AdmissionParts DEF AdmissionInv, Admission!Consider, RestOK,
    Admission!Ended
<1>3. ChosenClear'  BY DEF AdmissionInv, Admission!Consider, ChosenClear
<1>4. aRecord' \in {aRecord, [aRecord EXCEPT ![m].state = "running"],
                   [aRecord EXCEPT ![m].state = "stopped"]}
    BY DEF Admission!Consider
<1>5. ASSUME NEW st \in {"running", "stopped"}, aRecord' = [aRecord EXCEPT ![m].state = st]
      PROVE  AdmissionInv'
    <2>1. Follows(aRecord[m], [aRecord[m] EXCEPT !.state = st])
        BY <1>1, Names, FollowsState
    <2>. QED  BY <1>2, <1>3, <1>5, <2>1, OneFollows DEF Admission!Consider
<1>. QED  BY <1>2, <1>3, <1>4, <1>5, RecordsAlone DEF Admission!Consider

LEMMA AdmitKeeps ==
    ASSUME Settings, AdmissionInv, NEW m \in Matches, Admission!Admit(m)
    PROVE  AdmissionInv'
<1>1. aRecord[m] \in Records  BY AdmissionParts DEF AdmissionInv
<1>2. RestOK'  BY AdmissionParts DEF AdmissionInv, Admission!Admit, RestOK, Admission!Ended
<1>3. ChosenClear'  BY DEF Admission!Admit, ChosenClear
<1>4. \/ aRecord' = aRecord
      \/ \E st \in {"running", "expired_not_started", "start_retrying"} :
            aRecord' = [aRecord EXCEPT ![m].state = st]
    BY DEF Admission!Admit
<1>5. ASSUME NEW st \in {"running", "expired_not_started", "start_retrying"},
             aRecord' = [aRecord EXCEPT ![m].state = st]
      PROVE  AdmissionInv'
    <2>1. Follows(aRecord[m], [aRecord[m] EXCEPT !.state = st])
        BY <1>1, Names, FollowsState
    <2>. QED  BY <1>2, <1>3, <1>5, <2>1, OneFollows DEF Admission!Admit
<1>. QED  BY <1>2, <1>3, <1>4, <1>5, RecordsAlone DEF Admission!Admit

LEMMA ExpireKeeps == ASSUME Settings, AdmissionInv, Admission!Expire PROVE AdmissionInv'
<1>1. aRecord' = [m \in Matches |-> IF m \in aListed THEN aRecord[m] ELSE Admission!Missed(m)]
    BY DEF Admission!Expire
<1>2. ASSUME NEW m \in Matches PROVE Follows(aRecord[m], aRecord'[m])
    <2>1. Follows(aRecord[m], aRecord[m])
        BY FollowsItself, AdmissionParts DEF AdmissionInv
    <2>. QED  BY <1>1, <2>1, MissedFollows
<1>3. aRecord' \in [Matches -> Records]  BY <1>1, <1>2 DEF Follows
<1>4. RestOK' /\ ChosenClear'
    BY AdmissionParts DEF AdmissionInv, Admission!Expire, RestOK, ChosenClear
<1>. QED  BY <1>2, <1>3, <1>4, Unheard DEF Admission!Expire

LEMMA ForgetKeeps ==
    ASSUME Settings, AdmissionInv, NEW m \in Matches, Admission!Forget(m)
    PROVE  AdmissionInv'
<1>1. Follows(aRecord[m], Admission!NoRecord)
    BY NoRecordFollows, AdmissionParts DEF AdmissionInv
<1>2. RestOK' /\ ChosenClear'
    BY AdmissionParts DEF AdmissionInv, Admission!Forget, RestOK, ChosenClear
<1>. QED  BY <1>1, <1>2, OneFollows DEF Admission!Forget

LEMMA RestartKeeps == ASSUME Settings, AdmissionInv, Admission!Restart PROVE AdmissionInv'
<1>1. aRecord' = [m \in Matches |-> Admission!NoRecord]  BY DEF Admission!Restart
<1>2. ASSUME NEW m \in Matches PROVE Follows(aRecord[m], aRecord'[m])
    BY <1>1, NoRecordFollows, AdmissionParts DEF AdmissionInv
<1>3. aRecord' \in [Matches -> Records]  BY <1>1, NewRecords
<1>4. RestOK' /\ ChosenClear'
    BY AdmissionParts DEF AdmissionInv, Admission!Restart, RestOK, ChosenClear,
                          Admission!AllWorkers, Admission!Own, Settings
<1>. QED  BY <1>2, <1>3, <1>4, Unheard DEF Admission!Restart

\* Requests of operators, Workers that end: the records learn of them in a pass.
LEMMA OthersKeep ==
    ASSUME Settings, AdmissionInv, NEW m \in Matches,
           \/ Admission!Open(m) \/ Admission!OperatorStarts(m) \/ Admission!OperatorStops(m)
           \/ Admission!Prune(m) \/ Admission!ExternalExits(m)
           \/ \E how \in {"completed", "failed"} : Admission!Ends(m, how)
    PROVE  AdmissionInv'
<1>1. aRecord' = aRecord /\ aSilent' = aSilent
    BY DEF Admission!Open, Admission!OperatorStarts, Admission!OperatorStops,
           Admission!Prune, Admission!ExternalExits, Admission!Ends
<1>2. RestOK'
    BY AdmissionParts DEF AdmissionInv, RestOK, Admission!Ended, Admission!Open,
                          Admission!OperatorStarts, Admission!OperatorStops,
                          Admission!Prune,
                     Admission!ExternalExits, Admission!Ends
<1>3. ChosenClear'
    BY DEF AdmissionInv, ChosenClear, Admission!Open, Admission!OperatorStarts,
           Admission!OperatorStops, Admission!Prune,
           Admission!ExternalExits, Admission!Ends
<1>. QED  BY <1>1, <1>2, <1>3, RecordsAlone

LEMMA StepKeeps ==
    ASSUME Settings, AdmissionInv, [Admission!Next]_Admission!vars
    PROVE  AdmissionInv'
<1>1. CASE Admission!Probed
    <2>1. RestOK' /\ ChosenClear'
        BY <1>1, AdmissionParts DEF AdmissionInv, Admission!Probed, RestOK, ChosenClear
    <2>. QED  BY <1>1, <2>1, RecordsAlone DEF Admission!Probed
<1>2. CASE UNCHANGED Admission!vars
    <2>1. RestOK' /\ ChosenClear'
        BY <1>2, AdmissionParts DEF AdmissionInv, Admission!vars, RestOK, ChosenClear
    <2>. QED  BY <1>2, <2>1, RecordsAlone DEF Admission!vars
<1>. QED
    BY <1>1, <1>2, CatalogueKeeps, ProbeKeeps, ConsiderKeeps, AdmitKeeps, ExpireKeeps,
       ForgetKeeps, RestartKeeps, OthersKeep DEF Admission!Next

\* A start counts every Worker, the survivors and the one it adds included.
LEMMA StartsWithin ==
    ASSUME Settings, AdmissionInv, [Admission!Next]_Admission!vars
    PROVE  Admission!WithinLimit
<1>1. SUFFICES ASSUME NEW m \in aChosen, aSession[m] # "running", aSession'[m] = "running",
                      aChosen' = {}
               PROVE  Cardinality(Admission!AllWorkers') <= MaxConcurrent /\ m \notin aExternal
    BY DEF Admission!WithinLimit, Admission!Cardinality, Cardinality
<1>2. m \in Matches /\ m \notin aExternal
      /\ aSession \in [Matches -> {"none", "idle", "running"} \cup Admission!Ended]
      /\ aExternal \subseteq Matches
    BY <1>1, AdmissionParts DEF AdmissionInv, ChosenClear, RestOK
<1>3. PICK n \in Matches : Admission!Admit(n)
    <2>1. ~UNCHANGED Admission!vars  BY <1>1 DEF Admission!vars
    <2>2. ~Admission!Restart  BY <1>1, <1>2 DEF Admission!Restart
    <2>3. ~Admission!Probed /\ ~Admission!Expire  BY <1>1 DEF Admission!Probed,
        Admission!Expire
    <2>4. ASSUME NEW playing \in SUBSET Matches PROVE ~Admission!Catalogue(playing)
        BY <1>1 DEF Admission!Catalogue
    <2>5. ASSUME NEW n \in Matches
          PROVE  ~(\/ Admission!Probe(n) \/ Admission!Consider(n) \/ Admission!Forget(n)
                   \/ Admission!Open(n) \/ Admission!OperatorStarts(n)
                   \/ Admission!OperatorStops(n) \/ Admission!Prune(n)
                   \/ Admission!ExternalExits(n)
                   \/ \E how \in {"completed", "failed"} : Admission!Ends(n, how))
        BY <1>1 DEF Admission!Probe, Admission!Consider, Admission!Forget,
                    Admission!Open, Admission!OperatorStarts, Admission!OperatorStops,
                    Admission!Prune,
                    Admission!ExternalExits, Admission!Ends
    <2>. QED  BY <2>1, <2>2, <2>3, <2>4, <2>5 DEF Admission!Next
<1>4. aSession' = [aSession EXCEPT ![m] = "running"] /\ Admission!SlotFree /\ aExternal' = aExternal
    BY <1>1, <1>2, <1>3 DEF Admission!Admit
<1>5. Admission!AllWorkers' = Admission!AllWorkers \cup {m}
    BY <1>2, <1>4 DEF Admission!AllWorkers, Admission!Own, Admission!Running
<1>6. IsFiniteSet(Admission!AllWorkers)
    BY <1>2, FS_Subset DEF Admission!AllWorkers, Admission!Own, Settings
<1>7. Cardinality(Admission!AllWorkers) \in Nat  BY <1>6, FS_CardinalityType
<1>8. Cardinality(Admission!AllWorkers \cup {m})
        \in {Cardinality(Admission!AllWorkers), Cardinality(Admission!AllWorkers) + 1}
    BY <1>6, FS_AddElement
<1>. QED  BY <1>2, <1>4, <1>5, <1>7, <1>8 DEF Admission!SlotFree, Settings, Admission!Cardinality, Cardinality

-----------------------------------------------------------------------------
LEMMA AdmissionInductive == ASSUME Settings PROVE Admission!Spec => []AdmissionInv
<1>1. AdmissionInv /\ [Admission!Next]_Admission!vars => AdmissionInv'  BY StepKeeps
<1>. QED  BY <1>1, InitAdmission, PTL DEF Admission!Spec

\* The types of the records, of the sessions and of what a pass keeps.
THEOREM AdmissionTypeCorrect == ASSUME Settings PROVE Admission!Spec => []Admission!TypeOK
<1>1. AdmissionInv => Admission!TypeOK  BY DEF AdmissionInv
<1>. QED  BY <1>1, AdmissionInductive, PTL

\* A Playing match is given up only after the empty answers in a row that confirm
\* it has no source (_probe_source, _schedule_source_retry).
THEOREM SkipEarned == ASSUME Settings PROVE Admission!Spec => []Admission!SkipIsEarned
<1>1. AdmissionInv => Admission!SkipIsEarned  BY DEF AdmissionInv
<1>. QED  BY <1>1, AdmissionInductive, PTL

\* What admission starts stays within the limit, surviving Workers counted, and is
\* never a second Worker beside one of those (_start_waiting, worker_slot_status).
THEOREM StartsWithinLimit ==
    ASSUME Settings PROVE Admission!Spec => [][Admission!WithinLimit]_Admission!vars
<1>1. AdmissionInv /\ [Admission!Next]_Admission!vars => [Admission!WithinLimit]_Admission!vars
    BY StartsWithin
<1>. QED  BY <1>1, AdmissionInductive, PTL DEF Admission!Spec

\* A behaviour of MCDashboard that follows the admission is one of AutoAdmission.
LEMMA AdmissionBehaves == MCSpec => Admission!Spec
<1>1. MCInit => Admission!Init
  BY DEF MCInit
<1>2. [MCNext]_MCVars => [Admission!Next]_Admission!vars
  BY DEF MCNext, MCVars, aVars, Admission!vars
<1> QED
  BY <1>1, <1>2, PTL DEF MCSpec, Admission!Spec

\* A match is given up only after the answers in a row that confirm it has no
\* source, and a start stays within the slots, with no second Worker beside one
\* that outlived the Dashboard (_probe_source, _start_waiting).
THEOREM AdmissionHoldsAlways == MCSpec => AdmissionHolds
<1>1. Settings
  BY DashboardAssumption, AdmissionAssumption
     DEF Settings
<1>2. Admission!Spec => []Admission!SkipIsEarned
  BY <1>1, SkipEarned
<1>3. Admission!Spec => [][Admission!WithinLimit]_Admission!vars
  BY <1>1, StartsWithinLimit
<1>4. [Admission!WithinLimit]_Admission!vars => [focus = "admission" => Admission!WithinLimit]_aVars
  BY DEF Admission!vars, aVars
<1>5. Admission!SkipIsEarned => (focus = "admission" => Admission!SkipIsEarned)
  OBVIOUS
<1> QED
  BY <1>2, <1>3, <1>4, <1>5, AdmissionBehaves, PTL DEF AdmissionHolds
=============================================================================
