--------------------------- MODULE MCMatchWorker -----------------------------
(***************************************************************************)
(* Instances of MatchWorker: a goal of a live match whose window fills up  *)
(* while the Worker crashes, is interrupted or refused a slot, and a card  *)
(* of a match with the default anchor; and, with variables of its own, the *)
(* session of a match in the Dashboard.  A behaviour follows one of the    *)
(* two, as focus says, under the fairness of that module.                  *)
(***************************************************************************)
EXTENDS MatchWorker

CONSTANTS goal, card, match

Line(emit, gif, reconnect, early) ==
    [emit |-> emit, gif |-> gif, reconnect |-> reconnect, early |-> early]

\* a live match whose windows fill up while it runs, and one with the default anchor
Live == {Line(FALSE, TRUE, TRUE, FALSE)}
Early == {Line(FALSE, TRUE, TRUE, TRUE)}

VARIABLES focus, mSession, mWorker, mHold, mWatch, mEnsuring, mHalted

Sessions == INSTANCE Dashboard WITH
    Matches <- {match}, MaxConcurrent <- 1,
    session <- mSession, worker <- mWorker, hold <- mHold, watch <- mWatch,
    ensuring <- mEnsuring, halted <- mHalted
mVars == <<mSession, mWorker, mHold, mWatch, mEnsuring, mHalted>>

MCVars == <<focus, vars, mVars>>
MCInit == focus \in {"worker", "sessions"} /\ Init /\ Sessions!Init
MCNext ==
    \/ focus = "worker" /\ Next /\ UNCHANGED <<focus, mVars>>
    \/ focus = "sessions" /\ Sessions!Next /\ UNCHANGED <<focus, vars>>

(***************************************************************************)
(* The Fairness of MatchWorker and of Dashboard.  A behaviour keeps its    *)
(* focus, so that fairness of a step of either module says what fairness   *)
(* of each of the two would say.                                           *)
(***************************************************************************)
Either(A, B) ==
    \/ focus = "worker" /\ Step(A) /\ UNCHANGED <<focus, mVars>>
    \/ focus = "sessions" /\ B /\ UNCHANGED <<focus, vars>>
Fair ==
    /\ WF_MCVars(Either(MainStep, Sessions!Proceeds(match)))
    /\ WF_MCVars(Either(StopClock, Sessions!PollCleanup(match, TRUE)))
    /\ WF_MCVars(Either(stop.ingestStopped /\ IngestDies, Sessions!Dies(match)))
    /\ SF_MCVars(Either(Poll, Sessions!Refresh(match, "monitor")))
    /\ SF_MCVars(Either(Reconnect, Sessions!MonitorChecks(match)))
    /\ SF_MCVars(Either(EncodeStep("pool", goal), Sessions!Settle(match, TRUE)))
    /\ SF_MCVars(Either(EncodeStep("main", goal), Sessions!Recovers(match)))
    /\ SF_MCVars(focus = "sessions" /\ Sessions!Launch(match) /\ UNCHANGED <<focus, vars>>)
    /\ WF_MCVars(Either(RetryDue(goal), FALSE))
    /\ WF_MCVars(Either(DeadlinePasses(goal), FALSE))
MCSpec == MCInit /\ [][MCNext]_MCVars
LiveSpec == MCSpec /\ Fair

\* A match that finishes comes to its end, and a Worker that crashed is started again
\* while its match is wanted and watched (_finish_timeout, _recover_worker).
SessionsMove == Sessions!FinishingEnds /\ Sessions!CrashedWorkerReturns
=============================================================================
