---------------------------- MODULE MCDashboard ------------------------------
(***************************************************************************)
(* Two matches of one Dashboard with a single slot: their sessions, and,   *)
(* with variables of its own, the automatic admission.  A behaviour follows*)
(* one of the two, as focus says.  The matches are alike and may be        *)
(* swapped.                                                                *)
(***************************************************************************)
EXTENDS Dashboard, TLC

CONSTANTS EmptyNeeded, MaxRestarts     \* of AutoAdmission

Symmetry == Permutations(Matches)

VARIABLES focus, aRecord, aSession, aExternal, aSilent, aListed, aStep, aTodo,
          aChosen, aRestarts

Admission == INSTANCE AutoAdmission WITH
    record <- aRecord, session <- aSession, external <- aExternal, silent <- aSilent,
    listed <- aListed, step <- aStep, todo <- aTodo, chosen <- aChosen,
    restarts <- aRestarts

aVars == <<aRecord, aSession, aExternal, aSilent, aListed, aStep, aTodo, aChosen,
           aRestarts>>

ASSUME AdmissionAssumption == EmptyNeeded \in Nat /\ MaxRestarts \in Nat

------------------------------------------------------------------------------
MCVars == <<focus, vars, aVars>>
MCInit == focus \in {"sessions", "admission"} /\ Init /\ Admission!Init
MCNext ==
    \/ focus = "sessions" /\ Next /\ UNCHANGED <<focus, aVars>>
    \/ focus = "admission" /\ Admission!Next /\ UNCHANGED <<focus, vars>>
MCSpec == MCInit /\ [][MCNext]_MCVars

\* Admission gives a match up only after answers in a row that confirm it has no
\* source, and never starts more Workers than there are slots, nor a second one for
\* a match whose Worker outlived the Dashboard (_probe_source, _start_waiting).
AdmissionHolds ==
    /\ [](focus = "admission" => Admission!SkipIsEarned)
    /\ [][focus = "admission" => Admission!WithinLimit]_aVars

\* A match an operator stopped is not started again by admission ("已手动停止，自动接纳
\* 不会重新启动", dashboard_server.py:1244).
ManualStopHolds == [][focus = "admission" => Admission!ObeysStop]_aVars
=============================================================================
