------------------------------ MODULE GoalStages ------------------------------
(***************************************************************************)
(* Two stages of a match Worker before a GIF is cut: the goals of the two  *)
(* feeds, and the answer about a window's video.  Neither touches what the *)
(* other keeps, so each has variables of its own; MCPipeline composes them *)
(* with the stages that follow.                                            *)
(***************************************************************************)
EXTENDS Integers, FiniteSets

CONSTANTS
    \* GoalSources
    Pair, None, Versions, Calibrated, MaxStarts,
    \* VideoCoverage
    LiveEdge, Lengths, Silences, Requests, MinDegraded, MaxAnchorGap, MaxAnchorShift

VARIABLES
    gNear, gFeed, gShots, gStarts, gUp, gTasks, gSuppressed, gCursor, gAliasRows,
    gShotSeen, gSnapshot, gSeen, gTracker, gLatest, gResponse, gInitialized, gCores,
    gPending, gTodo, gPolled, gFirst, gTorn,
    cSegments, cEdge, cRequest

(* The goals of the overview and of the shotmap. *)
Sources == INSTANCE GoalSources WITH
    Goals <- Pair,
    near <- gNear, feed <- gFeed, shots <- gShots, starts <- gStarts, up <- gUp,
    tasks <- gTasks, suppressed <- gSuppressed, cursor <- gCursor,
    aliasRows <- gAliasRows, shotSeen <- gShotSeen, snapshot <- gSnapshot, seen <- gSeen,
    tracker <- gTracker, latest <- gLatest, response <- gResponse,
    initialized <- gInitialized, cores <- gCores, pending <- gPending, todo <- gTodo,
    polled <- gPolled, first <- gFirst, torn <- gTorn
gVars == <<gNear, gFeed, gShots, gStarts, gUp, gTasks, gSuppressed, gCursor, gAliasRows,
           gShotSeen, gSnapshot, gSeen, gTracker, gLatest, gResponse, gInitialized, gCores,
           gPending, gTodo, gPolled, gFirst, gTorn>>

(* What a stream with silences answers to a request. *)
Answer == INSTANCE VideoCoverage WITH
    segments <- cSegments, edge <- cEdge, request <- cRequest
cVars == <<cSegments, cEdge, cRequest>>

ASSUME GoalStagesAssumption == Sources!SourcesAssumption /\ Answer!CoverageAssumption
=============================================================================
