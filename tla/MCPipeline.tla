----------------------------- MODULE MCPipeline ------------------------------
(***************************************************************************)
(* The stages of one match Worker on small instances: the visual tasks of a*)
(* goal, the encodings of two events on one thread, the goals of two feeds,*)
(* the deletion of segments and the answer about a window's video.  Each   *)
(* has variables of its own; a behaviour follows one of them, as focus     *)
(* says.                                                                   *)
(***************************************************************************)
EXTENDS VisionTasks, GoalStages

CONSTANTS
    \* MatchWorker
    GifWorkers, CommandLines, Mishaps, MaxMishaps,
    \* SegmentRetention
    MaxTime, Buffer, SearchBefore, ClipBefore, LookBack, After, Budget, Ttl,
    Corrected    \* goals whose coordinates the shotmap corrects once

VARIABLES focus,
    wTask, wVisual, wCursor, wFeed, wHistory, wVideo, wMain, wJobs, wMem, wAt,
    wIngest, wStop, wOver, wMishaps, wSettings,
    rNow, rFiles, rRows, rGen, rManifest, rBorn, rIngest, rLease, rTask, rThread,
    rPass, rWorker, rOver, rRestarts

------------------------------------------------------------------------------
(* The GIFs of several events. *)
Encoding == INSTANCE MatchWorkerProofs WITH
    Events <- Pair,
    task <- wTask, visual <- wVisual, cursor <- wCursor, feed <- wFeed, history <- wHistory,
    video <- wVideo, main <- wMain, jobs <- wJobs, mem <- wMem, at <- wAt,
    ingest <- wIngest, stop <- wStop, over <- wOver, mishaps <- wMishaps,
    settings <- wSettings
wVars == <<wTask, wVisual, wCursor, wFeed, wHistory, wVideo, wMain, wJobs, wMem, wAt,
           wIngest, wStop, wOver, wMishaps, wSettings>>

(* A task that looks back past the buffer while segments are pruned. *)
Retention == INSTANCE SegmentRetention WITH
    now <- rNow, files <- rFiles, rows <- rRows, gen <- rGen, manifest <- rManifest,
    born <- rBorn, ingest <- rIngest, lease <- rLease, task <- rTask, thread <- rThread,
    pass <- rPass, worker <- rWorker, over <- rOver, restarts <- rRestarts
rVars == <<rNow, rFiles, rRows, rGen, rManifest, rBorn, rIngest, rLease, rTask, rThread,
           rPass, rWorker, rOver, rRestarts>>

------------------------------------------------------------------------------
ASSUME StagesAssumption == Encoding!WorkerAssumption /\ Retention!RetentionAssumption

(* For TLC: the default anchor and a run without GIFs; a goal whose row is listed *)
(* and then corrected; windows inside the stream, at its start, and with the      *)
(* anchor at the end.                                                             *)
Line(emit, gif, early) == [emit |-> emit, gif |-> gif, reconnect |-> gif, early |-> early]
MCCommandLines == {Line(FALSE, TRUE, TRUE), Line(TRUE, FALSE, TRUE)}
MCVersions == [g \in Pair |-> IF g \in Corrected THEN 2 ELSE 0]
MCWindows == {[from |-> 4, to |-> 12, anchor |-> 8], [from |-> 0, to |-> 7, anchor |-> 0],
              [from |-> 3, to |-> 9, anchor |-> 9]}
------------------------------------------------------------------------------
MCVars == <<focus, vars, wVars, gVars, rVars, cVars>>
MCInit ==
    /\ focus \in {"visual", "encoding", "sources", "retention", "coverage"}
    /\ Init /\ Encoding!Init /\ Sources!Init /\ Retention!Init /\ Answer!Init
    \* what a behaviour does not follow starts in one way
    /\ focus # "visual" => refining
    /\ focus # "encoding" => wSettings.gif
    /\ focus # "sources" => gNear
    /\ focus # "coverage" =>
          /\ cRequest.from = 0
          /\ ~(cRequest.allow \/ cRequest.force \/ cRequest.stitch \/ cRequest.adjust)
MCNext ==
    \/ focus = "visual" /\ Next /\ UNCHANGED <<focus, wVars, gVars, rVars, cVars>>
    \/ focus = "encoding" /\ Encoding!Next /\ UNCHANGED <<focus, vars, gVars, rVars, cVars>>
    \/ focus = "sources" /\ Sources!Next /\ UNCHANGED <<focus, vars, wVars, rVars, cVars>>
    \/ focus = "retention" /\ Retention!Next /\ UNCHANGED <<focus, vars, wVars, gVars, cVars>>
    \/ focus = "coverage" /\ Answer!Next /\ UNCHANGED <<focus, vars, wVars, gVars, rVars>>
MCSpec == MCInit /\ [][MCNext]_MCVars
------------------------------------------------------------------------------
\* With more events than threads, whoever runs FFmpeg for an event's GIF is alone
\* and the store says so, and no future of the pool is without its job
\* (encode_event_job, the eviction of finished jobs, the drain).
TwoEncoders == focus = "encoding" => Encoding!EncodersRecorded /\ Encoding!FutureHasJob

\* Through crashes, both feeds and the shotmap's filter, a goal has one task unless
\* its second feed tells something else of it, and a goal told has a task
\* (HttpShotmapGoalSource, EventRevisionTracker, events_represent_same_incident).
OneTaskEach == focus = "sources" => Sources!OneTaskPerGoal /\ Sources!GoalHasTask

\* A goal becomes one durable event, also where the process dies between the task and
\* the snapshot that remembers it (EventRevisionTracker maps "changing API records
\* onto one durable real-world event", event_driven_pipeline.py:2666).
OneDurableEvent == focus = "sources" => Sources!OneDurableEvent

\* No deletion takes a segment that a lease names or that the window of an
\* unfinished task still needs (prune_timeline_and_segments, active_segment_leases).
NeededSegmentsStay ==
    [][focus = "retention" => Retention!KeepsLeased /\ Retention!KeepsWindow]_rVars

\* "The video is there" is only said of a window whose video is there, and what is
\* called lost never turns out to be there (resolve_local_window_coverage).
AnswersHold ==
    [](focus = "coverage" => Answer!AnswerIsTrue) /\ [][focus = "coverage" => Answer!StaysLost]_cVars
=============================================================================
