------------------------------ MODULE MCLive ---------------------------------
(***************************************************************************)
(* What must come to an end, on instances small enough for liveness: two   *)
(* GIFs on one slot, the delivery of an OCR task, the visual tasks of a    *)
(* goal and the deletion of the video of its match.  Each has              *)
(* variables of its own; a behaviour follows one of them, as focus says,   *)
(* under the fairness of that module.                                      *)
(***************************************************************************)
EXTENDS Integers

CONSTANTS goal, dashboard

VARIABLES focus,
    sStalls, sConfig, sProc, sPc, sRequest, sLease, sAhead, sBeating,
    dRow, dClaim, dRead, dSource, dNamed, dArticles, dMishaps,
    vPhase, vRefining, vRestarts, vSecond, vJob, vOwed, vRow, vWorker,
    rNow, rFiles, rRows, rGen, rManifest, rBorn, rIngest, rLease, rTask, rThread,
    rPass, rWorker, rOver, rRestarts

Gifs == {"gifA", "gifB"}
OwnerOf == [t \in Gifs |-> IF t = "gifA" THEN "A" ELSE "B"]
Slots == INSTANCE HeavySlots WITH
    Tasks <- Gifs, Coordinators <- {"A", "B"}, Owner <- OwnerOf,
    Kind <- [t \in Gifs |-> "gif"], LimitChoices <- {[heavy |-> 1, vision |-> 1]},
    LeaseTicks <- 2, StallChoices <- {FALSE}, stalls <- sStalls,
    config <- sConfig, proc <- sProc, pc <- sPc, request <- sRequest, lease <- sLease,
    ahead <- sAhead, beating <- sBeating
sVars == <<sStalls, sConfig, sProc, sPc, sRequest, sLease, sAhead, sBeating>>

Delivery == INSTANCE ArticleDelivery WITH
    Tasks <- {goal}, Kind <- [t \in {goal} |-> "ocr"],
    Workers <- {dashboard}, WorkerKinds <- [w \in {dashboard} |-> {"ocr"}],
    Enqueuers <- {"pipeline"}, MaxArtifact <- 1, Archived <- 0,
    Archive <- [t \in {goal} |-> 0], Trusted <- {1}, RetryLimit <- 1,
    ManualMode <- "publish", MaxMishaps <- 1,
    row <- dRow, claim <- dClaim, read <- dRead, source <- dSource, named <- dNamed,
    articles <- dArticles, mishaps <- dMishaps
dVars == <<dRow, dClaim, dRead, dSource, dNamed, dArticles, dMishaps>>

\* the visual tasks of a goal whose target is revised
Visual == INSTANCE VisionTasks WITH
    Events <- {goal}, MaxTarget <- 1, MaxRestarts <- 0, RefiningChoices <- {TRUE},
    phase <- vPhase, refining <- vRefining, restarts <- vRestarts, second <- vSecond,
    job <- vJob, owed <- vOwed, row <- vRow, worker <- vWorker
vVars == <<vPhase, vRefining, vRestarts, vSecond, vJob, vOwed, vRow, vWorker>>

\* a task that looks back past the buffer while segments are pruned
Retention == INSTANCE SegmentRetention WITH
    MaxTime <- 3, Buffer <- 1, SearchBefore <- 1, ClipBefore <- 1, LookBack <- 1, After <- 1, Budget <- 1,
    Ttl <- 2, MaxRestarts <- 0,
    now <- rNow, files <- rFiles, rows <- rRows, gen <- rGen, manifest <- rManifest,
    born <- rBorn, ingest <- rIngest, lease <- rLease, task <- rTask, thread <- rThread,
    pass <- rPass, worker <- rWorker, over <- rOver, restarts <- rRestarts
rVars == <<rNow, rFiles, rRows, rGen, rManifest, rBorn, rIngest, rLease, rTask, rThread,
           rPass, rWorker, rOver, rRestarts>>

MCVars == <<focus, sVars, dVars, vVars, rVars>>
MCInit ==
    /\ focus \in {"slots", "delivery", "visual", "retention"}
    /\ Slots!Init /\ Delivery!Init /\ Visual!Init /\ Retention!Init
MCNext ==
    \/ focus = "slots" /\ Slots!Next /\ UNCHANGED <<focus, dVars, vVars, rVars>>
    \/ focus = "delivery" /\ Delivery!Next /\ UNCHANGED <<focus, sVars, vVars, rVars>>
    \/ focus = "visual" /\ Visual!Next /\ UNCHANGED <<focus, sVars, dVars, rVars>>
    \/ focus = "retention" /\ Retention!Next /\ UNCHANGED <<focus, sVars, dVars, vVars>>

(* The fairness of each module (its Fairness), for the behaviours that follow it. *)
SlotsFair ==
    /\ \A t \in Gifs :
         /\ WF_sVars(focus = "slots" /\ Slots!Poll(t))
         /\ WF_sVars(focus = "slots" /\ Slots!Renew(t))
         /\ WF_sVars(focus = "slots" /\ Slots!Release(t))
    /\ \A c \in {"A", "B"} : WF_sVars(focus = "slots" /\ Slots!Snapshot(c))
    /\ WF_sVars(focus = "slots" /\ Slots!Tick)
DeliveryFair ==
    /\ WF_dVars(focus = "delivery" /\ Delivery!WorkerStep(dashboard))
    /\ SF_dVars(focus = "delivery" /\ Delivery!CallSucceeds(dashboard))
    /\ WF_dVars(focus = "delivery" /\ Delivery!LeaseLapses(goal))
    /\ WF_dVars(focus = "delivery" /\ Delivery!AttemptDue(goal))
    /\ WF_dVars(focus = "delivery" /\ Delivery!DeadlinePasses(goal))
VisualFair ==
    /\ WF_vVars(focus = "visual" /\ Visual!RefreshJob(goal))
    /\ WF_vVars(focus = "visual" /\ Visual!ResetOcr(goal))
    /\ WF_vVars(focus = "visual" /\ Visual!ResetTdeed(goal))
    /\ \A a \in Visual!Artifacts :
         /\ WF_vVars(focus = "visual" /\ Visual!Submit(goal, a))
         /\ WF_vVars(focus = "visual" /\ Visual!Collect(goal, a))
         /\ WF_vVars(focus = "visual" /\ Visual!Fence(goal, a))
         /\ WF_vVars(focus = "visual" /\ Visual!ThreadStep(goal, a))
         /\ WF_vVars(focus = "visual" /\ Visual!ComesDue(goal, a))
         /\ WF_vVars(focus = "visual" /\ Visual!BudgetSpent(goal, a))
    /\ WF_vVars(focus = "visual" /\ Visual!Fenced)
    /\ WF_vVars(focus = "visual" /\ vPhase = "stopping" /\ Visual!Down)
    /\ WF_vVars(focus = "visual" /\ Visual!Restart)
RetentionFair ==
    /\ WF_rVars(focus = "retention" /\ Retention!Tick)
    /\ WF_rVars(focus = "retention" /\ Retention!ThreadNext)
    /\ WF_rVars(focus = "retention" /\ Retention!PassNext)
    /\ SF_rVars(focus = "retention" /\ Retention!EndNext)
LiveSpec ==
    /\ MCInit /\ [][MCNext]_MCVars
    /\ SlotsFair /\ DeliveryFair /\ VisualFair /\ RetentionFair
------------------------------------------------------------------------------
(* A module that a behaviour does not follow stays at rest, as its property *)
(* allows.                                                                  *)

\* A GIF that waits for a slot is served, and what an owner that died left in the
\* queue goes away (acquire, _purge_stale).  The two owners are alike, so that the GIF
\* of one stands for both.
SlotsMove == Slots!Served("gifA") /\ Slots!Reclaimed("gifA")

\* A task that waits for the player's name is served at its deadline at the latest,
\* and no row of the delivery stays claimed, whatever failed (_return_to_person_wait,
\* the leases of _claim_next).
DeliveryMoves == Delivery!WaiterServed /\ Delivery!InFlightLeaves

\* Every visual artifact is encoded or failed in the end, whatever the media does and
\* however its target is revised (the budgets and handlers of process_vision_task).
EverySettles == Visual!EverySettles

\* The video of a match that ended is deleted in the end, by the Worker or, when a
\* lease or a kill kept it from that, by the Dashboard (cleanup_finished_match).
MediaReclaimed == Retention!MediaReclaimed
=============================================================================
