-------------------------- MODULE MatchWorkerProofs --------------------------
(***************************************************************************)
(* Proofs about MatchWorker, for any events of a match, any size of the    *)
(* thread pool, all settings and any number of crashes.                    *)
(***************************************************************************)
EXTENDS MatchWorker, FiniteSetTheorems, TLAPS

\* The records that are written in many steps keep their type.
LEMMA RowSteps ==
  ASSUME NEW row \in TaskRow
  PROVE  /\ \A s \in {"none"} \cup Incomplete \cup Final :
              [row EXCEPT !.status = s] \in TaskRow
         /\ [row EXCEPT !.wait = FALSE] \in TaskRow
         /\ [row EXCEPT !.wait = TRUE] \in TaskRow
         /\ [row EXCEPT !.late = TRUE, !.wait = FALSE] \in TaskRow
  BY DEF TaskRow

\* What the steps write into main keeps its type.
LEMMA MainSteps ==
  ASSUME NEW m \in MainState
  PROVE  /\ \A pc \in PCs : [m EXCEPT !.pc = pc] \in MainState
         /\ \A e \in Events : [m EXCEPT !.todo = @ \ {e}] \in MainState
         /\ \A e \in Events, pc \in PCs :
              [m EXCEPT !.pc = pc, !.order = @ \cup {e}] \in MainState
         /\ Stopped \in MainState
<1>1. \A e \in Events : m.order \cup {e} \in SUBSET Events
  BY DEF MainState
<1>. QED
  BY <1>1 DEF MainState, Stopped, PCs, LoopPCs

\* What the steps write into stop keeps its type.
LEMMA StopSteps ==
  ASSUME NEW s \in StopState
  PROVE  /\ \A r \in Reasons : [s EXCEPT !.reason = r] \in StopState
         /\ NoStop \in StopState
  BY DEF StopState, NoStop, Reasons

\* A call that returns keeps the type of at.
LEMMA ReturnType ==
  ASSUME at \in [Runners -> [Events -> Places]],
         NEW r \in Runners, NEW e \in Events, NEW how \in Places, Return(r, e, how)
  PROVE  at' \in [Runners -> [Events -> Places]]
<1>1. [at[r] EXCEPT ![e] = how] \in [Events -> Places]
  OBVIOUS
<1>. QED
  BY <1>1 DEF Return

\* The initial values are well typed.
LEMMA Constants ==
  /\ AllIdle \in [Runners -> [Events -> Places]]
  /\ NoRow \in TaskRow
  /\ \A how \in {"idle", "check"} \cup Busy \cup Returned : how \in Places
  BY DEF AllIdle, Places, NoRow, TaskRow, Incomplete, Final

\* Control that moves along, and a loop that is left.
LEMMA GotoType ==
  ASSUME main \in MainState, NEW pc \in PCs, Goto(pc)
  PROVE  main' \in MainState
  BY MainSteps DEF Goto

\* Leaving the loop keeps main and stop well typed.
LEMMA LeaveType ==
  ASSUME main \in MainState, NEW r \in Reasons, NEW s \in StopState, Leave(r, s)
  PROVE  main' \in MainState /\ stop' \in StopState
<1>1. "fence" \in PCs
  BY DEF PCs
<1>. QED
  BY <1>1, GotoType, StopSteps DEF Leave

\* What a call of encode_event_job writes.
LEMMA GiveUpType ==
  ASSUME StateOK, NEW r \in Runners, NEW e \in Events, GiveUp(r, e)
  PROVE  /\ task' \in [Events -> TaskRow]
         /\ mem' \in [Events -> {"none"} \cup Incomplete \cup Final]
         /\ at' \in [Runners -> [Events -> Places]]
<1>1. [task[e] EXCEPT !.status = "failed"] \in TaskRow
  BY RowSteps DEF StateOK, Final
<1>2. task' \in [Events -> TaskRow]
  BY <1>1 DEF StateOK, GiveUp
<1>3. mem' \in [Events -> {"none"} \cup Incomplete \cup Final]
  BY DEF StateOK, GiveUp, Final
<1>4. "true" \in Places /\ "raised" \in Places
  BY DEF Places, Returned
<1>5. at' \in [Runners -> [Events -> Places]]
  BY <1>4, ReturnType DEF StateOK, GiveUp
<1>. QED
  BY <1>2, <1>3, <1>5

\* A step of encode_event_job keeps every variable well typed.
LEMMA EncodeStepType ==
  ASSUME StateOK, NEW r \in Runners, NEW e \in Events, EncodeStep(r, e)
  PROVE  StateOK'
<1>1. SUFFICES /\ task' \in [Events -> TaskRow]
               /\ mem' \in [Events -> {"none"} \cup Incomplete \cup Final]
               /\ at' \in [Runners -> [Events -> Places]]
               /\ UNCHANGED ForEncode /\ UNCHANGED <<feed, history, video>>
               /\ mishaps' \in 0..MaxMishaps
  BY DEF StateOK, ForEncode
<1>2. UNCHANGED ForEncode /\ UNCHANGED <<feed, history, video>>
  BY DEF EncodeStep, TooEarly, CoverageFails, CoverageWaits, CoverageReady, StartsClosed,
         ObtainSlot, SlotRefused, StartEncode, EncodeFails, EncodeDone, ReleaseFails,
         RecordEncoded, ForEncode, world
<1>3. mishaps' \in 0..MaxMishaps
  BY WorkerAssumption
     DEF EncodeStep, TooEarly, CoverageFails, CoverageWaits, CoverageReady, StartsClosed,
         ObtainSlot, SlotRefused, StartEncode, EncodeFails, EncodeDone, ReleaseFails,
         RecordEncoded, GoesWrong, StateOK
<1>4. {"false", "true", "raised", "slot", "held", "encode", "record"} \subseteq Places
  BY DEF Places, Busy, Returned
<1>5. {"pending", "encoding", "encoded", "failed"} \subseteq Incomplete \cup Final
  BY DEF Incomplete, Final
<1>6. /\ \A s \in {"pending", "encoding", "encoded", "failed"} :
           [task EXCEPT ![e].status = s] \in [Events -> TaskRow]
      /\ [task EXCEPT ![e].wait = TRUE] \in [Events -> TaskRow]
  BY <1>5, RowSteps DEF StateOK
<1>7. \A s \in {"pending", "encoding", "encoded", "failed"} :
         [mem EXCEPT ![e] = s] \in [Events -> {"none"} \cup Incomplete \cup Final]
  BY <1>5 DEF StateOK
<1>8. task \in [Events -> TaskRow] /\ at \in [Runners -> [Events -> Places]]
      /\ mem \in [Events -> {"none"} \cup Incomplete \cup Final]
  BY DEF StateOK
<1>9. CASE TooEarly(r, e)
  BY <1>2, <1>3, <1>4, <1>7, <1>8, <1>9, ReturnType DEF TooEarly
<1>10. CASE CoverageFails(r, e)
  BY <1>2, <1>3, <1>10, GiveUpType DEF CoverageFails
<1>11. CASE CoverageWaits(r, e)
  BY <1>2, <1>3, <1>4, <1>6, <1>7, <1>8, <1>11, ReturnType DEF CoverageWaits
<1>12. CASE CoverageReady(r, e)
  BY <1>2, <1>3, <1>4, <1>8, <1>12, ReturnType DEF CoverageReady
<1>13. CASE StartsClosed(r, e)
  BY <1>2, <1>3, <1>4, <1>8, <1>13, ReturnType DEF StartsClosed
<1>14. CASE ObtainSlot(r, e)
  BY <1>2, <1>3, <1>4, <1>8, <1>14, ReturnType DEF ObtainSlot
<1>15. CASE SlotRefused(r, e)
  BY <1>2, <1>3, <1>4, <1>7, <1>8, <1>15, ReturnType DEF SlotRefused
<1>16. CASE StartEncode(r, e)
  BY <1>2, <1>3, <1>4, <1>6, <1>7, <1>8, <1>16, ReturnType, GiveUpType DEF StartEncode
<1>17. CASE EncodeFails(r, e)
  BY <1>2, <1>3, <1>17, GiveUpType DEF EncodeFails
<1>18. CASE EncodeDone(r, e)
  BY <1>2, <1>3, <1>4, <1>8, <1>18, ReturnType DEF EncodeDone
<1>19. CASE ReleaseFails(r, e)
  BY <1>2, <1>3, <1>4, <1>7, <1>8, <1>19, ReturnType DEF ReleaseFails
<1>20. CASE RecordEncoded(r, e)
  BY <1>2, <1>3, <1>4, <1>6, <1>7, <1>8, <1>20, ReturnType, GiveUpType DEF RecordEncoded
<1>. QED
  BY <1>9, <1>10, <1>11, <1>12, <1>13, <1>14, <1>15, <1>16, <1>17, <1>18, <1>19, <1>20
     DEF EncodeStep

\* A process that ends, and one that starts, keep what is durable.
LEMMA VanishType ==
  ASSUME StateOK, Vanish, mishaps' \in 0..MaxMishaps
  PROVE  StateOK'
<1>1. Stopped \in MainState /\ NoStop \in StopState
  BY MainSteps, StopSteps DEF StateOK
<1>. QED
  BY <1>1, Constants DEF StateOK, Vanish, durable, world

\* The environment's steps.
LEMMA EnvironmentType ==
  ASSUME StateOK, Environment
  PROVE  StateOK'
<1>1. "drain" \in PCs /\ "gather" \in PCs /\ "manual_stop" \in Reasons
  BY DEF PCs, Reasons
<1>2. ASSUME GoesWrong("crash") \/ GoesWrong("stall") \/ GoesWrong("interrupt")
      PROVE  mishaps' \in 0..MaxMishaps
  BY <1>2, WorkerAssumption DEF GoesWrong, StateOK
<1>3. ASSUME NEW e \in Events, FeedAdds(e) PROVE StateOK'
  BY <1>3 DEF StateOK, FeedAdds, durable, memory
<1>4. ASSUME NEW e \in Events, VideoArrives(e) PROVE StateOK'
  BY <1>4 DEF StateOK, VideoArrives, durable, memory
<1>5. ASSUME NEW e \in Events, RetryDue(e) PROVE StateOK'
  <2>1. [task EXCEPT ![e].wait = FALSE] \in [Events -> TaskRow]
    BY RowSteps DEF StateOK
  <2>. QED
    BY <1>5, <2>1 DEF StateOK, RetryDue, world, memory
<1>6. ASSUME NEW e \in Events, DeadlinePasses(e) PROVE StateOK'
  <2>1. [task EXCEPT ![e].late = TRUE, ![e].wait = FALSE] \in [Events -> TaskRow]
    <3>1. [task[e] EXCEPT !.late = TRUE, !.wait = FALSE] \in TaskRow
      BY RowSteps DEF StateOK
    <3>2. [task EXCEPT ![e].late = TRUE, ![e].wait = FALSE]
            = [task EXCEPT ![e] = [task[e] EXCEPT !.late = TRUE, !.wait = FALSE]]
      BY DEF StateOK, TaskRow
    <3>. QED
      BY <3>1, <3>2 DEF StateOK
  <2>. QED
    BY <1>6, <2>1 DEF StateOK, DeadlinePasses, world, memory
<1>7. ASSUME NEW e \in Events, VisualSettles(e) PROVE StateOK'
  BY <1>7 DEF StateOK, VisualSettles, world, memory
<1>8. CASE IngestDies
  BY <1>8 DEF StateOK, IngestDies, durable, world
<1>9. CASE RequestStop
  <2>1. [stop EXCEPT !.asked = TRUE] \in StopState
    BY DEF StateOK, StopState
  <2>. QED
    BY <1>9, <2>1 DEF StateOK, RequestStop, durable, world
<1>10. CASE StopClock
  <2>1. [stop EXCEPT !.elapsed = @ + 1] \in StopState
    BY <1>10 DEF StateOK, StopState, StopClock
  <2>. QED
    BY <1>10, <2>1 DEF StateOK, StopClock, durable, world
<1>11. CASE CancelTimesOut
  <2>1. main' \in MainState
    BY <1>1, <1>11, GotoType DEF CancelTimesOut, StateOK
  <2>. QED
    BY <1>2, <1>11, <2>1 DEF StateOK, CancelTimesOut, ForShutdown
<1>12. CASE Crash
  BY <1>2, <1>12, VanishType DEF Crash
<1>13. CASE Interrupt
  <2>1. main' \in MainState /\ stop' \in StopState
    BY <1>1, <1>13, LeaveType DEF Interrupt, StateOK
  <2>. QED
    BY <1>2, <1>13, <2>1 DEF StateOK, Interrupt, durable, world
<1>. QED
  BY <1>3, <1>4, <1>5, <1>6, <1>7, <1>8, <1>9, <1>10, <1>11, <1>12, <1>13 DEF Environment

\* The main thread before and in its loop.
LEMMA LoopType ==
  ASSUME StateOK,
         \/ Start \/ (\E e \in Events : TakeJob(e) \/ JobReturns(e)) \/ ResumeDone
         \/ NoticeStop \/ ObserveExit \/ GraceTimeout \/ Reconnect
  PROVE  StateOK'
<1>1. /\ LoopPCs \cup {"resume"} \subseteq PCs
      /\ Graceful \cup {"ingest_completed", "ingest_error"} \subseteq Reasons
      /\ {"idle", "check"} \subseteq Places
  BY DEF PCs, Reasons, Places
<1>2. CASE Start
  <2> DEFINE left == {e \in Events : task[e].status \in Incomplete}
  <2>1. \A e \in Events : [task[e] EXCEPT !.status = IF settings.gif THEN "pending" ELSE "failed"]
                            \in TaskRow
    BY RowSteps DEF StateOK, Incomplete, Final
  <2>2. task' \in [Events -> TaskRow]
    BY <1>2, <2>1 DEF Start, StateOK
  <2>3. jobs' \subseteq Events
    BY <1>2 DEF Start
  <2>4. mem' \in [Events -> {"none"} \cup Incomplete \cup Final]
    BY <1>2 DEF Start, Incomplete
  <2>5. main' \in MainState
    BY <1>1, <1>2, <2>3 DEF Start, MainState, StateOK
  <2>6. at' \in [Runners -> [Events -> Places]] /\ stop' \in StopState
    BY <1>2, Constants, StopSteps DEF Start, StateOK
  <2>. QED
    BY <1>2, <2>2, <2>3, <2>4, <2>5, <2>6 DEF Start, StateOK, world
<1>3. ASSUME NEW e \in Events, TakeJob(e) PROVE StateOK'
  <2>1. "main" \in Runners
    BY DEF Runners
  <2>2. main' \in MainState /\ at' \in [Runners -> [Events -> Places]]
    BY <1>1, <1>3, <2>1, MainSteps, ReturnType DEF TakeJob, StateOK
  <2>. QED
    BY <1>3, <2>2 DEF TakeJob, StateOK, durable, world
<1>4. ASSUME NEW e \in Events, JobReturns(e) PROVE StateOK'
  <2>1. "main" \in Runners
    BY DEF Runners
  <2>2. main' \in MainState /\ at' \in [Runners -> [Events -> Places]]
    BY <1>1, <1>4, <2>1, MainSteps, ReturnType DEF JobReturns, StateOK
  <2>. QED
    BY <1>4, <2>2 DEF JobReturns, StateOK, durable, world
<1>5. CASE ResumeDone
  <2>1. main' \in MainState
    BY <1>1, <1>5, GotoType DEF ResumeDone, StateOK, LoopPCs
  <2>. QED
    BY <1>5, <2>1 DEF ResumeDone, StateOK, durable, world, Kept
<1>6. CASE NoticeStop
  <2>1. [stop EXCEPT !.begun = TRUE] \in StopState
    BY DEF StateOK, StopState
  <2>. QED
    BY <1>6, <2>1 DEF NoticeStop, StateOK, ForTop, durable, world
<1>7. CASE ObserveExit
  <2>1. main' \in MainState /\ stop' \in StopState
    BY <1>1, <1>7, LeaveType DEF ObserveExit, StateOK, Graceful
  <2>. QED
    BY <1>7, <2>1 DEF ObserveExit, StateOK, ForTop, durable, world
<1>8. CASE GraceTimeout
  <2> DEFINE timed == [stop EXCEPT !.timedOut = TRUE, !.ingestStopped = TRUE]
  <2>1. timed \in StopState
    BY DEF StateOK, StopState
  <2>2. main' \in MainState /\ stop' \in StopState
    <3>1. CASE ingest = "none"
      <4>1. Leave("match_played_stream_incomplete", timed)
        BY <1>8, <3>1 DEF GraceTimeout
      <4>. QED
        BY <1>1, <2>1, <4>1, LeaveType DEF StateOK, Graceful
    <3>2. CASE ingest # "none"
      BY <1>8, <2>1, <3>2 DEF GraceTimeout, StateOK
    <3>. QED
      BY <3>1, <3>2
  <2>. QED
    BY <1>8, <2>2 DEF GraceTimeout, StateOK, ForTop, durable, world
<1>9. CASE Reconnect
  BY <1>9 DEF Reconnect, StateOK, ForTop, durable, world
<1>. QED
  BY <1>2, <1>3, <1>4, <1>5, <1>6, <1>7, <1>8, <1>9

\* One pass of the loop: the poll, the new events, and the threads' results.
LEMMA CollectType ==
  ASSUME StateOK, CollectDone
  PROVE  /\ task' \in [Events -> TaskRow]
         /\ mem' \in [Events -> {"none"} \cup Incomplete \cup Final]
         /\ at' \in [Runners -> [Events -> Places]]
<1>1. task' \in [Events -> TaskRow]
  <2>1. \A e \in Events : [task[e] EXCEPT !.status = "failed"] \in TaskRow
    BY RowSteps DEF StateOK, Final
  <2>. QED
    BY <2>1 DEF CollectDone, StateOK
<1>2. \A e \in Events : task'[e].status \in {"none"} \cup Incomplete \cup Final
  BY <1>1 DEF TaskRow
<1>3. mem' \in [Events -> {"none"} \cup Incomplete \cup Final]
  BY <1>2 DEF CollectDone, StateOK
<1>4. at' \in [Runners -> [Events -> Places]]
  BY DEF CollectDone, StateOK, Runners, Places
<1>. QED
  BY <1>1, <1>3, <1>4

\* A step of a pass of the loop keeps every variable well typed.
LEMMA PassType ==
  ASSUME StateOK,
         \/ PollNothing \/ Poll \/ (\E e \in Events : Discover(e)) \/ Accept
         \/ MarkDefaultGifDisabled \/ EnqueueVisual \/ RememberSnapshot \/ Submit
         \/ Collect \/ Tidy,
         main.pc \in {"accept", "disable", "visual"} => main.hand \in Events
  PROVE  StateOK'
<1>1. LoopPCs \cup {"resume"} \subseteq PCs /\ "match_played" \in Reasons
  BY DEF PCs, Reasons, Graceful
<1>2. \A s \in {"pending", "failed"}, e \in Events :
         [task EXCEPT ![e].status = s] \in [Events -> TaskRow]
  BY RowSteps DEF StateOK, Incomplete, Final
<1>3. CASE PollNothing
  <2>1. main' \in MainState
    BY <1>1, <1>3, GotoType DEF PollNothing, StateOK, LoopPCs
  <2>. QED
    BY <1>3, <2>1 DEF PollNothing, StateOK, ForTop, durable, world
<1>4. CASE Poll
  <2>1. main' \in MainState
    BY <1>1, <1>4 DEF Poll, StateOK, MainState, LoopPCs
  <2>. QED
    BY <1>4, <2>1 DEF Poll, StateOK, durable
<1>5. ASSUME NEW e \in Events, Discover(e) PROVE StateOK'
  <2>1. [NoRow EXCEPT !.status = "discovered"] \in TaskRow
    BY Constants, RowSteps DEF Incomplete
  <2>2. task' \in [Events -> TaskRow]
    BY <1>5, <2>1 DEF Discover, StateOK
  <2>3. main' \in MainState
    <3>1. "accept" \in PCs /\ [main EXCEPT !.pc = "accept", !.hand = e] \in MainState
      BY DEF StateOK, MainState, PCs, LoopPCs
    <3>2. [main EXCEPT !.todo = @ \ {e}] \in MainState
      BY MainSteps DEF StateOK
    <3>. QED
      BY <1>5, <3>1, <3>2 DEF Discover
  <2>. QED
    BY <1>5, <2>2, <2>3 DEF Discover, StateOK, ForIntake, world
<1>6. CASE Accept
  <2>1. main.hand \in Events
    BY <1>6 DEF Accept
  <2>2. task' \in [Events -> TaskRow]
    BY <1>2, <1>6, <2>1 DEF Accept
  <2>3. main' \in MainState
    <3>1. "visual" \in PCs /\ "disable" \in PCs
      BY DEF PCs, LoopPCs
    <3>2. /\ [main EXCEPT !.pc = "visual", !.order = @ \cup {main.hand}] \in MainState
          /\ [main EXCEPT !.pc = "disable"] \in MainState
      BY <2>1, <3>1, MainSteps DEF StateOK
    <3>. QED
      BY <1>6, <3>2 DEF Accept, Goto
  <2>4. jobs' \subseteq Events /\ mem' \in [Events -> {"none"} \cup Incomplete \cup Final]
    BY <1>6, <2>1 DEF Accept, StateOK, Incomplete
  <2>. QED
    BY <1>6, <2>2, <2>3, <2>4 DEF Accept, StateOK, ForIntake, world
<1>7. CASE MarkDefaultGifDisabled
  <2>1. main.hand \in Events
    BY <1>7 DEF MarkDefaultGifDisabled
  <2>2. task' \in [Events -> TaskRow]
    BY <1>2, <1>7, <2>1 DEF MarkDefaultGifDisabled
  <2>3. main' \in MainState
    BY <1>1, <1>7, <2>1, MainSteps DEF MarkDefaultGifDisabled, StateOK, LoopPCs
  <2>. QED
    BY <1>7, <2>2, <2>3 DEF MarkDefaultGifDisabled, StateOK, ForIntake, world
<1>8. CASE EnqueueVisual
  <2>1. main' \in MainState
    BY <1>1, <1>8 DEF EnqueueVisual, StateOK, MainState, LoopPCs
  <2>2. visual' \in [Events -> {"none", "open", "settled"}]
    BY <1>8 DEF EnqueueVisual, StateOK
  <2>. QED
    BY <1>8, <2>1, <2>2 DEF EnqueueVisual, StateOK, ForIntake, world
<1>9. CASE RememberSnapshot
  <2>1. main' \in MainState
    BY <1>1, <1>9, GotoType DEF RememberSnapshot, StateOK, LoopPCs
  <2>2. cursor' \in [init : BOOLEAN, keys : SUBSET Events]
    BY <1>9 DEF RememberSnapshot, StateOK, MainState
  <2>. QED
    BY <1>9, <2>1, <2>2 DEF RememberSnapshot, StateOK, world
<1>10. CASE Submit
  <2>1. main' \in MainState
    BY <1>1, <1>10, GotoType DEF Submit, StateOK, LoopPCs
  <2>2. at' \in [Runners -> [Events -> Places]]
    BY <1>10 DEF Submit, StateOK, Places, Runners
  <2>. QED
    BY <1>10, <2>1, <2>2 DEF Submit, StateOK, durable, world
<1>11. CASE Collect
  <2>1. main' \in MainState
    BY <1>1, <1>11, GotoType DEF Collect, StateOK, LoopPCs
  <2>. QED
    BY <1>11, <2>1, CollectType DEF Collect, StateOK, world
<1>12. CASE Tidy
  <2> DEFINE kept == Kept(task, at)
             ended == [stop EXCEPT !.ingestStopped = TRUE]
  <2>1. ended \in StopState /\ jobs' \subseteq Events
    BY <1>12 DEF Tidy, StateOK, StopState, Kept
  <2>2. /\ main' \in MainState /\ stop' \in StopState
        /\ video' \in [Events -> {"missing", "partial", "full", "gone"}]
    <3>1. CASE stop.begun /\ DrainReady(kept)
      <4>1. video' = video
        BY <1>12, <3>1 DEF Tidy
      <4>2. CASE ingest = "none"
        <5>1. Leave("match_played", ended)
          BY <1>12, <3>1, <4>2 DEF Tidy
        <5>. QED
          BY <1>1, <2>1, <4>1, <5>1, LeaveType DEF StateOK
      <4>3. CASE ingest # "none"
        <5>1. stop' = ended /\ Goto("top")
          BY <1>12, <3>1, <4>3 DEF Tidy
        <5>. QED
          BY <1>1, <2>1, <4>1, <5>1, GotoType DEF StateOK, LoopPCs
      <4>. QED
        BY <4>2, <4>3
    <3>2. CASE ~(stop.begun /\ DrainReady(kept))
      <4>1. /\ Goto("top") /\ UNCHANGED stop
            /\ \E pruned \in {{}, Prunable(kept)} :
                  video' = [e \in Events |-> IF e \in pruned THEN "gone" ELSE video[e]]
        BY <1>12, <3>2 DEF Tidy
      <4>2. video' \in [Events -> {"missing", "partial", "full", "gone"}]
        BY <4>1 DEF StateOK
      <4>. QED
        BY <1>1, <4>1, <4>2, GotoType DEF StateOK, LoopPCs
    <3>. QED
      BY <3>1, <3>2
  <2>. QED
    BY <1>12, <2>1, <2>2 DEF Tidy, StateOK, durable
<1>. QED
  BY <1>3, <1>4, <1>5, <1>6, <1>7, <1>8, <1>9, <1>10, <1>11, <1>12

\* The shutdown.
LEMMA ShutdownType ==
  ASSUME StateOK,
         \/ Fence \/ Drained \/ DrainTimesOut \/ Gather \/ Report \/ Close \/ Exit
         \/ MainRaises
  PROVE  StateOK'
<1>1. {"drain", "cancelled", "gather", "final", "closing", "closed"} \subseteq PCs
  BY DEF PCs
<1>2. CASE Fence
  <2>1. main' \in MainState
    BY <1>1, <1>2, GotoType DEF Fence, StateOK
  <2>2. visual' \in [Events -> {"none", "open", "settled"}]
    BY <1>2 DEF Fence, StateOK
  <2>. QED
    BY <1>2, <2>1, <2>2 DEF Fence, StateOK, ForShutdown
<1>3. CASE Drained
  <2>1. main' \in MainState
    BY <1>1, <1>3, GotoType DEF Drained, StateOK
  <2>. QED
    BY <1>3, <2>1 DEF Drained, StateOK, ForShutdown
<1>4. CASE DrainTimesOut
  <2>1. main' \in MainState
    BY <1>1, <1>4, GotoType DEF DrainTimesOut, StateOK
  <2>2. stop' \in StopState
    BY <1>4 DEF DrainTimesOut, StateOK, StopState
  <2>. QED
    BY <1>4, <2>1, <2>2 DEF DrainTimesOut, StateOK, ForShutdown
<1>5. CASE Gather
  <2>1. jobs' \subseteq Events
    BY <1>5 DEF Gather, StateOK
  <2>2. main' \in MainState
    <3>1. PICK passed \in SUBSET Events :
             main' = [main EXCEPT !.pc = "final", !.todo = jobs' \cap passed]
      BY <1>5 DEF Gather
    <3>2. jobs' \cap passed \in SUBSET Events
      BY <2>1
    <3>. QED
      BY <1>1, <3>1, <3>2 DEF StateOK, MainState
  <2>. QED
    BY <1>5, <2>1, <2>2, CollectType DEF Gather, StateOK, ForShutdown
<1>6. CASE Report
  <2>1. main' \in MainState
    BY <1>1, <1>6, GotoType DEF Report, StateOK
  <2>2. mem' \in [Events -> {"none"} \cup Incomplete \cup Final]
    BY <1>6 DEF Report, StateOK, Final
  <2>3. task' \in [Events -> TaskRow]
    <3>1. \A e \in Events : [task[e] EXCEPT !.status = "failed"] \in TaskRow
      BY RowSteps DEF StateOK, Final
    <3>. QED
      BY <1>6, <3>1 DEF Report, StateOK
  <2>4. stop' \in StopState
    <3>1. \E c \in {"none", "completed", "completed_with_warnings"} :
             stop' = [stop EXCEPT !.completion = c]
      BY <1>6 DEF Report
    <3>. QED
      BY <3>1 DEF StateOK, StopState
  <2>5. visual' \in [Events -> {"none", "open", "settled"}]
    BY <1>6 DEF Report, StateOK
  <2>. QED
    BY <1>6, <2>1, <2>2, <2>3, <2>4, <2>5 DEF Report, StateOK, ForShutdown
<1>7. CASE Close
  <2>1. main' \in MainState
    BY <1>1, <1>7, GotoType DEF Close, StateOK
  <2>2. stop' \in StopState /\ over' \in BOOLEAN
    <3>1. [stop EXCEPT !.storeOpen = FALSE] \in StopState
      BY DEF StateOK, StopState
    <3>2. over' \in BOOLEAN
      <4> DEFINE ends == stop.reason \in Graceful \cup {"ingest_completed"}
      <4>1. over' = ends
        BY <1>7 DEF Close
      <4>2. ends \in BOOLEAN
        OBVIOUS
      <4> HIDE DEF ends
      <4>. QED
        BY <4>1, <4>2
    <3>. QED
      BY <1>7, <3>1, <3>2 DEF Close
  <2>3. video' \in [Events -> {"missing", "partial", "full", "gone"}]
    BY <1>7 DEF Close, StateOK
  <2>. QED
    BY <1>7, <2>1, <2>2, <2>3 DEF Close, StateOK, durable
<1>8. CASE Exit
  BY <1>8, VanishType DEF Exit, StateOK
<1>9. CASE MainRaises
  BY <1>9, VanishType DEF MainRaises, StateOK
<1>. QED
  BY <1>2, <1>3, <1>4, <1>5, <1>6, <1>7, <1>8, <1>9

-------------------------------------------------------------------------------
(***************************************************************************)
(* The inductive invariant behind the crash safety of the feed and the     *)
(* pruning of the buffer.                                                  *)
(***************************************************************************)

Handling == {"intake", "accept", "disable", "visual"}
Running == LoopPCs \cup {"resume"}

\* The event in hand has its row already.
HandHasRow ==
  main.pc \in Handling \ {"intake"} => main.hand \in Events /\ task[main.hand].status # "none"

\* What the event source remembers is history, has a row, or is in line for
\* one in this pass.
SeenAccounted ==
  main.pc \in Running =>
    \A e \in main.seen :
       \/ e \in history \/ task[e].status # "none"
       \/ main.pc \in Handling /\ e \in main.todo

\* While the process runs, each incomplete task but the one in hand has its
\* job in memory, with a status that the loop and the pruning look for.
WorkTracked ==
  main.pc \in Running =>
    /\ stop.storeOpen
    /\ \A e \in Events :
          task[e].status \in Incomplete =>
             \/ main.pc \in {"accept", "disable"} /\ e = main.hand
             \/ /\ e \in jobs /\ mem[e] \in {"pending", "encoding"}
                /\ task[e].status # "discovered"

WorkerInv == StateOK /\ HandHasRow /\ SeenAccounted /\ CursorHasTasks /\ WorkTracked

\* What a call of encode_event_job does to its own event and to the others.
LEMMA GiveUpEffect ==
  ASSUME StateOK, NEW r \in Runners, NEW e \in Events, GiveUp(r, e)
  PROVE  /\ \A d \in Events \ {e} : task'[d] = task[d] /\ mem'[d] = mem[d]
         /\ task[e].status # "none" => task'[e].status # "none"
         /\ task'[e].status \in Incomplete => task[e].status \in Incomplete
         /\ stop.storeOpen => task'[e].status \notin Incomplete
<1>1. task[e].status \in Incomplete => MayBecome(task[e].status, "failed")
  BY DEF MayBecome, Incomplete
<1>2. task[e] \in TaskRow
  BY DEF StateOK
<1>3. [task EXCEPT ![e].status = "failed"][e].status = "failed"
  BY <1>2 DEF StateOK, TaskRow
<1>4. \A d \in Events \ {e} : task'[d] = task[d] /\ mem'[d] = mem[d]
  BY DEF GiveUp, StateOK
<1>5. \/ UNCHANGED task /\ (stop.storeOpen => task[e].status \notin Incomplete)
      \/ task'[e].status = "failed"
  BY <1>1, <1>3 DEF GiveUp
<1>. QED
  BY <1>4, <1>5 DEF Incomplete

\* What a step of encode_event_job can do to the task of its event and to the others.
LEMMA EncodeStepEffect ==
  ASSUME StateOK, NEW r \in Runners, NEW e \in Events, EncodeStep(r, e)
  PROVE  /\ UNCHANGED <<main, cursor, history, jobs, stop, video>>
         /\ \A d \in Events \ {e} : task'[d] = task[d] /\ mem'[d] = mem[d]
         /\ task[e].status # "none" => task'[e].status # "none"
         /\ task'[e].status \in Incomplete => task[e].status \in Incomplete
         /\ stop.storeOpen /\ task[e].status # "discovered"
              /\ mem[e] \in {"pending", "encoding"} /\ task'[e].status \in Incomplete
              => task'[e].status # "discovered" /\ mem'[e] \in {"pending", "encoding"}
<1> USE DEF ForEncode, world
<1>1. task[e] \in TaskRow /\ task \in [Events -> TaskRow] /\ e \in DOMAIN mem
  BY DEF StateOK
<1>2. \A s \in {"encoding", "encoded"} :
         /\ [task EXCEPT ![e].status = s][e].status = s
         /\ \A d \in Events \ {e} : [task EXCEPT ![e].status = s][d] = task[d]
  BY <1>1 DEF TaskRow
<1>3. /\ [task EXCEPT ![e].wait = TRUE][e].status = task[e].status
      /\ \A d \in Events \ {e} : [task EXCEPT ![e].wait = TRUE][d] = task[d]
  BY <1>1 DEF TaskRow
<1>4. mem \in [Events -> {"none"} \cup Incomplete \cup Final]
  BY DEF StateOK
<1>5. CASE TooEarly(r, e)
  BY <1>4, <1>5 DEF TooEarly
<1>6. CASE CoverageFails(r, e)
  BY <1>6, GiveUpEffect DEF CoverageFails
<1>7. CASE CoverageWaits(r, e)
  BY <1>3, <1>4, <1>7 DEF CoverageWaits
<1>8. CASE CoverageReady(r, e) \/ StartsClosed(r, e) \/ ObtainSlot(r, e) \/ EncodeDone(r, e)
  BY <1>8 DEF CoverageReady, StartsClosed, ObtainSlot, EncodeDone
<1>9. CASE SlotRefused(r, e) \/ ReleaseFails(r, e)
  BY <1>4, <1>9 DEF SlotRefused, ReleaseFails
<1>10. CASE StartEncode(r, e)
  <2>1. CASE GiveUp(r, e)
    BY <1>10, <2>1, GiveUpEffect DEF StartEncode
  <2>2. CASE ~GiveUp(r, e)
    <3>1. /\ mem' = [mem EXCEPT ![e] = "encoding"]
          /\ task' = [task EXCEPT ![e].status = "encoding"]
          /\ MayBecome(task[e].status, "encoding")
          /\ UNCHANGED ForEncode
      BY <1>10, <2>2 DEF StartEncode
    <3>2. task[e].status \in Incomplete
      BY <3>1 DEF MayBecome, Incomplete
    <3>. QED
      BY <1>2, <1>4, <3>1, <3>2
  <2>. QED
    BY <2>1, <2>2
<1>11. CASE EncodeFails(r, e)
  BY <1>11, GiveUpEffect DEF EncodeFails
<1>12. CASE RecordEncoded(r, e)
  <2>1. CASE GiveUp(r, e)
    BY <1>12, <2>1, GiveUpEffect DEF RecordEncoded
  <2>2. CASE ~GiveUp(r, e)
    <3>1. /\ mem' = [mem EXCEPT ![e] = "encoded"]
          /\ task' = [task EXCEPT ![e].status = "encoded"]
          /\ UNCHANGED ForEncode
      BY <1>12, <2>2 DEF RecordEncoded
    <3>. QED
      BY <1>2, <1>4, <3>1 DEF Incomplete
  <2>. QED
    BY <2>1, <2>2
<1>. QED
  BY <1>5, <1>6, <1>7, <1>8, <1>9, <1>10, <1>11, <1>12 DEF EncodeStep

\* encode_event_job keeps the invariant.
LEMMA EncodeStepInv ==
  ASSUME WorkerInv, NEW r \in Runners, NEW e \in Events, EncodeStep(r, e)
  PROVE  WorkerInv'
<1> USE DEF WorkerInv
<1>1. StateOK'
  BY EncodeStepType
<1>2. /\ UNCHANGED <<main, cursor, history, jobs, stop, video>>
      /\ \A d \in Events : task[d].status # "none" => task'[d].status # "none"
      /\ \A d \in Events \ {e} : task'[d] = task[d] /\ mem'[d] = mem[d]
  BY EncodeStepEffect
<1>3. HandHasRow' /\ SeenAccounted' /\ CursorHasTasks'
  BY <1>2 DEF HandHasRow, SeenAccounted, CursorHasTasks, StateOK, MainState
<1>4. WorkTracked'
  BY <1>2, EncodeStepEffect DEF WorkTracked
<1>. QED
  BY <1>1, <1>3, <1>4

\* The collection of results ends a task or leaves it, and what it writes to
\* memory is what the store says.
LEMMA CollectEffect ==
  ASSUME StateOK, CollectDone
  PROVE  \A e \in Events :
            /\ task'[e] = task[e] \/ task'[e].status = "failed"
            /\ mem'[e] = mem[e] \/ mem'[e] = task'[e].status
<1>1. \A e \in Events : task'[e] = task[e] \/ task'[e] = [task[e] EXCEPT !.status = "failed"]
  BY DEF CollectDone
<1>2. \A e \in Events : [task[e] EXCEPT !.status = "failed"].status = "failed"
  BY DEF StateOK, TaskRow
<1>3. \A e \in Events : mem'[e] = mem[e] \/ mem'[e] = task'[e].status
  BY DEF CollectDone
<1>. QED
  BY <1>1, <1>2, <1>3

\* Steps outside of a running loop only have to keep the rows.
LEMMA OutsideInv ==
  ASSUME WorkerInv, StateOK', main'.pc \notin Running, UNCHANGED <<cursor, history>>,
         \A e \in Events : task[e].status # "none" => task'[e].status # "none"
  PROVE  WorkerInv'
<1>1. HandHasRow' /\ SeenAccounted' /\ WorkTracked'
  BY DEF HandHasRow, SeenAccounted, WorkTracked, Running, Handling, LoopPCs
<1>2. CursorHasTasks'
  BY DEF WorkerInv, CursorHasTasks, StateOK
<1>. QED
  BY <1>1, <1>2 DEF WorkerInv

\* The end of the process keeps the invariant: it speaks of memory only while there is one.
LEMMA VanishInv ==
  ASSUME WorkerInv, StateOK', Vanish
  PROVE  WorkerInv'
<1>1. main'.pc \notin Running
  BY DEF Vanish, Stopped, Running, LoopPCs
<1>. QED
  BY <1>1, OutsideInv DEF Vanish, durable, world

\* The world, crashes and interrupts keep the invariant.
LEMMA EnvironmentInv ==
  ASSUME WorkerInv, Environment
  PROVE  WorkerInv'
<1>1. StateOK'
  BY EnvironmentType DEF WorkerInv
<1>2. CASE Crash
  BY <1>1, <1>2, VanishInv DEF Crash
<1>3. CASE Interrupt
  <2>1. main'.pc = "fence"
    BY <1>3 DEF Interrupt, Leave, Goto, WorkerInv, StateOK, MainState
  <2>. QED
    BY <1>1, <1>3, <2>1, OutsideInv DEF Interrupt, durable, world, Running, LoopPCs
<1>4. CASE CancelTimesOut
  <2>1. main'.pc = "gather"
    BY <1>4 DEF CancelTimesOut, Goto, WorkerInv, StateOK, MainState
  <2>. QED
    BY <1>1, <1>4, <2>1, OutsideInv DEF CancelTimesOut, ForShutdown, Running, LoopPCs
<1>5. CASE \/ \E e \in Events : FeedAdds(e) \/ VideoArrives(e) \/ RetryDue(e)
                                \/ DeadlinePasses(e) \/ VisualSettles(e)
           \/ IngestDies \/ RequestStop \/ StopClock
  <2>1. /\ UNCHANGED <<main, cursor, history, jobs, mem>>
        /\ stop'.storeOpen = stop.storeOpen
    BY <1>5 DEF FeedAdds, VideoArrives, RetryDue, DeadlinePasses, VisualSettles, IngestDies,
                RequestStop, StopClock, durable, world, memory, WorkerInv, StateOK, StopState
  <2>2. \A d \in Events : task'[d].status = task[d].status
    <3>1. ASSUME NEW e \in Events, RetryDue(e) \/ DeadlinePasses(e), NEW d \in Events
          PROVE  task'[d].status = task[d].status
      <4>1. task \in [Events -> TaskRow]
        BY DEF WorkerInv, StateOK
      <4>2. CASE RetryDue(e)
        BY <4>1, <4>2 DEF RetryDue, TaskRow
      <4>3. CASE DeadlinePasses(e)
        BY <4>1, <4>3 DEF DeadlinePasses, TaskRow
      <4>. QED
        BY <3>1, <4>2, <4>3
    <3>2. ASSUME \/ \E e \in Events : FeedAdds(e) \/ VideoArrives(e) \/ VisualSettles(e)
                 \/ IngestDies \/ RequestStop \/ StopClock
          PROVE  task' = task
      BY <3>2 DEF FeedAdds, VideoArrives, VisualSettles, IngestDies, RequestStop, StopClock,
                  durable
    <3>. QED
      BY <1>5, <3>1, <3>2
  <2>3. HandHasRow' /\ SeenAccounted' /\ CursorHasTasks' /\ WorkTracked'
    BY <2>1, <2>2 DEF WorkerInv, HandHasRow, SeenAccounted, CursorHasTasks, WorkTracked,
                      StateOK, MainState
  <2>. QED
    BY <1>1, <2>3 DEF WorkerInv
<1>. QED
  BY <1>2, <1>3, <1>4, <1>5 DEF Environment

\* The shutdown keeps the invariant.
LEMMA ShutdownInv ==
  ASSUME WorkerInv,
         \/ Fence \/ Drained \/ DrainTimesOut \/ Gather \/ Report \/ Close \/ Exit
         \/ MainRaises
  PROVE  WorkerInv'
<1>1. StateOK'
  BY ShutdownType DEF WorkerInv
<1>2. CASE Exit \/ MainRaises
  BY <1>1, <1>2, VanishInv DEF Exit, MainRaises
<1>3. CASE Fence \/ Drained \/ DrainTimesOut \/ Close
  <2>1. main'.pc \in {"drain", "gather", "cancelled", "closed"}
    BY <1>3 DEF Fence, Drained, DrainTimesOut, Close, Goto, WorkerInv, StateOK, MainState
  <2>2. UNCHANGED <<task, cursor, history>>
    BY <1>3 DEF Fence, Drained, DrainTimesOut, Close, ForShutdown, durable
  <2>. QED
    BY <1>1, <2>1, <2>2, OutsideInv DEF Running, LoopPCs
<1>4. CASE Gather
  <2>1. main'.pc = "final" /\ UNCHANGED <<cursor, history>>
    BY <1>4 DEF Gather, ForShutdown, WorkerInv, StateOK, MainState
  <2>2. \A e \in Events : task[e].status # "none" => task'[e].status # "none"
    BY <1>4, CollectEffect DEF Gather, WorkerInv
  <2>. QED
    BY <1>1, <2>1, <2>2, OutsideInv DEF Running, LoopPCs
<1>5. CASE Report
  <2>1. main'.pc = "closing" /\ UNCHANGED <<cursor, history>>
    BY <1>5 DEF Report, Goto, ForShutdown, WorkerInv, StateOK, MainState
  <2>2. \A e \in Events : task[e].status # "none" => task'[e].status # "none"
    BY <1>5 DEF Report, WorkerInv, StateOK, TaskRow
  <2>. QED
    BY <1>1, <2>1, <2>2, OutsideInv DEF Running, LoopPCs
<1>. QED
  BY <1>2, <1>3, <1>4, <1>5

\* The start and the top of a pass keep the invariant.
LEMMA LoopInv ==
  ASSUME WorkerInv,
         \/ Start \/ (\E e \in Events : TakeJob(e) \/ JobReturns(e)) \/ ResumeDone
         \/ NoticeStop \/ ObserveExit \/ GraceTimeout \/ Reconnect
  PROVE  WorkerInv'
<1>1. StateOK'
  BY LoopType DEF WorkerInv
<1>2. CASE Start
  <2>1. main'.pc = "resume" /\ main'.seen = cursor.keys /\ UNCHANGED <<cursor, history>>
    BY <1>2 DEF Start, world
  <2>2. \A e \in Events : task[e].status # "none" => task'[e].status # "none"
    BY <1>2 DEF Start, WorkerInv, StateOK, TaskRow
  <2>3. HandHasRow' /\ CursorHasTasks'
    BY <2>1, <2>2 DEF HandHasRow, Handling, WorkerInv, CursorHasTasks, StateOK
  <2>4. SeenAccounted'
    BY <1>1, <2>1, <2>3 DEF SeenAccounted, CursorHasTasks, StateOK
  <2>5. stop'.storeOpen
    BY <1>2 DEF Start, NoStop
  <2>6. ASSUME NEW e \in Events, task'[e].status \in Incomplete
        PROVE  e \in jobs' /\ mem'[e] = "pending" /\ task'[e].status = "pending"
    <3>1. task[e].status \in Incomplete /\ settings.gif /\ task'[e].status = "pending"
      <4> DEFINE becomes == IF settings.gif THEN "pending" ELSE "failed"
      <4>1. task'[e] = IF task[e].status \in Incomplete
                       THEN [task[e] EXCEPT !.status = becomes] ELSE task[e]
        BY <1>2 DEF Start
      <4>2. task[e] \in TaskRow
        BY DEF WorkerInv, StateOK
      <4>3. task[e].status \in Incomplete /\ task'[e].status = becomes
        BY <2>6, <4>1, <4>2 DEF TaskRow
      <4>. QED
        BY <2>6, <4>3 DEF Incomplete
    <3>2. e \in jobs'
      BY <1>2, <3>1 DEF Start
    <3>. QED
      BY <1>2, <3>1, <3>2 DEF Start
  <2>. QED
    BY <1>1, <2>3, <2>4, <2>5, <2>6 DEF WorkerInv, WorkTracked
<1>3. ASSUME NEW e \in Events, TakeJob(e) \/ JobReturns(e) PROVE WorkerInv'
  <2>1. /\ UNCHANGED <<task, cursor, history, jobs, mem, stop>>
        /\ main'.pc = main.pc /\ main'.seen = main.seen
        /\ main.pc \notin Handling
    <3>1. main \in MainState
      BY DEF WorkerInv, StateOK
    <3>2. main' = main \/ main' = [main EXCEPT !.todo = @ \ {e}]
      BY <1>3 DEF TakeJob, JobReturns
    <3>3. UNCHANGED <<task, cursor, history, jobs, mem, stop>> /\ main.pc \notin Handling
      BY <1>3 DEF TakeJob, JobReturns, durable, world, Handling
    <3>. QED
      BY <3>1, <3>2, <3>3 DEF MainState
  <2>2. HandHasRow' /\ CursorHasTasks'
    BY <2>1 DEF WorkerInv, HandHasRow, CursorHasTasks
  <2>3. SeenAccounted'
    BY <2>1 DEF WorkerInv, SeenAccounted
  <2>4. WorkTracked'
    BY <2>1 DEF WorkerInv, WorkTracked, Handling
  <2>. QED
    BY <1>1, <2>2, <2>3, <2>4 DEF WorkerInv
<1>4. CASE ResumeDone
  <2>1. /\ main'.pc = "top" /\ main'.seen = main.seen /\ main.pc = "resume"
        /\ UNCHANGED <<task, cursor, history, mem, stop>>
        /\ jobs' = Kept(task, at)
    BY <1>4 DEF ResumeDone, Goto, durable, world, WorkerInv, StateOK, MainState
  <2>2. HandHasRow' /\ SeenAccounted' /\ CursorHasTasks'
    BY <2>1 DEF WorkerInv, HandHasRow, SeenAccounted, CursorHasTasks, Running, Handling, LoopPCs
  <2>3. WorkTracked'
    BY <2>1 DEF WorkerInv, WorkTracked, Kept, Running, LoopPCs, Incomplete, Final
  <2>. QED
    BY <1>1, <2>2, <2>3 DEF WorkerInv
<1>5. CASE NoticeStop \/ Reconnect
  <2>1. UNCHANGED <<task, cursor, history, jobs, mem, main>> /\ stop'.storeOpen = stop.storeOpen
    BY <1>5 DEF NoticeStop, Reconnect, ForTop, durable, world, WorkerInv, StateOK, StopState
  <2>. QED
    BY <1>1, <2>1 DEF WorkerInv, HandHasRow, SeenAccounted, CursorHasTasks, WorkTracked
<1>6. CASE ObserveExit \/ GraceTimeout
  <2>1. UNCHANGED <<task, cursor, history, jobs, mem>>
    BY <1>6 DEF ObserveExit, GraceTimeout, ForTop, durable, world
  <2>2. CASE main' = main
    <3>1. stop'.storeOpen = stop.storeOpen
      <4>1. CASE ObserveExit
        BY <2>2, <4>1 DEF ObserveExit, Leave, Goto, WorkerInv, StateOK, StopState
      <4>2. CASE GraceTimeout
        BY <2>2, <4>2 DEF GraceTimeout, Leave, Goto, WorkerInv, StateOK, StopState
      <4>. QED
        BY <1>6, <4>1, <4>2
    <3>. QED
      BY <1>1, <2>1, <2>2, <3>1
         DEF WorkerInv, HandHasRow, SeenAccounted, CursorHasTasks, WorkTracked
  <2>3. CASE main' # main
    <3>1. main'.pc = "fence"
      BY <1>6, <2>3 DEF ObserveExit, GraceTimeout, Leave, Goto, WorkerInv, StateOK, MainState
    <3>. QED
      BY <1>1, <2>1, <3>1, OutsideInv DEF Running, LoopPCs
  <2>. QED
    BY <2>2, <2>3
<1>. QED
  BY <1>2, <1>3, <1>4, <1>5, <1>6

\* The poll, and the events it brings.
LEMMA IntakeInv ==
  ASSUME WorkerInv,
         \/ PollNothing \/ Poll \/ (\E e \in Events : Discover(e)) \/ Accept
         \/ MarkDefaultGifDisabled \/ EnqueueVisual \/ RememberSnapshot
  PROVE  WorkerInv'
<1>1. StateOK'
  BY PassType DEF WorkerInv, HandHasRow, Handling
<1>2. main \in MainState /\ task \in [Events -> TaskRow] /\ main.seen \subseteq Events
  BY DEF WorkerInv, StateOK, MainState
<1>3. CASE PollNothing
  <2>1. /\ UNCHANGED <<task, cursor, history, jobs, mem, stop>> /\ main.pc = "top"
        /\ main'.pc = "submit" /\ main'.seen = main.seen
    BY <1>2, <1>3 DEF PollNothing, CanPoll, AtTop, Goto, ForTop, durable, world, MainState
  <2>. QED
    BY <1>1, <2>1 DEF WorkerInv, HandHasRow, SeenAccounted, CursorHasTasks, WorkTracked,
                      Running, Handling, LoopPCs
<1>4. CASE Poll
  <2>1. /\ UNCHANGED <<task, cursor, jobs, mem, stop>> /\ main.pc = "top"
        /\ main'.pc = "intake" /\ main'.seen = main.seen \cup feed
        /\ history \subseteq history'
        /\ feed \subseteq history' \/ feed \ main.seen \subseteq main'.todo
    BY <1>2, <1>4 DEF Poll, CanPoll, AtTop, durable, MainState
  <2>2. HandHasRow' /\ CursorHasTasks'
    BY <2>1 DEF WorkerInv, HandHasRow, CursorHasTasks
  <2>3. SeenAccounted'
    BY <2>1 DEF WorkerInv, SeenAccounted, Running, Handling, LoopPCs
  <2>4. WorkTracked'
    BY <2>1 DEF WorkerInv, WorkTracked, Running, LoopPCs
  <2>. QED
    BY <1>1, <2>2, <2>3, <2>4 DEF WorkerInv
<1>5. ASSUME NEW e \in Events, Discover(e) PROVE WorkerInv'
  <2>1. /\ UNCHANGED <<cursor, history, jobs, mem, stop>> /\ main.pc = "intake"
        /\ main'.seen = main.seen
    BY <1>2, <1>5 DEF Discover, ForIntake, world, MainState
  <2>2. CASE task[e].status = "none"
    <3>1. /\ task' = [task EXCEPT ![e] = [NoRow EXCEPT !.status = "discovered"]]
          /\ main' = [main EXCEPT !.pc = "accept", !.hand = e]
      BY <1>5, <2>2 DEF Discover
    <3>2. /\ task'[e].status = "discovered"
          /\ \A d \in Events \ {e} : task'[d] = task[d]
          /\ main'.pc = "accept" /\ main'.hand = e /\ main'.todo = main.todo
      BY <1>2, <3>1 DEF NoRow, MainState
    <3>3. HandHasRow' /\ CursorHasTasks'
      BY <2>1, <3>2 DEF WorkerInv, HandHasRow, CursorHasTasks, StateOK
    <3>4. SeenAccounted'
      BY <1>2, <2>1, <3>2 DEF WorkerInv, SeenAccounted, Running, Handling, LoopPCs
    <3>5. WorkTracked'
      BY <2>1, <3>2 DEF WorkerInv, WorkTracked, Running, LoopPCs
    <3>. QED
      BY <1>1, <3>3, <3>4, <3>5 DEF WorkerInv
  <2>3. CASE task[e].status # "none"
    <3>1. UNCHANGED task /\ main' = [main EXCEPT !.todo = @ \ {e}]
      BY <1>5, <2>3 DEF Discover
    <3>2. main'.pc = "intake" /\ main'.todo = main.todo \ {e}
      BY <1>2, <2>1, <3>1 DEF MainState
    <3>3. HandHasRow' /\ CursorHasTasks' /\ WorkTracked'
      BY <2>1, <3>1, <3>2 DEF WorkerInv, HandHasRow, CursorHasTasks, WorkTracked
    <3>4. SeenAccounted'
      BY <2>1, <2>3, <3>1, <3>2 DEF WorkerInv, SeenAccounted
    <3>. QED
      BY <1>1, <3>3, <3>4 DEF WorkerInv
  <2>. QED
    BY <2>2, <2>3
<1>6. CASE Accept
  <2> DEFINE e == main.hand
  <2>1. /\ UNCHANGED <<cursor, history, stop>> /\ main.pc = "accept" /\ e \in Events
        /\ main'.seen = main.seen /\ main'.todo = main.todo /\ main'.hand = e
        /\ main'.pc = IF settings.gif THEN "visual" ELSE "disable"
    BY <1>2, <1>6 DEF Accept, Goto, ForIntake, world, MainState, WorkerInv, HandHasRow, Handling
  <2>2. task'[e].status = "pending" /\ \A d \in Events \ {e} : task'[d] = task[d]
    BY <1>2, <1>6, <2>1 DEF Accept, TaskRow
  <2>3. /\ jobs \subseteq jobs' /\ \A d \in Events \ {e} : mem'[d] = mem[d]
        /\ settings.gif => e \in jobs' /\ mem'[e] = "pending"
    BY <1>6, <2>1 DEF Accept, WorkerInv, StateOK
  <2>4. HandHasRow' /\ CursorHasTasks'
    BY <2>1, <2>2 DEF WorkerInv, HandHasRow, CursorHasTasks, StateOK
  <2>5. SeenAccounted'
    BY <1>2, <2>1, <2>2 DEF WorkerInv, SeenAccounted, Running, Handling, LoopPCs
  <2>6. WorkTracked'
    BY <2>1, <2>2, <2>3 DEF WorkerInv, WorkTracked, Running, LoopPCs
  <2>. QED
    BY <1>1, <2>4, <2>5, <2>6 DEF WorkerInv
<1>7. CASE MarkDefaultGifDisabled
  <2> DEFINE e == main.hand
  <2>1. /\ UNCHANGED <<cursor, history, stop, jobs, mem>> /\ main.pc = "disable" /\ e \in Events
        /\ main'.seen = main.seen /\ main'.todo = main.todo /\ main'.hand = e
        /\ main'.pc = "visual"
    BY <1>2, <1>7 DEF MarkDefaultGifDisabled, ForIntake, world, MainState, WorkerInv,
                      HandHasRow, Handling
  <2>2. task'[e].status = "failed" /\ \A d \in Events \ {e} : task'[d] = task[d]
    BY <1>2, <1>7, <2>1 DEF MarkDefaultGifDisabled, TaskRow
  <2>3. HandHasRow' /\ CursorHasTasks'
    BY <2>1, <2>2 DEF WorkerInv, HandHasRow, CursorHasTasks, StateOK
  <2>4. SeenAccounted'
    BY <1>2, <2>1, <2>2 DEF WorkerInv, SeenAccounted, Running, Handling, LoopPCs
  <2>5. WorkTracked'
    BY <2>1, <2>2 DEF WorkerInv, WorkTracked, Running, LoopPCs, Incomplete
  <2>. QED
    BY <1>1, <2>3, <2>4, <2>5 DEF WorkerInv
<1>8. CASE EnqueueVisual
  <2>1. /\ UNCHANGED <<task, cursor, history, stop, jobs, mem>> /\ main.pc = "visual"
        /\ main'.seen = main.seen /\ main'.todo = main.todo \ {main.hand}
        /\ main'.pc = "intake" /\ task[main.hand].status # "none"
    BY <1>2, <1>8 DEF EnqueueVisual, ForIntake, world, MainState, WorkerInv, HandHasRow, Handling
  <2>2. HandHasRow' /\ CursorHasTasks' /\ WorkTracked'
    BY <2>1 DEF WorkerInv, HandHasRow, CursorHasTasks, WorkTracked, Running, Handling, LoopPCs
  <2>3. SeenAccounted'
    BY <2>1 DEF WorkerInv, SeenAccounted, Running, Handling, LoopPCs
  <2>. QED
    BY <1>1, <2>2, <2>3 DEF WorkerInv
<1>9. CASE RememberSnapshot
  <2>1. /\ UNCHANGED <<task, history, stop, jobs, mem>> /\ main.pc = "intake" /\ main.todo = {}
        /\ main'.seen = main.seen /\ main'.pc = "submit"
        /\ cursor'.keys = cursor.keys \cup main.seen
    BY <1>2, <1>9 DEF RememberSnapshot, Goto, world, MainState
  <2>2. HandHasRow' /\ SeenAccounted' /\ WorkTracked'
    BY <2>1 DEF WorkerInv, HandHasRow, SeenAccounted, WorkTracked, Running, Handling, LoopPCs
  <2>3. CursorHasTasks'
    BY <2>1 DEF WorkerInv, SeenAccounted, CursorHasTasks, Running, LoopPCs
  <2>. QED
    BY <1>1, <2>2, <2>3 DEF WorkerInv
<1>. QED
  BY <1>3, <1>4, <1>5, <1>6, <1>7, <1>8, <1>9

\* The rest of a pass: submission, collection, eviction and pruning.
LEMMA WorkInv ==
  ASSUME WorkerInv, Submit \/ Collect \/ Tidy
  PROVE  WorkerInv'
<1>1. StateOK'
  BY PassType DEF WorkerInv, HandHasRow, Handling
<1>2. main \in MainState
  BY DEF WorkerInv, StateOK
<1>3. CASE Submit
  <2>1. /\ UNCHANGED <<task, cursor, history, stop, jobs, mem>> /\ main.pc = "submit"
        /\ main'.seen = main.seen /\ main'.pc = "collect"
    BY <1>2, <1>3 DEF Submit, Goto, durable, world, MainState
  <2>. QED
    BY <1>1, <2>1 DEF WorkerInv, HandHasRow, SeenAccounted, CursorHasTasks, WorkTracked,
                      Running, Handling, LoopPCs
<1>4. CASE Collect
  <2>1. /\ UNCHANGED <<cursor, history, stop, jobs>> /\ main.pc = "collect"
        /\ main'.seen = main.seen /\ main'.pc = "tidy"
    BY <1>2, <1>4 DEF Collect, Goto, world, MainState
  <2>2. \A e \in Events : /\ task'[e] = task[e] \/ task'[e].status = "failed"
                          /\ mem'[e] = mem[e] \/ mem'[e] = task'[e].status
    BY <1>4, CollectEffect DEF Collect, WorkerInv
  <2>3. HandHasRow' /\ CursorHasTasks'
    BY <2>1, <2>2 DEF WorkerInv, HandHasRow, CursorHasTasks, Handling, StateOK
  <2>4. SeenAccounted'
    BY <1>2, <2>1, <2>2 DEF WorkerInv, SeenAccounted, Running, Handling, LoopPCs, MainState
  <2>5. WorkTracked'
    BY <2>1, <2>2 DEF WorkerInv, WorkTracked, Running, LoopPCs, Incomplete
  <2>. QED
    BY <1>1, <2>3, <2>4, <2>5 DEF WorkerInv
<1>5. CASE Tidy
  <2>1. /\ UNCHANGED <<task, cursor, history, mem>> /\ main.pc = "tidy"
        /\ jobs' = Kept(task, at)
    BY <1>5 DEF Tidy, durable
  <2>2. /\ main'.pc \in {"top", "fence"} /\ main'.seen = main.seen
        /\ main'.pc = "top" => stop'.storeOpen = stop.storeOpen
    <3> DEFINE ended == [stop EXCEPT !.ingestStopped = TRUE]
    <3>1. ended.storeOpen = stop.storeOpen
      BY DEF WorkerInv, StateOK, StopState
    <3>2. \/ Leave("match_played", ended)
          \/ Goto("top") /\ stop' \in {stop, ended}
      BY <1>5 DEF Tidy
    <3> HIDE DEF ended
    <3>. QED
      BY <1>2, <3>1, <3>2 DEF Leave, Goto, MainState
  <2>3. CASE main'.pc = "fence"
    BY <1>1, <2>1, <2>3, OutsideInv DEF Running, LoopPCs
  <2>4. CASE main'.pc = "top"
    <3>1. HandHasRow' /\ SeenAccounted' /\ CursorHasTasks'
      BY <2>1, <2>2, <2>4 DEF WorkerInv, HandHasRow, SeenAccounted, CursorHasTasks, Running,
                              Handling, LoopPCs
    <3>2. WorkTracked'
      BY <2>1, <2>2, <2>4 DEF WorkerInv, WorkTracked, Kept, Running, LoopPCs, Incomplete, Final
    <3>. QED
      BY <1>1, <3>1, <3>2 DEF WorkerInv
  <2>. QED
    BY <2>2, <2>3, <2>4
<1>. QED
  BY <1>3, <1>4, <1>5

-------------------------------------------------------------------------------
\* The invariant holds whatever fails and however often the process restarts.
THEOREM InvariantHolds == Spec => []WorkerInv
<1>1. Init => WorkerInv
  <2> SUFFICES ASSUME Init PROVE WorkerInv
    OBVIOUS
  <2>1. task \in [Events -> TaskRow] /\ at \in [Runners -> [Events -> Places]]
    BY Constants DEF Init
  <2>2. main \in MainState /\ stop \in StopState
    BY DEF Init, Stopped, MainState, NoStop, StopState, PCs, LoopPCs, Reasons
  <2>3. main.pc = "down" /\ cursor.keys = {}
    BY DEF Init, Stopped
  <2>4. /\ video \in [Events -> {"missing", "partial", "full", "gone"}]
        /\ visual \in [Events -> {"none", "open", "settled"}]
        /\ mem \in [Events -> {"none"} \cup Incomplete \cup Final]
        /\ cursor \in [init : BOOLEAN, keys : SUBSET Events]
    <3>1. video \in [Events -> {"missing", "partial", "full", "gone"}]
      BY DEF Init
    <3>2. visual \in [Events -> {"none", "open", "settled"}]
      BY DEF Init
    <3>3. mem \in [Events -> {"none"} \cup Incomplete \cup Final]
      BY DEF Init
    <3>4. cursor \in [init : BOOLEAN, keys : SUBSET Events]
      BY DEF Init
    <3>. QED
      BY <3>1, <3>2, <3>3, <3>4
  <2>5. /\ feed = {} /\ history = {} /\ jobs = {}
        /\ ingest = "none" /\ over = FALSE
        /\ mishaps \in 0..MaxMishaps
    BY WorkerAssumption DEF Init
  <2>6. StateOK
    BY <2>1, <2>2, <2>4, <2>5 DEF StateOK
  <2>. QED
    BY <2>3, <2>6 DEF WorkerInv, HandHasRow, SeenAccounted, CursorHasTasks, WorkTracked,
                      Running, Handling, LoopPCs
<1>2. WorkerInv /\ [Next]_vars => WorkerInv'
  <2>1. WorkerInv /\ UNCHANGED vars => WorkerInv'
    BY DEF WorkerInv, StateOK, HandHasRow, SeenAccounted, CursorHasTasks, WorkTracked, vars,
           durable, world, memory
  <2>2. WorkerInv /\ MainStep => WorkerInv'
    BY LoopInv, IntakeInv, WorkInv, ShutdownInv DEF MainStep
  <2>3. WorkerInv /\ Reconnect => WorkerInv'
    BY LoopInv
  <2>. QED
    BY <2>1, <2>2, <2>3, EncodeStepInv, EnvironmentInv DEF Next, Step
<1>. QED
  BY <1>1, <1>2, PTL DEF Spec

\* The type invariant of the match Worker, its store and its threads.
THEOREM TypeCorrect == Spec => []TypeOK
<1>1. Init => settings \in Settings
  BY WorkerAssumption DEF Init
<1>2. settings \in Settings /\ [Next]_vars => (settings \in Settings)'
  BY DEF Next, Step, vars
<1>3. WorkerInv /\ settings \in Settings => TypeOK
  BY DEF WorkerInv, TypeOK
<1>. QED
  BY <1>1, <1>2, <1>3, InvariantHolds, PTL DEF Spec

\* remember_event_snapshot comes after the tasks in every interleaving of
\* crashes and restarts: the durable cursor has a task for each event it
\* passes, unless the event was seeded as history.
THEOREM CursorHasTasksHolds == Spec => []CursorHasTasks
<1>1. WorkerInv => CursorHasTasks
  BY DEF WorkerInv
<1>. QED
  BY <1>1, InvariantHolds, PTL

\* prune_buffer only ever takes the window of an event without unfinished work.
THEOREM VideoKeptForWorkHolds == Spec => VideoKeptForWork
<1> DEFINE Keeps == \A e \in Events :
                       video[e] # "gone" /\ video'[e] = "gone" /\ main.pc = "tidy"
                         => task[e].status \notin Incomplete
<1>1. WorkerInv /\ [Next]_vars => [Keeps]_vars
  <2> SUFFICES ASSUME WorkerInv, Next, NEW e \in Events, video[e] # "gone",
                      video'[e] = "gone", main.pc = "tidy"
               PROVE  task[e].status \notin Incomplete
    OBVIOUS
  <2>1. CASE Tidy
    <3> DEFINE kept == Kept(task, at)
    <3>1. \E pruned \in {{}, Prunable(kept)} :
             video' = [d \in Events |-> IF d \in pruned THEN "gone" ELSE video[d]]
      BY <2>1 DEF Tidy
    <3>2. e \in Prunable(kept)
      BY <3>1
    <3>3. task[e].status \in Incomplete => e \in jobs /\ mem[e] \in {"pending", "encoding"}
      BY DEF WorkerInv, WorkTracked, Running, LoopPCs
    <3>4. task[e].status \in Incomplete => e \in kept
      BY <3>3 DEF Kept, Incomplete, Final
    <3>. QED
      BY <3>2, <3>3, <3>4 DEF Prunable
  <2>2. CASE Environment
    <3>1. CASE \E d \in Events : VideoArrives(d)
      BY <3>1 DEF VideoArrives, WorkerInv, StateOK
    <3>2. CASE ~\E d \in Events : VideoArrives(d)
      BY <2>2, <3>2 DEF Environment, FeedAdds, RetryDue, DeadlinePasses, VisualSettles,
           IngestDies, RequestStop, StopClock, CancelTimesOut, Crash, Interrupt, Vanish,
           world, ForShutdown, durable
    <3>. QED
      BY <3>1, <3>2
  <2>3. CASE \E r \in Runners, d \in Events : EncodeStep(r, d)
    BY <2>3, EncodeStepEffect DEF WorkerInv
  <2>4. CASE Reconnect
    BY <2>4 DEF Reconnect, ForTop, world
  <2>5. CASE MainStep /\ ~Tidy
    <3>1. main.pc # "down" /\ main.pc \notin {"resume", "final", "top", "intake"}
      OBVIOUS
    <3>2. CASE MainRaises
      BY <3>2 DEF MainRaises, Vanish, world
    <3>. QED
      BY <2>5, <3>1, <3>2
         DEF MainStep, Start, TakeJob, JobReturns, ResumeDone, NoticeStop, ObserveExit,
             GraceTimeout, PollNothing, Poll, Discover, Accept, MarkDefaultGifDisabled,
             EnqueueVisual, RememberSnapshot, Submit, Collect, Fence, Drained, DrainTimesOut,
             Gather, Report, Close, Exit, AtTop, CanPoll
  <2>. QED
    BY <2>1, <2>2, <2>3, <2>4, <2>5 DEF Next, Step
<1>. QED
  BY <1>1, InvariantHolds, PTL DEF Spec, VideoKeptForWork

-------------------------------------------------------------------------------
(***************************************************************************)
(* The encoders: what the calls of encode_event_job promise of the store.  *)
(***************************************************************************)

Pool(e) == at["pool"][e]
Main(e) == at["main"][e]
Waits == {"check", "slot", "held"}
Encodes == {"encode", "record"}

\* From recovery to the last collection of results.
Working == Running \cup {"fence", "drain", "cancelled", "gather"}
Ending == {"final", "closing", "closed"}

\* A call of the pool has found its window, and memory and store know that it encodes.
PoolCalls ==
  \A e \in Events :
     /\ Pool(e) \in Encodes => task[e].status = "encoding"
     /\ Pool(e) \in Busy /\ main.pc # "closed" => Covered(e) /\ ~task[e].wait
     /\ main.pc \in Working =>
          /\ Pool(e) \in Waits => mem[e] = "pending"
          /\ Pool(e) \in Encodes => mem[e] = "encoding"

\* The main thread encodes before the loop and after the drain; it gets no slot
\* when threads of the pool were cancelled and may still run.
MainCalls ==
  /\ main.pc \notin {"resume", "final"} => MainIdle
  /\ main.pc \in {"resume", "down"} => \A e \in Events : Pool(e) = "idle"
  /\ main.pc = "gather" /\ ~stop.cancel => PoolIdle
  /\ main.pc \in Ending /\ ~stop.cancel => \A e \in Events : Pool(e) = "idle"
  /\ stop.cancel => main.pc \in {"cancelled", "gather"} \cup Ending
  /\ main.pc = "cancelled" => stop.cancel
  /\ \A e \in Events :
       /\ Main(e) \in {"held"} \cup Encodes => ~stop.cancel
       /\ Main(e) \in Encodes => task[e].status = "encoding"
       /\ main.pc = "resume" /\ Main(e) \in Waits => mem[e] = "pending"

PendingOpen ==
  main.pc \in Working =>
     \A e \in Events : mem[e] = "pending" => task[e].status \notin Final

\* Jobs belong to accepted tasks, and there are none while default GIFs are disabled.
JobsAccepted ==
  /\ \A e \in jobs : task[e].status \notin {"none", "discovered"}
  /\ ~settings.gif => jobs = {} /\ MainIdle /\ \A e \in Events : mem[e] = "none"
  /\ main.pc = "disable" => ~settings.gif
  /\ main.pc = "accept" => task[main.hand].status = "discovered"

CallInv == PoolCalls /\ MainCalls /\ PendingOpen /\ JobsAccepted /\ FutureHasJob

\* What one step of a call does, by the place it reaches.
LEMMA CallEffect ==
  ASSUME StateOK, NEW r \in Runners, NEW e \in Events, EncodeStep(r, e)
  PROVE  /\ UNCHANGED <<main, jobs, stop, video>>
         /\ \A q \in Runners, d \in Events : q # r \/ d # e => at'[q][d] = at[q][d]
         /\ \A d \in Events \ {e} : task'[d] = task[d] /\ mem'[d] = mem[d]
         /\ at[r][e] \in {"check"} \cup Busy /\ at'[r][e] \in Busy \cup Returned
         /\ at'[r][e] \in {"slot", "held"} =>
              /\ task'[e] = task[e] /\ mem'[e] = mem[e] /\ at[r][e] \in Waits
              /\ at[r][e] = "check" => Covered(e) /\ ~task[e].wait
              /\ at'[r][e] = "held" => ~stop.cancel
         /\ at'[r][e] \in Encodes =>
              \/ /\ at[r][e] = "held" /\ at'[r][e] = "encode"
                 /\ mem'[e] = "encoding" /\ task'[e] = [task[e] EXCEPT !.status = "encoding"]
                 /\ task[e].status = "pending"
              \/ at[r][e] \in Encodes /\ mem'[e] = mem[e] /\ task'[e] = task[e]
         /\ at'[r][e] \in Returned =>
              \/ /\ mem'[e] = "pending" /\ task'[e].status = task[e].status
                 /\ at[r][e] \in Encodes => "release" \in Mishaps
                 /\ task'[e] = task[e] \/ ~Covered(e)
              \/ /\ mem'[e] = "failed"
                 /\ task'[e] = task[e] \/ task'[e] = [task[e] EXCEPT !.status = "failed"]
                 /\ stop.storeOpen /\ MayBecome(task[e].status, "failed") =>
                       task'[e].status = "failed"
                 /\ at[r][e] = "check" => NeverCovered(e) /\ ~task[e].wait
                 /\ at[r][e] \in {"check", "held"} \cup Encodes
              \/ /\ mem'[e] = "encoded" /\ task'[e] = [task[e] EXCEPT !.status = "encoded"]
                 /\ at[r][e] = "record"
              \/ at[r][e] = "check" /\ mem'[e] = mem[e] /\ task'[e] = task[e]
<1> USE DEF ForEncode
<1>1. /\ task \in [Events -> TaskRow] /\ task[e] \in TaskRow
      /\ at \in [Runners -> [Events -> Places]]
      /\ mem \in [Events -> {"none"} \cup Incomplete \cup Final]
  BY DEF StateOK
<1>2. ASSUME NEW how, Return(r, e, how)
      PROVE  /\ at'[r][e] = how
             /\ \A q \in Runners, d \in Events : q # r \/ d # e => at'[q][d] = at[q][d]
  BY <1>1, <1>2 DEF Return
<1>3. ASSUME GiveUp(r, e)
      PROVE  /\ mem'[e] = "failed" /\ at'[r][e] \in {"true", "raised"}
             /\ \A q \in Runners, d \in Events : q # r \/ d # e => at'[q][d] = at[q][d]
             /\ task'[e] = task[e] \/ task'[e] = [task[e] EXCEPT !.status = "failed"]
             /\ stop.storeOpen /\ MayBecome(task[e].status, "failed") => task'[e].status = "failed"
  <2>1. mem'[e] = "failed"
    BY <1>1, <1>3 DEF GiveUp
  <2>2. CASE stop.storeOpen /\ MayBecome(task[e].status, "failed")
    <3>1. task' = [task EXCEPT ![e].status = "failed"] /\ Return(r, e, "true")
      BY <1>3, <2>2 DEF GiveUp
    <3>2. task'[e] = [task[e] EXCEPT !.status = "failed"] /\ task'[e].status = "failed"
      BY <1>1, <3>1 DEF TaskRow
    <3>. QED
      BY <1>2, <2>1, <3>1, <3>2
  <2>3. CASE ~(stop.storeOpen /\ MayBecome(task[e].status, "failed"))
    <3>1. task' = task /\ Return(r, e, "raised")
      BY <1>3, <2>3 DEF GiveUp
    <3>. QED
      BY <1>2, <2>1, <2>3, <3>1
  <2>. QED
    BY <2>2, <2>3
<1>4. /\ UNCHANGED <<main, jobs, stop, video>>
      /\ \A d \in Events \ {e} : task'[d] = task[d] /\ mem'[d] = mem[d]
  <2>1. UNCHANGED jobs
    BY DEF EncodeStep, TooEarly, CoverageFails, CoverageWaits, CoverageReady, StartsClosed,
           ObtainSlot, SlotRefused, StartEncode, EncodeFails, EncodeDone, ReleaseFails, RecordEncoded
  <2>. QED
    BY <2>1, EncodeStepEffect
<1>5. CASE TooEarly(r, e)
  BY <1>1, <1>2, <1>4, <1>5 DEF TooEarly, Starts, Busy, Returned, Encodes
<1>6. CASE CoverageFails(r, e)
  BY <1>3, <1>4, <1>6 DEF CoverageFails, Starts, Busy, Returned, Encodes
<1>7. CASE CoverageWaits(r, e)
  <2>1. \/ task' = task
        \/ task' = [task EXCEPT ![e].wait = TRUE]
    BY <1>7 DEF CoverageWaits
  <2>2. task'[e].status = task[e].status
    BY <1>1, <2>1 DEF TaskRow
  <2>3. \E how \in {"false", "raised"} : Return(r, e, how)
    BY <1>7 DEF CoverageWaits
  <2>. QED
    BY <1>1, <1>2, <1>4, <1>7, <2>2, <2>3 DEF CoverageWaits, Starts, Busy, Returned, Encodes
<1>8. CASE CoverageReady(r, e)
  BY <1>1, <1>2, <1>4, <1>8 DEF CoverageReady, Starts, Busy, Returned, Encodes, Waits
<1>9. CASE StartsClosed(r, e)
  BY <1>1, <1>2, <1>4, <1>9 DEF StartsClosed, Starts, Busy, Returned, Encodes
<1>10. CASE ObtainSlot(r, e)
  BY <1>1, <1>2, <1>4, <1>10 DEF ObtainSlot, Busy, Returned, Encodes, Waits
<1>11. CASE SlotRefused(r, e)
  BY <1>1, <1>2, <1>4, <1>11 DEF SlotRefused, Busy, Returned, Encodes
<1>12. CASE StartEncode(r, e)
  <2>1. CASE GiveUp(r, e)
    BY <1>3, <1>4, <1>12, <2>1 DEF StartEncode, Busy, Returned, Encodes
  <2>2. CASE ~GiveUp(r, e)
    <3>1. /\ mem' = [mem EXCEPT ![e] = "encoding"]
          /\ task' = [task EXCEPT ![e].status = "encoding"]
          /\ MayBecome(task[e].status, "encoding") /\ Return(r, e, "encode") /\ at[r][e] = "held"
      BY <1>12, <2>2 DEF StartEncode
    <3>2. task[e].status = "pending"
      BY <3>1 DEF MayBecome
    <3>. QED
      BY <1>1, <1>2, <1>4, <3>1, <3>2 DEF Busy, Returned, Encodes
  <2>. QED
    BY <2>1, <2>2
<1>13. CASE EncodeFails(r, e)
  BY <1>3, <1>4, <1>13 DEF EncodeFails, Busy, Returned, Encodes
<1>14. CASE EncodeDone(r, e)
  BY <1>1, <1>2, <1>4, <1>14 DEF EncodeDone, Busy, Returned, Encodes
<1>15. CASE ReleaseFails(r, e)
  BY <1>1, <1>2, <1>4, <1>15 DEF ReleaseFails, GoesWrong, Busy, Returned, Encodes
<1>16. CASE RecordEncoded(r, e)
  <2>1. CASE GiveUp(r, e)
    BY <1>3, <1>4, <1>16, <2>1 DEF RecordEncoded, Busy, Returned, Encodes
  <2>2. CASE ~GiveUp(r, e)
    <3>1. /\ mem' = [mem EXCEPT ![e] = "encoded"]
          /\ task' = [task EXCEPT ![e].status = "encoded"]
          /\ Return(r, e, "true") /\ at[r][e] = "record"
      BY <1>16, <2>2 DEF RecordEncoded
    <3>. QED
      BY <1>1, <1>2, <1>4, <3>1 DEF Busy, Returned, Encodes
  <2>. QED
    BY <2>1, <2>2
<1>. QED
  BY <1>5, <1>6, <1>7, <1>8, <1>9, <1>10, <1>11, <1>12, <1>13, <1>14, <1>15, <1>16 DEF EncodeStep

\* A call of encode_event_job keeps what is known of all calls.
LEMMA EncodeStepCalls ==
  ASSUME StateOK, HandHasRow, CallInv, NEW r \in Runners, NEW e \in Events, EncodeStep(r, e),
         UNCHANGED settings
  PROVE  CallInv'
<1>1. /\ UNCHANGED <<main, jobs, stop, video, settings>>
      /\ \A q \in Runners, d \in Events : q # r \/ d # e => at'[q][d] = at[q][d]
      /\ \A d \in Events \ {e} : task'[d] = task[d] /\ mem'[d] = mem[d]
      /\ at[r][e] \in {"check"} \cup Busy /\ at'[r][e] \in Busy \cup Returned
  BY CallEffect
<1>2. at'[r][e] \in {"slot", "held"} =>
              /\ task'[e] = task[e] /\ mem'[e] = mem[e] /\ at[r][e] \in Waits
              /\ at[r][e] = "check" => Covered(e) /\ ~task[e].wait
              /\ at'[r][e] = "held" => ~stop.cancel
  BY CallEffect
<1>3. at'[r][e] \in Encodes =>
        /\ \/ /\ at[r][e] = "held" /\ mem'[e] = "encoding" /\ task'[e].status = "encoding"
           \/ at[r][e] \in Encodes /\ mem'[e] = mem[e] /\ task'[e] = task[e]
        /\ task'[e].wait = task[e].wait /\ task'[e].late = task[e].late
  <2>1. task[e] \in TaskRow
    BY DEF StateOK
  <2>2. LET row == [task[e] EXCEPT !.status = "encoding"]
        IN row.status = "encoding" /\ row.wait = task[e].wait /\ row.late = task[e].late
    BY <2>1 DEF TaskRow
  <2>. QED
    BY <2>2, CallEffect
<1>4. at'[r][e] \in Returned =>
        \/ /\ mem'[e] = "pending" /\ task'[e].status = task[e].status
           /\ task'[e] = task[e] \/ ~Covered(e)
        \/ /\ mem'[e] = "failed"
           /\ task'[e] = task[e] \/ task'[e].status = "failed"
           /\ at[r][e] = "check" => NeverCovered(e)
           /\ at[r][e] \in {"check", "held"} \cup Encodes
        \/ /\ mem'[e] = "encoded" /\ task'[e].status = "encoded" /\ at[r][e] = "record"
        \/ mem'[e] = mem[e] /\ task'[e] = task[e]
  <2>1. task[e] \in TaskRow
    BY DEF StateOK
  <2>2. /\ [task[e] EXCEPT !.status = "failed"].status = "failed"
        /\ [task[e] EXCEPT !.status = "encoded"].status = "encoded"
    BY <2>1 DEF TaskRow
  <2>. QED
    BY <2>2, CallEffect
<1>5. /\ "check" \in Waits /\ "slot" \in Waits /\ "held" \in Waits
      /\ \A w : w \in Busy <=> w \in {"slot", "held"} \cup Encodes
      /\ \A w \in Returned : w \notin Busy \cup Waits \cup Encodes
      /\ \A w \in Waits : w = "check" \/ w \in {"slot", "held"}
      /\ "check" \notin Encodes /\ "slot" \notin Encodes
  BY DEF Waits, Busy, Encodes, Returned
<1>6. /\ "resume" \in Working /\ "final" \notin Working /\ "closed" \notin Working
      /\ "final" \in Ending
  BY DEF Working, Ending, Running, LoopPCs
<1>7. /\ Pool(e)' = at'["pool"][e] /\ Main(e)' = at'["main"][e]
      /\ Pool(e) = at["pool"][e] /\ Main(e) = at["main"][e]
  BY DEF Pool, Main
<1>8. r = "pool" \/ r = "main"
  BY DEF Runners
<1>9. \A d \in Events \ {e} : /\ Pool(d)' = Pool(d) /\ Main(d)' = Main(d)
                              /\ Covered(d)' = Covered(d)
  BY <1>1 DEF Pool, Main, Covered, Runners
<1>10. task'[e].status \in {"none", "discovered"} => task[e].status \in {"none", "discovered"}
  BY <1>1, <1>2, <1>3, <1>4, <1>5
<1>11. ASSUME main.pc \in Working PROVE PendingOpen'
  <2>1. at[r][e] \in Encodes => task[e].status = "encoding"
    BY <1>7, <1>8 DEF CallInv, PoolCalls, MainCalls
  <2>2. at[r][e] \in Waits => mem[e] = "pending"
    <3>1. CASE r = "pool"
      BY <1>7, <1>11, <3>1 DEF CallInv, PoolCalls
    <3>2. CASE r = "main"
      <4>1. main.pc = "resume"
        BY <1>1, <1>6, <1>7, <1>11, <3>2 DEF CallInv, MainCalls, MainIdle, Busy
      <4>. QED
        BY <1>7, <3>2, <4>1 DEF CallInv, MainCalls
    <3>. QED
      BY <1>8, <3>1, <3>2
  <2>3. task[e].status \notin Final
    BY <1>1, <1>5, <1>11, <2>1, <2>2 DEF CallInv, PendingOpen, Final
  <2>4. mem'[e] = "pending" => task'[e].status = task[e].status
    BY <1>1, <1>2, <1>3, <1>4, <1>5
  <2>. QED
    BY <1>1, <2>3, <2>4 DEF CallInv, PendingOpen
<1>12. PendingOpen'
  BY <1>1, <1>11 DEF PendingOpen
<1>13. CASE r = "pool"
  <2>1. /\ Pool(e) # "idle" /\ e \in jobs /\ settings.gif /\ Main(e)' = Main(e)
        /\ main.pc \notin {"resume", "down"} /\ (main.pc \in Ending => stop.cancel)
        /\ (main.pc = "gather" => stop.cancel)
    BY <1>1, <1>7, <1>13
       DEF CallInv, FutureHasJob, JobsAccepted, MainCalls, Pool, Main, PoolIdle, Busy, Returned,
           Runners
  <2>2. Main(e) \notin {"held"} \cup Encodes
    <3>1. Main(e) # "idle" => main.pc = "final"
      BY <2>1 DEF CallInv, MainCalls, MainIdle, Main
    <3>2. Main(e) \in {"held"} \cup Encodes => ~stop.cancel /\ Main(e) # "idle"
      BY DEF CallInv, MainCalls, Encodes
    <3>. QED
      BY <1>6, <2>1, <3>1, <3>2
  <2>3. MainCalls'
    <3>1. main'.pc \notin {"resume", "final"} => MainIdle'
      BY <1>1, <1>9, <2>1 DEF CallInv, MainCalls, MainIdle, Main
    <3>. QED
      BY <1>1, <1>9, <2>1, <2>2, <3>1 DEF CallInv, MainCalls
  <2>4. PoolCalls'
    <3>1. Pool(e)' \in Encodes => task'[e].status = "encoding"
      BY <1>3, <1>7, <1>13 DEF CallInv, PoolCalls
    <3>2. Pool(e)' \in Busy /\ main'.pc # "closed" => Covered(e)' /\ ~task'[e].wait
      <4>1. SUFFICES ASSUME Pool(e)' \in Busy, main.pc # "closed"
                     PROVE  Covered(e)' /\ ~task'[e].wait
        BY <1>1
      <4>2. Covered(e) /\ ~task[e].wait
        BY <1>1, <1>2, <1>3, <1>5, <1>7, <1>13, <4>1 DEF CallInv, PoolCalls
      <4>3. task'[e].wait = task[e].wait /\ task'[e].late = task[e].late
        BY <1>2, <1>3, <1>5, <1>7, <1>13, <4>1
      <4>. QED
        BY <1>1, <4>2, <4>3 DEF Covered
    <3>3. main'.pc \in Working =>
            /\ Pool(e)' \in Waits => mem'[e] = "pending"
            /\ Pool(e)' \in Encodes => mem'[e] = "encoding"
      BY <1>1, <1>2, <1>3, <1>5, <1>7, <1>13 DEF CallInv, PoolCalls
    <3>. QED
      BY <1>1, <1>9, <3>1, <3>2, <3>3 DEF CallInv, PoolCalls
  <2>5. JobsAccepted'
    <3>1. main.pc = "accept" => main.hand # e
      BY <2>1 DEF CallInv, JobsAccepted
    <3>2. main.pc = "accept" => task'[main.hand] = task[main.hand]
      BY <1>1, <3>1 DEF HandHasRow, Handling
    <3>3. \A d \in jobs : task'[d].status \notin {"none", "discovered"}
      BY <1>1, <1>10 DEF CallInv, JobsAccepted, StateOK
    <3>. QED
      BY <1>1, <2>1, <3>2, <3>3 DEF CallInv, JobsAccepted
  <2>6. FutureHasJob'
    BY <1>1, <1>9, <2>1 DEF CallInv, FutureHasJob, Pool
  <2>. QED
    BY <1>12, <2>3, <2>4, <2>5, <2>6 DEF CallInv
<1>14. CASE r = "main"
  <2>1. /\ Main(e) # "idle" /\ settings.gif /\ Pool(e)' = Pool(e)
        /\ main.pc \in {"resume", "final"}
    BY <1>1, <1>7, <1>14 DEF CallInv, JobsAccepted, MainCalls, MainIdle, Main, Pool, Busy, Runners
  <2>2. Pool(e) # "idle" => main.pc = "final" /\ stop.cancel
    BY <1>6, <2>1 DEF CallInv, MainCalls
  <2>3. Pool(e) \in Busy => task'[e] = task[e]
    <3>1. SUFFICES ASSUME Pool(e) \in Busy PROVE task'[e] = task[e]
      OBVIOUS
    <3>2. stop.cancel /\ main.pc = "final" /\ Covered(e)
      BY <2>1, <2>2, <3>1 DEF CallInv, PoolCalls, Busy
    <3>3. at[r][e] \in {"check", "slot"}
      BY <1>1, <1>5, <1>7, <1>14, <3>2 DEF CallInv, MainCalls
    <3>4. ~NeverCovered(e)
      BY <3>2 DEF Covered, NeverCovered
    <3>. QED
      BY <1>1, <1>2, <1>3, <1>4, <1>5, <3>2, <3>3, <3>4
  <2>4. PoolCalls'
    <3>1. Pool(e)' \in Encodes => task'[e].status = "encoding"
      BY <1>5, <2>1, <2>3 DEF CallInv, PoolCalls
    <3>2. Pool(e)' \in Busy /\ main'.pc # "closed" => Covered(e)' /\ ~task'[e].wait
      BY <1>1, <2>1, <2>3 DEF CallInv, PoolCalls, Covered
    <3>3. main.pc \in Working => Pool(e)' \notin Waits \cup Encodes
      BY <1>6, <2>1, <2>2 DEF Waits, Encodes
    <3>. QED
      BY <1>1, <1>9, <3>1, <3>2, <3>3 DEF CallInv, PoolCalls
  <2>5. MainCalls'
    <3>1. /\ Main(e)' \in {"held"} \cup Encodes => ~stop.cancel
          /\ Main(e)' \in Encodes => task'[e].status = "encoding"
          /\ main.pc = "resume" /\ Main(e)' \in Waits => mem'[e] = "pending"
      BY <1>1, <1>2, <1>3, <1>5, <1>7, <1>14 DEF CallInv, MainCalls
    <3>2. PoolIdle' = PoolIdle
      BY <1>9, <2>1 DEF PoolIdle, Pool
    <3>. QED
      BY <1>1, <1>9, <2>1, <3>1, <3>2 DEF CallInv, MainCalls
  <2>6. JobsAccepted'
    <3>1. \A d \in jobs : task'[d].status \notin {"none", "discovered"}
      BY <1>1, <1>10 DEF CallInv, JobsAccepted, StateOK
    <3>. QED
      BY <1>1, <2>1, <3>1 DEF CallInv, JobsAccepted
  <2>7. FutureHasJob'
    BY <1>1, <1>9, <2>1 DEF CallInv, FutureHasJob, Pool
  <2>. QED
    BY <1>12, <2>4, <2>5, <2>6, <2>7 DEF CallInv
<1>. QED
  BY <1>8, <1>13, <1>14

\* What is known of the calls outlives every step that leaves the calls and the
\* jobs alone, moves the main thread along, and takes no window away.
LEMMA QuietCalls ==
  ASSUME CallInv, UNCHANGED <<at, mem, jobs, settings>>, stop'.cancel = stop.cancel,
         \A d \in Events : task'[d].status = task[d].status /\ (task'[d].wait => task[d].wait),
         main'.pc # "closed" => \A d \in Events : Covered(d) => Covered(d)',
         jobs \subseteq Events, main.pc = "accept" => main.hand \in Events,
         \/ main'.pc = main.pc /\ main'.hand = main.hand
         \/ main.pc \in LoopPCs /\ main'.pc \in (LoopPCs \ {"accept", "disable"}) \cup {"fence"}
         \/ main.pc = "fence" /\ main'.pc = "drain"
         \/ main.pc \in {"drain", "cancelled"} /\ PoolIdle /\ main'.pc = "gather"
         \/ main.pc = "cancelled" /\ main'.pc = "gather"
         \/ main.pc = "closing" /\ main'.pc = "closed"
  PROVE  CallInv'
<1>1. main'.pc \in Working => main.pc \in Working
  BY DEF Working, Running, LoopPCs
<1>2. main'.pc # "closed" => main.pc # "closed"
  BY DEF LoopPCs
<1>3. \A d \in Events : Pool(d)' = Pool(d) /\ Main(d)' = Main(d)
  BY DEF Pool, Main
<1>4. PoolIdle' = PoolIdle /\ MainIdle' = MainIdle
  BY DEF PoolIdle, MainIdle
<1>5. PoolCalls'
  BY <1>1, <1>2, <1>3 DEF CallInv, PoolCalls
<1>6. MainCalls'
  <2>1. /\ main'.pc \in {"resume", "final", "down"} => main'.pc = main.pc
        /\ main'.pc \in Ending => main.pc \in Ending
        /\ main'.pc = "cancelled" => main.pc = "cancelled"
        /\ main.pc \in {"cancelled", "gather"} \cup Ending
             => main'.pc \in {"cancelled", "gather"} \cup Ending
        /\ main'.pc = "gather" /\ ~stop.cancel => PoolIdle
    BY DEF Ending, LoopPCs, CallInv, MainCalls
  <2>2. main'.pc \notin {"resume", "final"} => MainIdle
    BY <2>1 DEF CallInv, MainCalls, LoopPCs
  <2>. QED
    BY <1>3, <1>4, <2>1, <2>2 DEF CallInv, MainCalls
<1>7. PendingOpen'
  BY <1>1 DEF CallInv, PendingOpen
<1>8. JobsAccepted'
  BY <1>4 DEF CallInv, JobsAccepted, LoopPCs
<1>9. FutureHasJob'
  BY DEF CallInv, FutureHasJob
<1>. QED
  BY <1>5, <1>6, <1>7, <1>8, <1>9 DEF CallInv

\* What a collection of results does to each future.
LEMMA CollectCalls ==
  ASSUME StateOK, CollectDone, NEW d \in Events
  PROVE  /\ Main(d)' = Main(d)
         /\ Pool(d) \notin Returned =>
              Pool(d)' = Pool(d) /\ task'[d] = task[d] /\ mem'[d] = mem[d]
         /\ Pool(d) \in Returned =>
              /\ Pool(d)' = "idle" /\ mem'[d] = task'[d].status
              /\ \/ task'[d] = task[d]
                 \/ /\ task[d].status \in {"pending", "encoding"}
                    /\ task'[d].status = "failed"
              /\ Pool(d) = "raised" => task'[d].status \notin {"pending", "encoding"}
         /\ task'[d].status \in {"none", "discovered"} => task'[d] = task[d]
<1>1. task[d] \in TaskRow /\ at \in [Runners -> [Events -> Places]]
  BY DEF StateOK
<1>2. [task[d] EXCEPT !.status = "failed"].status = "failed"
  BY <1>1 DEF TaskRow
<1>3. d \in Done <=> Pool(d) \in Returned
  BY DEF Done, Pool
<1>4. /\ task'[d] = IF d \in Done /\ Pool(d) = "raised" /\ task[d].status \in {"pending", "encoding"}
                    THEN [task[d] EXCEPT !.status = "failed"] ELSE task[d]
      /\ mem'[d] = IF d \in Done THEN task'[d].status ELSE mem[d]
  BY DEF CollectDone, Pool
<1>5. /\ Pool(d)' = IF d \in Done THEN "idle" ELSE Pool(d)
      /\ Main(d)' = Main(d)
  BY <1>1 DEF CollectDone, Pool, Main, Runners
<1>. QED
  BY <1>2, <1>3, <1>4, <1>5

\* The steps that leave the calls alone.
LEMMA WorldCalls ==
  ASSUME StateOK, HandHasRow, CallInv, UNCHANGED settings,
         \/ \E e \in Events : \/ FeedAdds(e) \/ VideoArrives(e) \/ RetryDue(e)
                              \/ DeadlinePasses(e) \/ VisualSettles(e)
         \/ IngestDies \/ RequestStop \/ StopClock \/ CancelTimesOut \/ Interrupt
  PROVE  CallInv'
<1>1. /\ jobs \subseteq Events /\ (main.pc = "accept" => main.hand \in Events)
      /\ main \in MainState /\ stop \in StopState /\ task \in [Events -> TaskRow]
      /\ video \in [Events -> {"missing", "partial", "full", "gone"}]
  BY DEF StateOK, HandHasRow, Handling
<1>2. UNCHANGED <<at, mem, jobs, settings>>
  BY DEF FeedAdds, VideoArrives, RetryDue, DeadlinePasses, VisualSettles, IngestDies,
         RequestStop, StopClock, CancelTimesOut, Interrupt, memory
<1>3. stop'.cancel = stop.cancel
  BY <1>1 DEF FeedAdds, VideoArrives, RetryDue, DeadlinePasses, VisualSettles, IngestDies,
         RequestStop, StopClock, CancelTimesOut, Interrupt, memory, Leave, StopState
<1>4. \/ main'.pc = main.pc /\ main'.hand = main.hand
      \/ main.pc \in LoopPCs /\ main'.pc = "fence"
      \/ main.pc = "cancelled" /\ main'.pc = "gather"
  BY <1>1 DEF FeedAdds, VideoArrives, RetryDue, DeadlinePasses, VisualSettles, IngestDies,
         RequestStop, StopClock, CancelTimesOut, Interrupt, memory, Leave, Goto, MainState
<1>5. \A d \in Events : /\ task'[d].status = task[d].status
                        /\ task'[d].wait => task[d].wait
                        /\ Covered(d) => Covered(d)'
  <2>1. ASSUME NEW e \in Events, RetryDue(e), NEW d \in Events
        PROVE  /\ task'[d].status = task[d].status /\ task'[d].late = task[d].late
               /\ task'[d].wait => task[d].wait
               /\ UNCHANGED video
    BY <1>1, <2>1 DEF RetryDue, TaskRow, world
  <2>2. ASSUME NEW e \in Events, DeadlinePasses(e), NEW d \in Events
        PROVE  /\ task'[d].status = task[d].status /\ (task[d].late => task'[d].late)
               /\ task'[d].wait => task[d].wait
               /\ UNCHANGED video
    <3>1. task' = [task EXCEPT ![e] = [task[e] EXCEPT !.late = TRUE, !.wait = FALSE]]
      BY <1>1, <2>2 DEF DeadlinePasses, TaskRow
    <3>2. LET row == [task[e] EXCEPT !.late = TRUE, !.wait = FALSE]
          IN row.status = task[e].status /\ row.late = TRUE /\ row.wait = FALSE
      BY <1>1 DEF TaskRow
    <3>3. task'[d] = task[d] \/ /\ d = e
                                /\ task'[d] = [task[e] EXCEPT !.late = TRUE, !.wait = FALSE]
      BY <1>1, <3>1
    <3>. QED
      BY <2>2, <3>2, <3>3 DEF DeadlinePasses, world
  <2>3. ASSUME NEW e \in Events, VideoArrives(e), NEW d \in Events
        PROVE  Covered(d) => Covered(d)'
    BY <1>1, <2>3 DEF VideoArrives, Covered, durable
  <2>4. ASSUME \/ \E e \in Events : FeedAdds(e) \/ VisualSettles(e)
               \/ IngestDies \/ RequestStop \/ StopClock \/ CancelTimesOut \/ Interrupt
        PROVE  UNCHANGED <<task, video>>
    BY <2>4 DEF FeedAdds, VisualSettles, IngestDies, RequestStop, StopClock, CancelTimesOut,
                Interrupt, durable, world
  <2>5. ASSUME NEW e \in Events, VideoArrives(e) PROVE UNCHANGED task
    BY <2>5 DEF VideoArrives, durable
  <2>. QED
    BY <2>1, <2>2, <2>3, <2>4, <2>5 DEF Covered
<1>. QED
  BY <1>1, <1>2, <1>3, <1>4, <1>5, QuietCalls

\* The steps of the main thread that leave the calls alone.
LEMMA PassCalls ==
  ASSUME StateOK, HandHasRow, CallInv, UNCHANGED settings,
         \/ NoticeStop \/ ObserveExit \/ GraceTimeout \/ Reconnect \/ PollNothing \/ Poll
         \/ EnqueueVisual \/ RememberSnapshot \/ Fence \/ Drained \/ Close
  PROVE  CallInv'
<1>1. /\ jobs \subseteq Events /\ (main.pc = "accept" => main.hand \in Events)
      /\ main \in MainState /\ stop \in StopState
  BY DEF StateOK, HandHasRow, Handling
<1>2. UNCHANGED <<task, at, mem, jobs, settings>>
  BY DEF NoticeStop, ObserveExit, GraceTimeout, Reconnect, PollNothing, Poll, EnqueueVisual,
         RememberSnapshot, Fence, Drained, Close, ForTop, ForIntake, durable, world
<1>3. stop'.cancel = stop.cancel
  BY <1>1 DEF NoticeStop, ObserveExit, GraceTimeout, Reconnect, PollNothing, Poll, EnqueueVisual,
         RememberSnapshot, Fence, Drained, Close, ForTop, ForIntake, Leave, StopState
<1>4. \/ main'.pc = main.pc /\ main'.hand = main.hand
      \/ main.pc \in LoopPCs /\ main'.pc \in (LoopPCs \ {"accept", "disable"}) \cup {"fence"}
      \/ main.pc = "fence" /\ main'.pc = "drain"
      \/ main.pc \in {"drain", "cancelled"} /\ PoolIdle /\ main'.pc = "gather"
      \/ main.pc = "closing" /\ main'.pc = "closed"
  BY <1>1 DEF NoticeStop, ObserveExit, GraceTimeout, Reconnect, PollNothing, Poll, EnqueueVisual,
         RememberSnapshot, Fence, Drained, Close, Leave, Goto, MainState, LoopPCs, AtTop, CanPoll
<1>5. main'.pc # "closed" => UNCHANGED video
  BY <1>1 DEF NoticeStop, ObserveExit, GraceTimeout, Reconnect, PollNothing, Poll, EnqueueVisual,
         RememberSnapshot, Fence, Drained, Close, ForTop, ForIntake, world, Goto, MainState
<1>6. main'.pc # "closed" => \A d \in Events : Covered(d) => Covered(d)'
  BY <1>2, <1>5 DEF Covered
<1>. QED
  BY <1>1, <1>2, <1>3, <1>4, <1>6, QuietCalls

\* A process ends.
LEMMA VanishCalls ==
  ASSUME Vanish
  PROVE  CallInv'
<1>1. /\ main'.pc = "down" /\ jobs' = {} /\ ~stop'.cancel
      /\ \A d \in Events : Pool(d)' = "idle" /\ Main(d)' = "idle" /\ mem'[d] = "none"
  BY DEF Vanish, Stopped, AllIdle, NoStop, Pool, Main, Runners
<1>2. PoolCalls'
  BY <1>1 DEF PoolCalls, Busy, Waits, Encodes
<1>3. MainCalls'
  BY <1>1 DEF MainCalls, Busy, Waits, Encodes, MainIdle, Main, Ending
<1>4. PendingOpen' /\ JobsAccepted' /\ FutureHasJob'
  BY <1>1 DEF PendingOpen, JobsAccepted, FutureHasJob, MainIdle, Main, Pool
<1>. QED
  BY <1>2, <1>3, <1>4 DEF CallInv

\* A process starts, with a job for each row that recovery returned to pending.
LEMMA StartCalls ==
  ASSUME StateOK, CallInv, Start, UNCHANGED settings
  PROVE  CallInv'
<1>1. /\ main'.pc = "resume" /\ ~stop'.cancel
      /\ \A d \in Events : Pool(d)' = "idle" /\ Main(d)' = "idle"
      /\ \A d \in Events : mem'[d] = IF d \in jobs' THEN "pending" ELSE "none"
      /\ ~settings.gif => jobs' = {}
  BY DEF Start, AllIdle, NoStop, Pool, Main, Runners
<1>2. \A d \in jobs' : task'[d].status = "pending"
  <2>1. ASSUME NEW d \in jobs' PROVE task'[d].status = "pending"
    <3>1. d \in Events /\ task[d].status \in Incomplete /\ settings.gif
      BY <2>1 DEF Start
    <3>2. task[d] \in TaskRow /\ task'[d] = [task[d] EXCEPT !.status = "pending"]
      BY <3>1 DEF Start, StateOK
    <3>. QED
      BY <3>2 DEF TaskRow
  <2>. QED
    BY <2>1
<1>3. PoolCalls'
  BY <1>1 DEF PoolCalls, Busy, Waits, Encodes
<1>4. MainCalls'
  BY <1>1 DEF MainCalls, Busy, Waits, Encodes, MainIdle, Main, Ending
<1>5. PendingOpen' /\ JobsAccepted' /\ FutureHasJob'
  BY <1>1, <1>2 DEF PendingOpen, JobsAccepted, FutureHasJob, MainIdle, Main, Pool, Final
<1>. QED
  BY <1>3, <1>4, <1>5 DEF CallInv

\* The calls that the main thread makes itself.
LEMMA MainJobCalls ==
  ASSUME StateOK, HandHasRow, CallInv, UNCHANGED settings,
         (\E e \in Events : TakeJob(e) \/ JobReturns(e)) \/ ResumeDone
  PROVE  CallInv'
<1>1. /\ main \in MainState /\ at \in [Runners -> [Events -> Places]]
      /\ jobs \subseteq Events /\ "main" \in Runners
  BY DEF StateOK, Runners
<1>2. ASSUME NEW e \in Events, TakeJob(e), mem[e] # "pending" PROVE CallInv'
  <2>1. UNCHANGED <<task, video, at, mem, jobs, settings, stop>>
    BY <1>2 DEF TakeJob, durable, world
  <2>2. main'.pc = main.pc /\ main'.hand = main.hand /\ main.pc # "accept"
    BY <1>1, <1>2 DEF TakeJob, MainState
  <2>3. \A d \in Events : Covered(d) => Covered(d)'
    BY <2>1 DEF Covered
  <2>. QED
    BY <1>1, <2>1, <2>2, <2>3, QuietCalls
<1>3. ASSUME NEW e \in Events, (TakeJob(e) /\ mem[e] = "pending") \/ JobReturns(e)
      PROVE  CallInv'
  <2>1. UNCHANGED <<task, video, mem, jobs, settings, stop>>
    BY <1>3 DEF TakeJob, JobReturns, durable, world
  <2>2. main'.pc = main.pc /\ main'.hand = main.hand /\ main.pc \in {"resume", "final"}
    BY <1>1, <1>3 DEF TakeJob, JobReturns, MainState
  <2>3. \A d \in Events : /\ Pool(d)' = Pool(d)
                          /\ Main(d)' = Main(d) \/ Main(d)' \in {"check", "idle"}
                          /\ Main(d)' # Main(d) => d = e
    BY <1>1, <1>3 DEF TakeJob, JobReturns, Return, Pool, Main, Runners
  <2>4. settings.gif
    <3>1. CASE TakeJob(e) /\ mem[e] = "pending"
      BY <3>1 DEF CallInv, JobsAccepted
    <3>2. CASE JobReturns(e)
      BY <3>2 DEF JobReturns, CallInv, JobsAccepted, MainIdle
    <3>. QED
      BY <1>3, <3>1, <3>2
  <2>5. Main(e)' = "check" => mem[e] = "pending"
    BY <1>1, <1>3 DEF TakeJob, JobReturns, Return, Main
  <2>6. PoolCalls'
    BY <2>1, <2>2, <2>3 DEF CallInv, PoolCalls, Covered
  <2>7. MainCalls'
    <3>1. PoolIdle' = PoolIdle
      BY <2>3 DEF PoolIdle, Pool
    <3>2. \A d \in Events : Main(d)' \in Waits => Main(d) \in Waits \/ mem[d] = "pending"
      BY <2>3, <2>5 DEF Waits
    <3>. QED
      BY <2>1, <2>2, <2>3, <3>1, <3>2 DEF CallInv, MainCalls, Encodes, Waits
  <2>8. PendingOpen' /\ JobsAccepted'
    BY <2>1, <2>2, <2>4 DEF CallInv, PendingOpen, JobsAccepted
  <2>9. FutureHasJob'
    BY <2>1, <2>3 DEF CallInv, FutureHasJob, Pool
  <2>. QED
    BY <2>6, <2>7, <2>8, <2>9 DEF CallInv
<1>4. CASE ResumeDone
  <2>1. /\ UNCHANGED <<task, mem, at, stop, settings>> /\ main.pc = "resume" /\ main'.pc = "top"
        /\ MainIdle /\ jobs' \subseteq jobs
    BY <1>1, <1>4 DEF ResumeDone, durable, Goto, MainState, Kept
  <2>2. \A d \in Events : Pool(d)' = "idle" /\ Main(d)' = "idle"
    BY <2>1 DEF CallInv, MainCalls, MainIdle, Pool, Main
  <2>3. ~stop'.cancel
    BY <2>1 DEF CallInv, MainCalls, Ending
  <2>4. PoolCalls'
    BY <2>2 DEF PoolCalls, Busy, Waits, Encodes
  <2>5. MainCalls'
    BY <2>1, <2>2, <2>3 DEF MainCalls, Waits, Encodes, MainIdle, Main, Ending
  <2>6. PendingOpen'
    BY <2>1 DEF CallInv, PendingOpen, Working, Running
  <2>7. JobsAccepted'
    BY <2>1, <2>2 DEF CallInv, JobsAccepted, MainIdle, Main
  <2>8. FutureHasJob'
    BY <2>2 DEF FutureHasJob, Pool
  <2>. QED
    BY <2>4, <2>5, <2>6, <2>7, <2>8 DEF CallInv
<1>. QED
  BY <1>2, <1>3, <1>4

\* New events become tasks, and their jobs enter memory.
LEMMA IntakeCalls ==
  ASSUME StateOK, HandHasRow, CallInv, UNCHANGED settings,
         (\E e \in Events : Discover(e)) \/ Accept \/ MarkDefaultGifDisabled
  PROVE  CallInv'
<1>1. /\ main \in MainState /\ task \in [Events -> TaskRow] /\ jobs \subseteq Events
      /\ mem \in [Events -> {"none"} \cup Incomplete \cup Final]
  BY DEF StateOK
<1>2. main.pc \in Handling /\ UNCHANGED <<at, stop, video, settings>>
  BY DEF Discover, Accept, MarkDefaultGifDisabled, ForIntake, world, Handling
<1>3. /\ main.pc \in Working /\ ~stop.cancel /\ main.pc \notin {"resume", "down", "final", "closed"}
      /\ MainIdle
  BY <1>2 DEF Handling, Working, Running, LoopPCs, CallInv, MainCalls, Ending
<1>4. main'.pc \in Handling
  BY <1>1, <1>2 DEF Discover, Accept, MarkDefaultGifDisabled, Goto, MainState, Handling
<1>5. /\ \A d \in Events : Pool(d)' = Pool(d) /\ Main(d)' = Main(d) /\ Main(d) = "idle"
      /\ MainIdle'
  BY <1>2, <1>3 DEF Pool, Main, MainIdle
<1>6. MainCalls'
  BY <1>2, <1>3, <1>4, <1>5 DEF MainCalls, Handling, Waits, Encodes, Ending
<1>7. ASSUME NEW e \in Events, Pool(e) = "idle", jobs \subseteq jobs',
             \A d \in Events \ {e} : task'[d] = task[d] /\ mem'[d] = mem[d]
      PROVE  PoolCalls' /\ FutureHasJob'
  <2>1. PoolCalls'
    BY <1>2, <1>3, <1>4, <1>5, <1>7 DEF CallInv, PoolCalls, Covered, Waits, Encodes, Busy, Handling,
       Working, Running, LoopPCs
  <2>2. FutureHasJob'
    BY <1>5, <1>7 DEF CallInv, FutureHasJob, Pool
  <2>. QED
    BY <2>1, <2>2
<1>8. ASSUME NEW e \in Events, Discover(e), task[e].status = "none" PROVE CallInv'
  <2>1. /\ UNCHANGED <<jobs, mem>>
        /\ task' = [task EXCEPT ![e] = [NoRow EXCEPT !.status = "discovered"]]
        /\ main' = [main EXCEPT !.pc = "accept", !.hand = e]
    BY <1>8 DEF Discover
  <2>2. /\ task'[e].status = "discovered" /\ \A d \in Events \ {e} : task'[d] = task[d]
        /\ main'.pc = "accept" /\ main'.hand = e
    BY <1>1, <2>1 DEF NoRow, MainState
  <2>3. e \notin jobs /\ Pool(e) = "idle"
    BY <1>8 DEF CallInv, JobsAccepted, FutureHasJob, Pool
  <2>4. PoolCalls' /\ FutureHasJob'
    BY <1>7, <2>1, <2>2, <2>3
  <2>5. PendingOpen'
    BY <1>3, <2>1, <2>2 DEF CallInv, PendingOpen, Final
  <2>6. JobsAccepted'
    BY <1>1, <1>2, <1>5, <2>1, <2>2, <2>3 DEF CallInv, JobsAccepted
  <2>. QED
    BY <1>6, <2>4, <2>5, <2>6 DEF CallInv
<1>9. ASSUME NEW e \in Events, Discover(e), task[e].status # "none" PROVE CallInv'
  <2>1. /\ UNCHANGED <<task, jobs, mem>> /\ main' = [main EXCEPT !.todo = @ \ {e}]
    BY <1>9 DEF Discover
  <2>2. main'.pc = main.pc /\ main'.hand = main.hand
    BY <1>1, <2>1 DEF MainState
  <2>3. /\ \A d \in Events : Covered(d) => Covered(d)'
        /\ main.pc = "accept" => main.hand \in Events
    BY <1>2, <2>1 DEF Covered, HandHasRow, Handling
  <2>. QED
    BY <1>1, <1>2, <2>1, <2>2, <2>3, QuietCalls
<1>10. CASE Accept
  <2> DEFINE e == main.hand
  <2>1. /\ e \in Events /\ task[e].status = "discovered" /\ main'.hand = e
        /\ main'.pc = IF settings.gif THEN "visual" ELSE "disable"
    BY <1>1, <1>10 DEF Accept, HandHasRow, Handling, CallInv, JobsAccepted, Goto, MainState
  <2>2. task'[e].status = "pending" /\ \A d \in Events \ {e} : task'[d] = task[d]
    BY <1>1, <1>10, <2>1 DEF Accept, TaskRow
  <2>3. /\ \A d \in Events \ {e} : mem'[d] = mem[d]
        /\ jobs' = IF settings.gif THEN jobs \cup {e} ELSE jobs
        /\ ~settings.gif => UNCHANGED mem
    BY <1>1, <1>10 DEF Accept
  <2>4. e \notin jobs /\ Pool(e) = "idle"
    BY <2>1 DEF CallInv, JobsAccepted, FutureHasJob, Pool
  <2> HIDE DEF e
  <2>5. PoolCalls' /\ FutureHasJob'
    BY <1>7, <2>1, <2>2, <2>3, <2>4
  <2>6. PendingOpen'
    BY <1>3, <2>2, <2>3 DEF CallInv, PendingOpen, Final
  <2>7. JobsAccepted'
    BY <1>1, <1>2, <1>5, <2>1, <2>2, <2>3 DEF CallInv, JobsAccepted
  <2>. QED
    BY <1>6, <2>5, <2>6, <2>7 DEF CallInv
<1>11. CASE MarkDefaultGifDisabled
  <2> DEFINE e == main.hand
  <2>1. /\ e \in Events /\ ~settings.gif /\ main'.pc = "visual" /\ UNCHANGED <<jobs, mem>>
    BY <1>1, <1>11 DEF MarkDefaultGifDisabled, HandHasRow, Handling, CallInv, JobsAccepted, MainState
  <2>2. \A d \in Events \ {e} : task'[d] = task[d]
    BY <1>1, <1>11, <2>1 DEF MarkDefaultGifDisabled
  <2>3. jobs = {} /\ Pool(e) = "idle" /\ \A d \in Events : mem[d] = "none"
    BY <2>1 DEF CallInv, JobsAccepted, FutureHasJob, Pool
  <2> HIDE DEF e
  <2>4. PoolCalls' /\ FutureHasJob'
    BY <1>7, <2>1, <2>2, <2>3
  <2>5. PendingOpen' /\ JobsAccepted'
    BY <1>2, <1>5, <2>1, <2>3 DEF PendingOpen, JobsAccepted
  <2>. QED
    BY <1>6, <2>4, <2>5 DEF CallInv
<1>. QED
  BY <1>8, <1>9, <1>10, <1>11

\* Submission and collection of futures, eviction of jobs, and pruning.
LEMMA WorkCalls ==
  ASSUME StateOK, HandHasRow, CallInv, UNCHANGED settings, Submit \/ Collect \/ Tidy
  PROVE  CallInv'
<1>1. /\ main \in MainState /\ task \in [Events -> TaskRow] /\ jobs \subseteq Events
      /\ at \in [Runners -> [Events -> Places]] /\ stop \in StopState
  BY DEF StateOK
<1>2. main.pc \in {"submit", "collect", "tidy"} /\ main'.pc \in {"collect", "tidy", "top", "fence"}
  BY <1>1 DEF Submit, Collect, Tidy, Goto, Leave, MainState
<1>3. /\ main.pc \in Working /\ ~stop.cancel /\ MainIdle /\ stop'.cancel = stop.cancel
  BY <1>1, <1>2 DEF Submit, Collect, Tidy, Leave, StopState, Working, Running, LoopPCs, CallInv,
         MainCalls, Ending
<1>4. /\ \A d \in Events : Main(d)' = Main(d) /\ Main(d) = "idle"
      /\ MainIdle'
  BY <1>1, <1>3 DEF Submit, Collect, CollectDone, Tidy, Main, MainIdle, Runners
<1>5. MainCalls'
  BY <1>2, <1>3, <1>4 DEF MainCalls, Waits, Encodes, Ending
<1>6. CASE Submit
  <2>1. UNCHANGED <<task, video, mem, jobs>>
    BY <1>6 DEF Submit, durable, world
  <2>2. \A d \in Events : \/ Pool(d)' = Pool(d)
                          \/ Pool(d)' = "check" /\ d \in jobs /\ mem[d] = "pending"
    BY <1>1, <1>6 DEF Submit, Pool, Runners
  <2>3. PoolCalls'
    BY <1>2, <1>3, <2>1, <2>2 DEF CallInv, PoolCalls, Covered, Busy, Encodes
  <2>4. PendingOpen' /\ JobsAccepted'
    BY <1>2, <1>3, <1>4, <2>1 DEF CallInv, PendingOpen, JobsAccepted
  <2>5. FutureHasJob'
    BY <2>1, <2>2 DEF CallInv, FutureHasJob, Pool
  <2>. QED
    BY <1>5, <2>3, <2>4, <2>5 DEF CallInv
<1>7. CASE Collect
  <2>1. UNCHANGED <<video, jobs>>
    BY <1>7 DEF Collect, world
  <2>2. \A d \in Events :
          /\ Pool(d) \notin Returned =>
               Pool(d)' = Pool(d) /\ task'[d] = task[d] /\ mem'[d] = mem[d]
          /\ Pool(d) \in Returned => Pool(d)' = "idle" /\ mem'[d] = task'[d].status
          /\ task'[d].status \in {"none", "discovered"} => task'[d] = task[d]
    BY <1>7, CollectCalls DEF Collect
  <2>3. PoolCalls'
    BY <1>2, <1>3, <2>1, <2>2 DEF CallInv, PoolCalls, Covered, Busy, Encodes, Waits
  <2>4. PendingOpen'
    BY <1>3, <2>2 DEF CallInv, PendingOpen, Final
  <2>5. JobsAccepted'
    <3>1. ~settings.gif => \A d \in Events : mem'[d] = "none"
      BY <2>2 DEF CallInv, JobsAccepted, FutureHasJob, Pool, Returned
    <3>. QED
      BY <1>1, <1>2, <1>4, <2>1, <2>2, <3>1 DEF CallInv, JobsAccepted
  <2>6. FutureHasJob'
    BY <2>1, <2>2 DEF CallInv, FutureHasJob, Pool
  <2>. QED
    BY <1>5, <2>3, <2>4, <2>5, <2>6 DEF CallInv
<1>8. CASE Tidy
  <2>1. UNCHANGED <<task, mem, at>> /\ jobs' = Kept(task, at)
    BY <1>8 DEF Tidy, durable
  <2>2. \A d \in Events : Pool(d)' = Pool(d)
    BY <2>1 DEF Pool
  <2>3. FutureHasJob'
    BY <2>1 DEF CallInv, FutureHasJob, Kept
  <2>4. \A d \in Events : Pool(d) \in Busy => video'[d] = video[d]
    <3>1. ASSUME NEW d \in Events, Pool(d) \in Busy PROVE video'[d] = video[d]
      <4>1. d \in Kept(task, at) /\ mem[d] \in {"pending", "encoding"}
        BY <1>3, <3>1 DEF CallInv, FutureHasJob, PoolCalls, Kept, Pool, Busy, Waits, Encodes
      <4>2. d \notin Prunable(Kept(task, at))
        BY <4>1 DEF Prunable
      <4>3. \/ UNCHANGED video
            \/ \E pruned \in {{}, Prunable(Kept(task, at))} :
                 video' = [c \in Events |-> IF c \in pruned THEN "gone" ELSE video[c]]
        BY <1>8 DEF Tidy
      <4>. QED
        BY <4>2, <4>3
    <3>. QED
      BY <3>1
  <2>5. PoolCalls'
    BY <1>2, <1>3, <2>1, <2>2, <2>4 DEF CallInv, PoolCalls, Covered
  <2>6. PendingOpen'
    BY <1>3, <2>1 DEF CallInv, PendingOpen
  <2>7. JobsAccepted'
    <3>1. jobs' \subseteq jobs
      BY <2>1 DEF Kept
    <3>. QED
      BY <1>2, <1>4, <2>1, <3>1 DEF CallInv, JobsAccepted
  <2>. QED
    BY <1>5, <2>3, <2>5, <2>6, <2>7 DEF CallInv
<1>. QED
  BY <1>6, <1>7, <1>8

\* The drain, the last collection and the report.
LEMMA ShutdownCalls ==
  ASSUME StateOK, HandHasRow, CallInv, UNCHANGED settings, DrainTimesOut \/ Gather \/ Report
  PROVE  CallInv'
<1>1. /\ main \in MainState /\ task \in [Events -> TaskRow] /\ jobs \subseteq Events
      /\ at \in [Runners -> [Events -> Places]] /\ stop \in StopState
  BY DEF StateOK
<1>2. CASE DrainTimesOut
  <2>1. /\ UNCHANGED <<task, video, mem, jobs, at>> /\ main.pc = "drain" /\ main'.pc = "cancelled"
        /\ stop'.cancel = TRUE
    BY <1>1, <1>2 DEF DrainTimesOut, ForShutdown, Goto, MainState, StopState
  <2>2. /\ \A d \in Events : Pool(d)' = Pool(d) /\ Main(d)' = "idle"
        /\ MainIdle'
    BY <2>1 DEF Pool, Main, MainIdle, CallInv, MainCalls
  <2>3. main.pc \in Working
    BY <2>1 DEF Working
  <2>4. PoolCalls' /\ PendingOpen' /\ FutureHasJob'
    BY <2>1, <2>2, <2>3 DEF CallInv, PoolCalls, Covered, PendingOpen, FutureHasJob
  <2>5. MainCalls' /\ JobsAccepted'
    BY <2>1, <2>2 DEF CallInv, MainCalls, JobsAccepted, Encodes, Waits, Ending
  <2>. QED
    BY <2>4, <2>5 DEF CallInv
<1>3. CASE Gather
  <2>1. /\ UNCHANGED <<video, stop>> /\ main.pc = "gather" /\ main'.pc = "final"
        /\ jobs' = jobs \ TerminalRows(task')
    BY <1>1, <1>3 DEF Gather, ForShutdown, MainState
  <2>2. \A d \in Events :
          /\ Main(d)' = Main(d)
          /\ Pool(d) \notin Returned =>
               Pool(d)' = Pool(d) /\ task'[d] = task[d] /\ mem'[d] = mem[d]
          /\ Pool(d) \in Returned => Pool(d)' = "idle" /\ mem'[d] = task'[d].status
          /\ task'[d].status \in {"none", "discovered"} => task'[d] = task[d]
    BY <1>3, CollectCalls DEF Gather
  <2>3. \A d \in Events : Main(d) = "idle"
    BY <2>1 DEF CallInv, MainCalls, MainIdle, Main
  <2>4. PoolCalls'
    BY <2>1, <2>2 DEF CallInv, PoolCalls, Covered, Busy, Encodes, Working, Running, LoopPCs
  <2>5. MainCalls'
    <3>1. ~stop.cancel => \A d \in Events : Pool(d)' = "idle"
      BY <2>1, <2>2 DEF CallInv, MainCalls, PoolIdle, Pool
    <3>. QED
      BY <2>1, <2>2, <2>3, <3>1 DEF CallInv, MainCalls, Encodes, Waits, Ending
  <2>6. PendingOpen'
    BY <2>1 DEF PendingOpen, Working, Running, LoopPCs
  <2>7. JobsAccepted'
    <3>1. ~settings.gif => \A d \in Events : mem'[d] = "none"
      BY <2>2 DEF CallInv, JobsAccepted, FutureHasJob, Pool, Returned
    <3>2. MainIdle'
      BY <2>2, <2>3 DEF MainIdle, Main
    <3>. QED
      BY <1>1, <2>1, <2>2, <3>1, <3>2 DEF CallInv, JobsAccepted
  <2>8. FutureHasJob'
    <3>1. ASSUME NEW d \in Events, Pool(d)' # "idle" PROVE d \in jobs'
      <4>1. Pool(d) \in {"check"} \cup Busy /\ d \in jobs /\ task'[d] = task[d]
        BY <1>1, <2>2, <3>1 DEF CallInv, FutureHasJob, Pool, Places, Runners
      <4>2. task[d].status \notin Final
        BY <2>1, <4>1 DEF CallInv, PoolCalls, PendingOpen, Busy, Waits, Encodes, Working, Final
      <4>. QED
        BY <2>1, <4>1, <4>2 DEF TerminalRows
    <3>. QED
      BY <3>1 DEF FutureHasJob, Pool
  <2>. QED
    BY <2>4, <2>5, <2>6, <2>7, <2>8 DEF CallInv
<1>4. CASE Report
  <2>1. /\ UNCHANGED <<video, at, jobs>> /\ main.pc = "final" /\ main'.pc = "closing" /\ MainIdle
        /\ stop'.cancel = stop.cancel
    BY <1>1, <1>4 DEF Report, ForShutdown, Goto, MainState, StopState
  <2>2. \A d \in Events :
          /\ task'[d] = task[d] \/ /\ task[d].status = "pending" /\ task'[d].status = "failed"
                                   /\ task'[d].wait = task[d].wait /\ task'[d].late = task[d].late
          /\ mem'[d] = mem[d] \/ d \in jobs
    <3>1. \A d \in Events : LET row == [task[d] EXCEPT !.status = "failed"]
                            IN /\ row.status = "failed"
                               /\ row.wait = task[d].wait /\ row.late = task[d].late
      BY <1>1 DEF TaskRow
    <3>2. \A d \in Events : /\ \/ task'[d] = task[d]
                               \/ /\ task'[d] = [task[d] EXCEPT !.status = "failed"]
                                  /\ task[d].status = "pending"
                            /\ mem'[d] = mem[d] \/ d \in jobs
      BY <1>4 DEF Report
    <3>. QED
      BY <3>1, <3>2
  <2>3. /\ \A d \in Events : Pool(d)' = Pool(d) /\ Main(d)' = "idle"
        /\ MainIdle'
    BY <2>1 DEF Pool, Main, MainIdle
  <2>4. PoolCalls'
    BY <2>1, <2>2, <2>3 DEF CallInv, PoolCalls, Covered, Working, Running, LoopPCs
  <2>5. MainCalls'
    BY <2>1, <2>3 DEF CallInv, MainCalls, Encodes, Waits, Ending
  <2>6. PendingOpen'
    BY <2>1 DEF PendingOpen, Working, Running, LoopPCs
  <2>7. JobsAccepted'
    BY <1>1, <2>1, <2>2, <2>3 DEF CallInv, JobsAccepted
  <2>8. FutureHasJob'
    BY <2>1 DEF CallInv, FutureHasJob
  <2>. QED
    BY <2>4, <2>5, <2>6, <2>7, <2>8 DEF CallInv
<1>. QED
  BY <1>2, <1>3, <1>4

\* What is known of the calls holds in every state, whatever goes wrong.
THEOREM CallsHold == Spec => [](WorkerInv /\ CallInv)
<1>1. Init => CallInv
  <2> SUFFICES ASSUME Init PROVE CallInv
    OBVIOUS
  <2>1. /\ main.pc = "down" /\ jobs = {} /\ ~stop.cancel
        /\ \A d \in Events : Pool(d) = "idle" /\ Main(d) = "idle" /\ mem[d] = "none"
    BY DEF Init, Stopped, AllIdle, NoStop, Pool, Main, Runners
  <2>2. PoolCalls
    BY <2>1 DEF PoolCalls, Busy, Waits, Encodes
  <2>3. MainCalls
    BY <2>1 DEF MainCalls, Busy, Waits, Encodes, MainIdle, Main, Ending
  <2>4. PendingOpen /\ JobsAccepted /\ FutureHasJob
    BY <2>1 DEF PendingOpen, JobsAccepted, FutureHasJob, MainIdle, Main, Pool
  <2>. QED
    BY <2>2, <2>3, <2>4 DEF CallInv
<1>2. WorkerInv /\ CallInv /\ [Next]_vars => CallInv'
  <2>1. CallInv /\ UNCHANGED vars => CallInv'
    BY DEF CallInv, PoolCalls, MainCalls, PendingOpen, JobsAccepted, FutureHasJob, Covered,
           MainIdle, PoolIdle, Pool, Main, vars, durable, world, memory
  <2>2. SUFFICES ASSUME WorkerInv, CallInv, Next PROVE CallInv'
    BY <2>1
  <2>3. StateOK /\ HandHasRow /\ UNCHANGED settings
    BY <2>2 DEF WorkerInv, Next, Step
  <2>4. CASE MainStep
    <3>1. CASE Exit \/ MainRaises
      BY <3>1, VanishCalls DEF Exit, MainRaises
    <3>. QED
      BY <2>2, <2>3, <2>4, <3>1, StartCalls, MainJobCalls, PassCalls, IntakeCalls, WorkCalls,
         ShutdownCalls DEF MainStep
  <2>5. CASE Environment
    <3>1. CASE Crash
      BY <3>1, VanishCalls DEF Crash
    <3>. QED
      BY <2>2, <2>3, <2>5, <3>1, WorldCalls DEF Environment
  <2>6. CASE Reconnect
    BY <2>2, <2>3, <2>6, PassCalls
  <2>7. ASSUME NEW r \in Runners, NEW e \in Events, EncodeStep(r, e) PROVE CallInv'
    BY <2>2, <2>3, <2>7, EncodeStepCalls
  <2>. QED
    BY <2>2, <2>4, <2>5, <2>6, <2>7 DEF Next, Step
<1>. QED
  BY <1>1, <1>2, InvariantHolds, PTL DEF Spec

\* Never two encoders of one event, and the store knows of the one there is:
\* the main thread encodes only while no thread of the pool can.
THEOREM EncodersRecordedHolds == Spec => []EncodersRecorded
<1>1. CallInv => EncodersRecorded
  <2> SUFFICES ASSUME CallInv, NEW e \in Events
               PROVE  LET encoding == {r \in Runners : at[r][e] \in {"encode", "record"}}
                      IN /\ Cardinality(encoding) <= 1
                         /\ encoding # {} => task[e].status = "encoding"
    BY DEF EncodersRecorded
  <2> DEFINE encoding == {r \in Runners : at[r][e] \in {"encode", "record"}}
  <2>1. ~(Pool(e) \in Encodes /\ Main(e) \in Encodes)
    BY DEF CallInv, MainCalls, MainIdle, Main, Pool, Ending, Encodes
  <2>2. \E r \in Runners : encoding = {} \/ encoding = {r}
    BY <2>1 DEF Runners, Encodes, Pool, Main
  <2>3. Cardinality(encoding) <= 1
    BY <2>2, FS_EmptySet, FS_Singleton
  <2>4. encoding # {} => task[e].status = "encoding"
    BY DEF CallInv, PoolCalls, MainCalls, Runners, Encodes, Pool, Main
  <2>. QED
    BY <2>3, <2>4
<1>. QED
  BY <1>1, CallsHold, PTL

\* collect_done finds the job of every future it collects: eviction never
\* outruns collection.
THEOREM FutureHasJobHolds == Spec => []FutureHasJob
<1>1. CallInv => FutureHasJob
  BY DEF CallInv
<1>. QED
  BY <1>1, CallsHold, PTL

-------------------------------------------------------------------------------
(***************************************************************************)
(* A drain that ends in "completed": why the run has settled everything.   *)
(* A failed release of a slot is left out: it leaves a row "encoding" that *)
(* no call encodes, while its job is pending again.                        *)
(***************************************************************************)

\* While the process runs, a row that is being encoded has a call that encodes it.
EncodingTracked ==
  main.pc \in Running =>
     \A e \in Events :
        /\ task[e].status = "encoding" => Pool(e) \in Encodes \/ Main(e) \in Encodes
        /\ mem[e] = "encoding" => task[e].status = "encoding"

AllSettled ==
  /\ \A e \in Events : /\ task[e].status \notin Incomplete /\ visual[e] # "open"
                       /\ Pool(e) = "idle" /\ Main(e) = "idle"
  /\ \A e \in jobs : mem[e] # "pending"

\* The stream of a graceful stop is ended once everything is settled, or when
\* time is up; a run is "match_played" in the first case only.
DrainPhases ==
  /\ stop.timedOut => stop.ingestStopped
  /\ stop.ingestStopped => stop.begun
  /\ main.pc \in (LoopPCs \ {"top"}) \cup {"resume", "down"} => ~stop.ingestStopped
  /\ stop.ingestStopped /\ ~stop.timedOut => AllSettled
  /\ stop.reason = "match_played" =>
        stop.ingestStopped /\ ~stop.timedOut /\ main.pc \notin LoopPCs \cup {"resume", "down"}
  /\ stop.completion = "completed" =>
        stop.reason = "match_played" /\ main.pc \in {"closing", "closed"}
  /\ main.pc = "final" => main.todo \subseteq jobs

DrainInv == EncodingTracked /\ DrainPhases

\* Time, the stream and the visual pool leave the status of every row.
LEMMA WorldStatuses ==
  ASSUME StateOK,
         \/ \E e \in Events : \/ FeedAdds(e) \/ VideoArrives(e) \/ RetryDue(e)
                              \/ DeadlinePasses(e) \/ VisualSettles(e)
         \/ IngestDies \/ RequestStop \/ StopClock
  PROVE  \A d \in Events : task'[d].status = task[d].status
<1>1. task \in [Events -> TaskRow]
  BY DEF StateOK
<1>2. ASSUME NEW e \in Events, RetryDue(e) PROVE \A d \in Events : task'[d].status = task[d].status
  BY <1>1, <1>2 DEF RetryDue, TaskRow
<1>3. ASSUME NEW e \in Events, DeadlinePasses(e)
      PROVE  \A d \in Events : task'[d].status = task[d].status
  BY <1>1, <1>3 DEF DeadlinePasses, TaskRow
<1>4. ASSUME \/ \E e \in Events : FeedAdds(e) \/ VideoArrives(e) \/ VisualSettles(e)
             \/ IngestDies \/ RequestStop \/ StopClock
      PROVE  UNCHANGED task
  BY <1>4 DEF FeedAdds, VideoArrives, VisualSettles, IngestDies, RequestStop, StopClock, durable
<1>. QED
  BY <1>2, <1>3, <1>4

\* A call that ends has ended the row it encoded.
LEMMA EncodeStepTracked ==
  ASSUME WorkerInv, EncodingTracked, "release" \notin Mishaps,
         NEW r \in Runners, NEW e \in Events, EncodeStep(r, e)
  PROVE  EncodingTracked'
<1>1. StateOK /\ (main.pc \in Running => stop.storeOpen)
  BY DEF WorkerInv, WorkTracked
<1>2. task[e] \in TaskRow
  BY <1>1 DEF StateOK
<1>3. /\ [task[e] EXCEPT !.status = "failed"].status = "failed"
      /\ [task[e] EXCEPT !.status = "encoded"].status = "encoded"
      /\ [task[e] EXCEPT !.status = "encoding"].status = "encoding"
  BY <1>2 DEF TaskRow
<1>4. /\ UNCHANGED <<main, stop>>
      /\ \A q \in Runners, d \in Events : q # r \/ d # e => at'[q][d] = at[q][d]
      /\ \A d \in Events \ {e} : task'[d] = task[d] /\ mem'[d] = mem[d]
      /\ at'[r][e] \in Busy \cup Returned
  BY <1>1, CallEffect
<1>5. SUFFICES ASSUME main.pc \in Running
               PROVE  /\ task'[e].status = "encoding" =>
                           \E q \in Runners : at'[q][e] \in Encodes
                      /\ mem'[e] = "encoding" => task'[e].status = "encoding"
  BY <1>4 DEF EncodingTracked, Pool, Main, Runners
<1>6. /\ task[e].status = "encoding" => \E q \in Runners : at[q][e] \in Encodes
      /\ mem[e] = "encoding" => task[e].status = "encoding"
  BY <1>5 DEF EncodingTracked, Pool, Main, Runners
<1>7. CASE at'[r][e] \in {"slot", "held"}
  <2>1. task'[e] = task[e] /\ mem'[e] = mem[e] /\ at[r][e] \notin Encodes
    BY <1>1, <1>7, CallEffect DEF Waits, Encodes
  <2>. QED
    BY <1>4, <1>6, <2>1
<1>8. CASE at'[r][e] \in Encodes
  BY <1>1, <1>3, <1>6, <1>8, CallEffect
<1>9. CASE at'[r][e] \in Returned
  <2>1. ASSUME task'[e].status = task[e].status, at[r][e] \in Encodes
        PROVE  task[e].status # "encoding"
    <3>1. MayBecome("encoding", "failed") /\ stop.storeOpen
      BY <1>1, <1>5 DEF MayBecome
    <3>. QED
      BY <1>1, <1>3, <1>9, <2>1, <3>1, CallEffect DEF Encodes
  <2>2. mem'[e] = "encoding" => task'[e].status = "encoding"
    BY <1>1, <1>6, <1>9, CallEffect
  <2>3. task'[e].status \in {task[e].status, "failed", "encoded"}
    BY <1>1, <1>3, <1>9, CallEffect
  <2>. QED
    BY <1>4, <1>6, <2>1, <2>2, <2>3
<1>. QED
  BY <1>4, <1>7, <1>8, <1>9 DEF Busy, Encodes

\* Every other step keeps track of the rows that are being encoded.
LEMMA StepTracked ==
  ASSUME WorkerInv, CallInv, EncodingTracked, "release" \notin Mishaps, Next
  PROVE  EncodingTracked'
<1>1. /\ main \in MainState /\ task \in [Events -> TaskRow] /\ stop \in StopState
      /\ mem \in [Events -> {"none"} \cup Incomplete \cup Final]
      /\ at \in [Runners -> [Events -> Places]] /\ StateOK
  BY DEF WorkerInv, StateOK
<1>2. ASSUME main.pc \in Running, UNCHANGED mem,
             \A d \in Events : /\ task'[d].status = task[d].status
                               /\ Pool(d) \in Encodes => Pool(d)' = Pool(d)
                               /\ Main(d) \in Encodes => Main(d)' = Main(d)
      PROVE  EncodingTracked'
  BY <1>2 DEF EncodingTracked
<1>3. CASE main'.pc \notin Running
  BY <1>3 DEF EncodingTracked
<1>4. ASSUME NEW r \in Runners, NEW e \in Events, EncodeStep(r, e) PROVE EncodingTracked'
  BY <1>4, EncodeStepTracked
<1>5. CASE Start
  <2>1. ASSUME NEW e \in Events PROVE task'[e].status # "encoding" /\ mem'[e] # "encoding"
    <3>1. CASE task[e].status \in Incomplete
      BY <1>1, <1>5, <3>1 DEF Start, TaskRow
    <3>2. CASE task[e].status \notin Incomplete
      BY <1>5, <3>2 DEF Start, Incomplete
    <3>. QED
      BY <3>1, <3>2
  <2>. QED
    BY <2>1 DEF EncodingTracked
<1>6. ASSUME NEW e \in Events, TakeJob(e) \/ JobReturns(e), main'.pc \in Running
      PROVE  EncodingTracked'
  <2>1. UNCHANGED <<task, mem>> /\ main'.pc = main.pc
    BY <1>1, <1>6 DEF TakeJob, JobReturns, durable, MainState
  <2>2. \A d \in Events : /\ Pool(d)' = Pool(d)
                          /\ Main(d) \in Encodes => Main(d)' = Main(d)
    BY <1>1, <1>6 DEF TakeJob, JobReturns, Return, MainIdle, Pool, Main, Runners, Encodes
  <2>. QED
    BY <1>2, <1>6, <2>1, <2>2
<1>7. CASE (\E e \in Events : Discover(e)) \/ Accept
  <2>1. main.pc \in Running /\ UNCHANGED at
    BY <1>7 DEF Discover, Accept, ForIntake, Running, LoopPCs
  <2>2. ASSUME NEW e \in Events
        PROVE  /\ task'[e].status = task[e].status \/ task'[e].status \in {"discovered", "pending"}
               /\ mem'[e] = mem[e] \/ mem'[e] = "pending"
               /\ mem'[e] = "encoding" => task'[e].status = task[e].status
    <3>1. ASSUME NEW d \in Events, Discover(d)
          PROVE  /\ UNCHANGED mem
                 /\ task'[e] = task[e] \/ /\ task[e].status = "none"
                                          /\ task'[e].status = "discovered"
      BY <1>1, <3>1 DEF Discover, NoRow
    <3>2. CASE Accept
      <4>1. /\ main.hand \in Events /\ task[main.hand].status = "discovered"
        BY <3>2 DEF Accept, WorkerInv, HandHasRow, Handling, CallInv, JobsAccepted
      <4>2. e # main.hand => task'[e] = task[e] /\ mem'[e] = mem[e]
        BY <1>1, <3>2 DEF Accept
      <4>3. e = main.hand => task'[e].status = "pending" /\ mem'[e] \in {mem[e], "pending"}
        BY <1>1, <3>2, <4>1 DEF Accept, TaskRow
      <4>. QED
        BY <2>1, <4>1, <4>2, <4>3 DEF EncodingTracked
    <3>. QED
      BY <1>7, <2>1, <3>1, <3>2 DEF EncodingTracked
  <2>. QED
    BY <2>1, <2>2 DEF EncodingTracked, Pool, Main
<1>8. CASE MarkDefaultGifDisabled
  <2>1. /\ main.hand \in Events /\ UNCHANGED <<at, mem>> /\ main.pc \in Running
        /\ \A d \in Events : mem[d] = "none"
    BY <1>8 DEF MarkDefaultGifDisabled, WorkerInv, HandHasRow, Handling, ForIntake, CallInv,
                JobsAccepted, Running, LoopPCs
  <2>2. \A d \in Events : task'[d] = task[d] \/ task'[d].status = "failed"
    BY <1>1, <1>8, <2>1 DEF MarkDefaultGifDisabled, TaskRow
  <2>. QED
    BY <2>1, <2>2 DEF EncodingTracked, Pool, Main
<1>9. CASE Submit
  <2>1. \A d \in Events : Main(d)' = Main(d) /\ (Pool(d) \in Encodes => Pool(d)' = Pool(d))
    BY <1>1, <1>9 DEF Submit, Pool, Main, Runners, Encodes
  <2>2. main.pc \in Running /\ UNCHANGED <<task, mem>>
    BY <1>9 DEF Submit, durable, Running, LoopPCs
  <2>. QED
    BY <1>2, <2>1, <2>2
<1>10. CASE Collect
  <2>1. main.pc \in Running /\ MainIdle /\ main.pc = "collect"
    BY <1>10 DEF Collect, Running, LoopPCs, CallInv, MainCalls
  <2>2. ASSUME NEW d \in Events
        PROVE  /\ task'[d].status = "encoding" => Pool(d)' \in Encodes
               /\ mem'[d] = "encoding" => task'[d].status = "encoding"
    <3>1. /\ Pool(d) \notin Returned =>
               Pool(d)' = Pool(d) /\ task'[d] = task[d] /\ mem'[d] = mem[d]
          /\ Pool(d) \in Returned =>
               /\ mem'[d] = task'[d].status
               /\ task'[d] = task[d] \/ task'[d].status = "failed"
      BY <1>1, <1>10, CollectCalls DEF Collect
    <3>2. /\ task[d].status = "encoding" => Pool(d) \in Encodes
          /\ mem[d] = "encoding" => task[d].status = "encoding"
      BY <2>1 DEF EncodingTracked, MainIdle, Main, Encodes
    <3>. QED
      BY <3>1, <3>2 DEF Returned, Encodes
  <2>. QED
    BY <2>2 DEF EncodingTracked
<1>11. CASE \/ ResumeDone \/ NoticeStop \/ ObserveExit \/ GraceTimeout \/ PollNothing \/ Poll
            \/ EnqueueVisual \/ RememberSnapshot \/ Tidy \/ Reconnect
  <2>1. UNCHANGED <<task, mem, at>> /\ main.pc \in Running
    BY <1>11 DEF ResumeDone, NoticeStop, ObserveExit, GraceTimeout, PollNothing, Poll, EnqueueVisual,
         RememberSnapshot, Tidy, Reconnect, ForTop, ForIntake, durable, AtTop, CanPoll, Running,
         LoopPCs
  <2>. QED
    BY <1>2, <2>1 DEF Pool, Main
<1>12. CASE \/ Fence \/ Drained \/ DrainTimesOut \/ Gather \/ Report \/ Close \/ Exit
            \/ MainRaises \/ CancelTimesOut \/ Crash \/ Interrupt
  <2>1. CASE Exit \/ MainRaises \/ Crash
    BY <1>3, <2>1 DEF Exit, MainRaises, Crash, Vanish, Stopped, Running, LoopPCs
  <2>2. CASE Fence \/ Drained \/ DrainTimesOut \/ Close \/ CancelTimesOut \/ Report
    <3>1. main'.pc \in {"drain", "gather", "cancelled", "closing", "closed"}
      BY <1>1, <2>2 DEF Fence, Drained, DrainTimesOut, Report, Close, CancelTimesOut, Goto,
                        MainState
    <3>. QED
      BY <1>3, <3>1 DEF Running, LoopPCs
  <2>3. CASE Gather \/ Interrupt
    <3>1. main'.pc \in {"final", "fence"}
      BY <1>1, <2>3 DEF Gather, Interrupt, Leave, Goto, MainState
    <3>. QED
      BY <1>3, <3>1 DEF Running, LoopPCs
  <2>. QED
    BY <1>12, <2>1, <2>2, <2>3
<1>13. CASE \/ \E e \in Events : \/ FeedAdds(e) \/ VideoArrives(e) \/ RetryDue(e)
                                 \/ DeadlinePasses(e) \/ VisualSettles(e)
            \/ IngestDies \/ RequestStop \/ StopClock
  <2>1. UNCHANGED <<main, mem, at>>
    BY <1>13 DEF FeedAdds, VideoArrives, RetryDue, DeadlinePasses, VisualSettles, IngestDies,
         RequestStop, StopClock, memory
  <2>2. \A d \in Events : task'[d].status = task[d].status
    BY <1>1, <1>13, WorldStatuses
  <2>. QED
    BY <1>2, <1>3, <2>1, <2>2 DEF Pool, Main
<1>. QED
  BY <1>3, <1>4, <1>5, <1>6, <1>7, <1>8, <1>9, <1>10, <1>11, <1>12, <1>13
     DEF Next, Step, MainStep, Environment

\* What the shutdown knows of a drain outlives the steps that leave the decision alone.
LEMMA PhasesQuiet ==
  ASSUME DrainPhases,
         stop'.timedOut = stop.timedOut, stop'.ingestStopped = stop.ingestStopped,
         stop'.begun = stop.begun, stop'.reason = stop.reason,
         stop'.completion = stop.completion,
         \/ main'.pc = main.pc
         \/ /\ main'.pc \notin LoopPCs \cup {"resume", "down"}
            /\ main.pc \in {"closing", "closed"} => main'.pc \in {"closing", "closed"},
         main'.pc = "final" => main'.todo \subseteq jobs',
         stop.ingestStopped /\ ~stop.timedOut => AllSettled'
  PROVE  DrainPhases'
  BY DEF DrainPhases

\* Before the decision there is nothing to know.
LEMMA PhasesUndecided ==
  ASSUME DrainPhases, ~stop'.timedOut, ~stop'.ingestStopped,
         stop'.reason = stop.reason, stop'.completion = stop.completion,
         ~stop.ingestStopped, main'.pc # "final"
  PROVE  DrainPhases'
  BY DEF DrainPhases

\* Calls and time leave the decision alone.
LEMMA WorldPhases ==
  ASSUME WorkerInv, DrainPhases,
         \/ \E r \in Runners, e \in Events : EncodeStep(r, e)
         \/ \E e \in Events : \/ FeedAdds(e) \/ VideoArrives(e) \/ RetryDue(e)
                              \/ DeadlinePasses(e) \/ VisualSettles(e)
         \/ IngestDies \/ RequestStop \/ StopClock
  PROVE  DrainPhases'
<1>1. StateOK /\ stop \in StopState /\ visual \in [Events -> {"none", "open", "settled"}]
  BY DEF WorkerInv, StateOK
<1>2. ASSUME NEW r \in Runners, NEW e \in Events, EncodeStep(r, e) PROVE DrainPhases'
  <2>1. UNCHANGED <<main, stop, jobs>> /\ at[r][e] \in {"check"} \cup Busy
    BY <1>1, <1>2, CallEffect
  <2>2. ~AllSettled
    BY <2>1 DEF AllSettled, Pool, Main, Runners, Busy
  <2>. QED
    BY <2>1, <2>2, PhasesQuiet DEF DrainPhases
<1>3. CASE \/ \E e \in Events : \/ FeedAdds(e) \/ VideoArrives(e) \/ RetryDue(e)
                                \/ DeadlinePasses(e) \/ VisualSettles(e)
           \/ IngestDies \/ RequestStop \/ StopClock
  <2>1. UNCHANGED <<main, jobs, mem, at>>
    BY <1>3 DEF FeedAdds, VideoArrives, RetryDue, DeadlinePasses, VisualSettles, IngestDies,
         RequestStop, StopClock, memory
  <2>2. /\ stop'.timedOut = stop.timedOut /\ stop'.ingestStopped = stop.ingestStopped
        /\ stop'.begun = stop.begun /\ stop'.reason = stop.reason
        /\ stop'.completion = stop.completion
    BY <1>1, <1>3 DEF FeedAdds, VideoArrives, RetryDue, DeadlinePasses, VisualSettles, IngestDies,
         RequestStop, StopClock, memory, StopState
  <2>3. \A d \in Events : task'[d].status = task[d].status
    BY <1>1, <1>3, WorldStatuses
  <2>4. \A d \in Events : visual[d] # "open" => visual'[d] # "open"
    BY <1>1, <1>3 DEF FeedAdds, VideoArrives, RetryDue, DeadlinePasses, VisualSettles, IngestDies,
         RequestStop, StopClock, durable
  <2>5. AllSettled => AllSettled'
    BY <2>1, <2>3, <2>4 DEF AllSettled, Pool, Main
  <2>. QED
    BY <2>1, <2>2, <2>5, PhasesQuiet DEF DrainPhases
<1>. QED
  BY <1>2, <1>3

\* A process that starts or ends knows of no decision, and a pass decides
\* nothing before its end.
LEMMA PassPhases ==
  ASSUME WorkerInv, DrainPhases,
         \/ Start \/ (\E e \in Events : TakeJob(e) \/ JobReturns(e)) \/ ResumeDone
         \/ NoticeStop \/ Reconnect \/ PollNothing \/ Poll \/ (\E e \in Events : Discover(e))
         \/ Accept \/ MarkDefaultGifDisabled \/ EnqueueVisual \/ RememberSnapshot \/ Submit
         \/ Collect \/ Exit \/ MainRaises \/ Crash
  PROVE  DrainPhases'
<1>1. main \in MainState /\ stop \in StopState /\ jobs \subseteq Events
      /\ at \in [Runners -> [Events -> Places]]
  BY DEF WorkerInv, StateOK
<1>2. CASE Start \/ Exit \/ MainRaises \/ Crash
  <2>1. stop' = NoStop /\ main'.pc # "final"
    BY <1>2 DEF Start, Exit, MainRaises, Crash, Vanish, Stopped
  <2>. QED
    BY <2>1 DEF DrainPhases, NoStop
<1>3. CASE \/ ResumeDone \/ PollNothing \/ Poll \/ (\E e \in Events : Discover(e))
           \/ Accept \/ MarkDefaultGifDisabled \/ EnqueueVisual \/ RememberSnapshot \/ Submit
           \/ Collect
  <2>1. stop' = stop
    BY <1>3 DEF ResumeDone, PollNothing, Poll, Discover, Accept, MarkDefaultGifDisabled,
       EnqueueVisual, RememberSnapshot, Submit, Collect, ForTop, ForIntake
  <2>2. ~stop.ingestStopped
    BY <1>3 DEF ResumeDone, PollNothing, Poll, Discover, Accept, MarkDefaultGifDisabled,
       EnqueueVisual, RememberSnapshot, Submit, Collect, CanPoll, DrainPhases, LoopPCs
  <2>3. main'.pc # "final"
    BY <1>1, <1>3 DEF ResumeDone, PollNothing, Poll, Discover, Accept, MarkDefaultGifDisabled,
       EnqueueVisual, RememberSnapshot, Submit, Collect, Goto, MainState
  <2>. QED
    BY <2>1, <2>2, <2>3, PhasesUndecided DEF DrainPhases
<1>4. CASE NoticeStop \/ Reconnect
  <2>1. /\ ~stop.begun /\ UNCHANGED main /\ main.pc = "top"
        /\ stop'.timedOut = stop.timedOut /\ stop'.ingestStopped = stop.ingestStopped
        /\ stop'.reason = stop.reason /\ stop'.completion = stop.completion
    BY <1>1, <1>4 DEF NoticeStop, Reconnect, AtTop, StopState
  <2>. QED
    BY <2>1, PhasesUndecided DEF DrainPhases
<1>5. ASSUME NEW e \in Events, TakeJob(e) \/ JobReturns(e) PROVE DrainPhases'
  <2>1. UNCHANGED <<task, visual, jobs, mem, stop>> /\ main'.pc = main.pc
        /\ main'.todo \subseteq main.todo
    BY <1>1, <1>5 DEF TakeJob, JobReturns, durable, MainState
  <2>2. ASSUME AllSettled, main.pc = "final" PROVE AllSettled'
    <3>1. ~JobReturns(e)
      BY <2>2 DEF JobReturns, AllSettled, Main
    <3>2. UNCHANGED at
      BY <1>5, <2>2, <3>1 DEF TakeJob, AllSettled, DrainPhases
    <3>. QED
      BY <2>1, <2>2, <3>2 DEF AllSettled, Pool, Main
  <2>3. main.pc \in {"resume", "final"}
    BY <1>5 DEF TakeJob, JobReturns
  <2>4. main'.pc = "final" => main'.todo \subseteq jobs'
    BY <2>1 DEF DrainPhases
  <2>. QED
    BY <2>1, <2>2, <2>3, <2>4, PhasesQuiet DEF DrainPhases
<1>. QED
  BY <1>2, <1>3, <1>4, <1>5

\* A graceful stop ends the stream when nothing is left to do: each incomplete row
\* has a job that is pending or encoding, and neither is the case.
LEMMA ReadyMeansSettled ==
  ASSUME WorkerInv, CallInv, EncodingTracked, main.pc = "tidy", DrainReady(Kept(task, at))
  PROVE  AllSettled /\ \A e \in Kept(task, at) : mem[e] # "pending"
<1> DEFINE kept == Kept(task, at)
<1>1. /\ \A e \in Events : Pool(e) = "idle" /\ visual[e] # "open"
      /\ \A e \in kept : mem[e] # "pending"
  BY DEF DrainReady, Pool
<1>2. main.pc \in Running /\ \A e \in Events : Main(e) = "idle"
  BY DEF Running, LoopPCs, CallInv, MainCalls, MainIdle, Main
<1>3. \A e \in Events : mem[e] # "encoding"
  BY <1>1, <1>2 DEF EncodingTracked, Encodes
<1>4. \A e \in jobs : task[e].status \in Incomplete => e \in kept
  BY DEF Kept, Incomplete, Final
<1>5. \A e \in Events : task[e].status \notin Incomplete
  BY <1>1, <1>2, <1>3, <1>4 DEF WorkerInv, WorkTracked
<1>6. \A e \in jobs : mem[e] # "pending"
  <2>1. ASSUME NEW e \in jobs, mem[e] = "pending" PROVE FALSE
    <3>1. e \in Events /\ task[e] \in TaskRow /\ main.pc \in Working
      BY <1>2 DEF WorkerInv, StateOK, Working
    <3>2. task[e].status \notin Final /\ task[e].status # "none"
      BY <2>1, <3>1 DEF CallInv, PendingOpen, JobsAccepted
    <3>. QED
      BY <1>5, <3>1, <3>2 DEF TaskRow
  <2>. QED
    BY <2>1
<1>. QED
  BY <1>1, <1>2, <1>5, <1>6 DEF AllSettled

\* The decisions to end the stream, and the ways to leave the loop.
LEMMA DecisionPhases ==
  ASSUME WorkerInv, CallInv, DrainInv, ObserveExit \/ GraceTimeout \/ Tidy \/ Interrupt
  PROVE  DrainPhases'
<1>1. main \in MainState /\ stop \in StopState /\ DrainPhases /\ EncodingTracked
  BY DEF WorkerInv, StateOK, DrainInv
<1>2. ASSUME NEW s \in StopState, NEW reason \in Reasons, Leave(reason, s)
      PROVE  /\ main'.pc = "fence" /\ stop'.reason = reason
             /\ stop'.timedOut = s.timedOut /\ stop'.ingestStopped = s.ingestStopped
             /\ stop'.begun = s.begun /\ stop'.completion = s.completion
  BY <1>1, <1>2 DEF Leave, Goto, MainState, StopState
<1>3. main.pc \in LoopPCs /\ stop.completion # "completed" /\ stop.reason # "match_played"
  BY <1>1 DEF ObserveExit, GraceTimeout, Tidy, Interrupt, AtTop, LoopPCs, DrainPhases
<1>4. ASSUME UNCHANGED <<task, visual, jobs, mem, at>> PROVE AllSettled' = AllSettled
  BY <1>4 DEF AllSettled, Pool, Main
<1>5. CASE ObserveExit
  <2>1. UNCHANGED <<task, visual, jobs, mem, at>> /\ main.pc = "top"
    BY <1>5 DEF ObserveExit, ForTop, durable, AtTop
  <2>2. CASE UNCHANGED <<main, stop>>
    BY <1>1, <1>4, <2>1, <2>2, PhasesQuiet DEF DrainPhases
  <2>3. CASE /\ stop.begun /\ stop.ingestStopped
             /\ Leave(IF stop.timedOut THEN "match_played_stream_incomplete"
                                       ELSE "match_played", stop)
    <3>1. /\ main'.pc = "fence"
          /\ stop'.reason = IF stop.timedOut THEN "match_played_stream_incomplete"
                                             ELSE "match_played"
          /\ stop'.timedOut = stop.timedOut /\ stop'.ingestStopped = stop.ingestStopped
          /\ stop'.begun = stop.begun /\ stop'.completion = stop.completion
      BY <1>1, <1>2, <2>3 DEF Reasons, Graceful
    <3>. QED
      BY <1>1, <1>3, <1>4, <2>1, <2>3, <3>1 DEF DrainPhases, LoopPCs
  <2>4. CASE /\ ~stop.begun
             /\ \E reason \in {"ingest_completed", "ingest_error"} : Leave(reason, stop)
    <3>1. PICK reason \in {"ingest_completed", "ingest_error"} : Leave(reason, stop)
      BY <2>4
    <3>2. /\ main'.pc = "fence" /\ stop'.reason = reason
          /\ stop'.timedOut = stop.timedOut /\ stop'.ingestStopped = stop.ingestStopped
          /\ stop'.begun = stop.begun /\ stop'.completion = stop.completion
      BY <1>1, <1>2, <3>1 DEF Reasons
    <3>. QED
      BY <1>1, <1>3, <1>4, <2>1, <3>2 DEF DrainPhases, LoopPCs
  <2>. QED
    BY <1>5, <2>2, <2>3, <2>4 DEF ObserveExit
<1>6. CASE GraceTimeout
  <2> DEFINE timed == [stop EXCEPT !.timedOut = TRUE, !.ingestStopped = TRUE]
  <2>1. /\ timed \in StopState /\ timed.timedOut /\ timed.ingestStopped
        /\ timed.begun = stop.begun /\ timed.completion = stop.completion
        /\ timed.reason = stop.reason
    BY <1>1 DEF StopState
  <2>2. stop.begun /\ main.pc = "top"
    BY <1>6 DEF GraceTimeout, AtTop
  <2>3. \/ Leave("match_played_stream_incomplete", timed)
        \/ stop' = timed /\ UNCHANGED main
    BY <1>6 DEF GraceTimeout
  <2> HIDE DEF timed
  <2>4. /\ stop'.timedOut /\ stop'.ingestStopped /\ stop'.begun
        /\ stop'.reason # "match_played" /\ stop'.completion # "completed"
        /\ main'.pc \in {"top", "fence"}
    <3>1. CASE Leave("match_played_stream_incomplete", timed)
      <4>1. /\ main'.pc = "fence" /\ stop'.reason = "match_played_stream_incomplete"
            /\ stop'.timedOut = timed.timedOut /\ stop'.ingestStopped = timed.ingestStopped
            /\ stop'.begun = timed.begun /\ stop'.completion = timed.completion
        BY <1>2, <2>1, <3>1 DEF Reasons, Graceful
      <4>. QED
        BY <1>3, <2>1, <2>2, <4>1
    <3>2. CASE stop' = timed /\ UNCHANGED main
      BY <1>3, <2>1, <2>2, <3>2
    <3>. QED
      BY <2>3, <3>1, <3>2
  <2>. QED
    BY <2>4 DEF DrainPhases, LoopPCs
<1>7. CASE Tidy
  <2> DEFINE kept == Kept(task, at)
             ended == [stop EXCEPT !.ingestStopped = TRUE]
  <2>1. UNCHANGED <<task, visual, mem, at>> /\ main.pc = "tidy" /\ jobs' = kept
    BY <1>7 DEF Tidy, durable
  <2>2. ~stop.ingestStopped /\ ~stop.timedOut
    BY <1>1, <2>1 DEF DrainPhases, LoopPCs
  <2>3. /\ ended \in StopState /\ ended.ingestStopped /\ ended.timedOut = stop.timedOut
        /\ ended.begun = stop.begun /\ ended.completion = stop.completion
        /\ ended.reason = stop.reason
    BY <1>1 DEF StopState
  <2>4. CASE stop.begun /\ DrainReady(kept)
    <3>1. AllSettled'
      BY <1>1, <2>1, <2>4, ReadyMeansSettled DEF AllSettled, Pool, Main
    <3>2. Leave("match_played", ended) \/ (stop' = ended /\ Goto("top"))
      BY <1>7, <2>4 DEF Tidy
    <3> HIDE DEF ended
    <3>3. /\ ~stop'.timedOut /\ stop'.ingestStopped /\ stop'.begun
          /\ stop'.completion # "completed"
          /\ \/ main'.pc = "fence"
             \/ main'.pc = "top" /\ stop'.reason # "match_played"
      BY <1>1, <1>2, <1>3, <2>2, <2>3, <2>4, <3>2 DEF Reasons, Graceful, Goto, MainState
    <3>. QED
      BY <3>1, <3>3 DEF DrainPhases, LoopPCs
  <2>5. CASE ~(stop.begun /\ DrainReady(kept))
    <3>1. stop' = stop /\ Goto("top")
      BY <1>7, <2>5 DEF Tidy
    <3>2. main'.pc = "top"
      BY <1>1, <3>1 DEF Goto, MainState
    <3>. QED
      BY <1>1, <2>2, <3>1, <3>2, PhasesUndecided
  <2>. QED
    BY <2>4, <2>5
<1>8. CASE Interrupt
  <2>1. UNCHANGED <<task, visual, jobs, mem, at>> /\ Leave("manual_stop", stop)
    BY <1>8 DEF Interrupt, durable
  <2>2. /\ main'.pc = "fence" /\ stop'.reason = "manual_stop"
        /\ stop'.timedOut = stop.timedOut /\ stop'.ingestStopped = stop.ingestStopped
        /\ stop'.begun = stop.begun /\ stop'.completion = stop.completion
    BY <1>1, <1>2, <2>1 DEF Reasons
  <2>. QED
    BY <1>1, <1>3, <1>4, <2>1, <2>2 DEF DrainPhases, LoopPCs
<1>. QED
  BY <1>5, <1>6, <1>7, <1>8

\* The shutdown reports what was decided, and takes nothing up again.
LEMMA ShutdownPhases ==
  ASSUME WorkerInv, DrainPhases,
         \/ Fence \/ Drained \/ DrainTimesOut \/ CancelTimesOut \/ Gather \/ Report \/ Close
  PROVE  DrainPhases'
<1>1. /\ main \in MainState /\ stop \in StopState /\ jobs \subseteq Events /\ StateOK
      /\ task \in [Events -> TaskRow]
  BY DEF WorkerInv, StateOK
<1>2. CASE Fence \/ Drained \/ DrainTimesOut \/ CancelTimesOut \/ Close
  <2>1. UNCHANGED <<task, jobs, mem, at>>
    BY <1>2 DEF Fence, Drained, DrainTimesOut, CancelTimesOut, Close, durable
  <2>2. \A d \in Events : visual[d] # "open" => visual'[d] # "open"
    BY <1>2 DEF Fence, Drained, DrainTimesOut, CancelTimesOut, Close, durable
  <2>3. /\ stop'.timedOut = stop.timedOut /\ stop'.ingestStopped = stop.ingestStopped
        /\ stop'.begun = stop.begun /\ stop'.reason = stop.reason
        /\ stop'.completion = stop.completion
    BY <1>1, <1>2 DEF Fence, Drained, DrainTimesOut, CancelTimesOut, Close, StopState
  <2>4. /\ main'.pc \in {"drain", "cancelled", "gather", "closed"}
        /\ main.pc \in {"closing", "closed"} => main'.pc = "closed"
    BY <1>1, <1>2 DEF Fence, Drained, DrainTimesOut, CancelTimesOut, Close, Goto, MainState
  <2>5. AllSettled => AllSettled'
    BY <2>1, <2>2 DEF AllSettled, Pool, Main
  <2>. QED
    BY <2>3, <2>4, <2>5, PhasesQuiet DEF DrainPhases, LoopPCs
<1>3. CASE Gather
  <2>1. UNCHANGED <<stop, visual>> /\ jobs' \subseteq jobs
    BY <1>3 DEF Gather
  <2>2. main.pc = "gather" /\ main'.pc = "final" /\ main'.todo \subseteq jobs'
    <3>1. PICK passed \in SUBSET Events :
             main' = [main EXCEPT !.pc = "final", !.todo = jobs' \cap passed]
      BY <1>3 DEF Gather
    <3>. QED
      BY <1>1, <1>3, <3>1 DEF Gather, MainState
  <2>3. AllSettled => AllSettled'
    <3>1. SUFFICES ASSUME AllSettled PROVE AllSettled'
      OBVIOUS
    <3>2. \A d \in Events : /\ Pool(d)' = "idle" /\ Main(d)' = "idle"
                            /\ task'[d] = task[d] /\ mem'[d] = mem[d]
      <4>1. ASSUME NEW d \in Events
            PROVE  /\ Pool(d)' = "idle" /\ Main(d)' = "idle"
                   /\ task'[d] = task[d] /\ mem'[d] = mem[d]
        <5>1. Pool(d) \notin Returned /\ Pool(d) = "idle" /\ Main(d) = "idle"
          BY <3>1 DEF AllSettled, Returned
        <5>. QED
          BY <1>1, <1>3, <5>1, CollectCalls DEF Gather
      <4>. QED
        BY <4>1
    <3>. QED
      BY <1>1, <2>1, <3>1, <3>2 DEF AllSettled
  <2>. QED
    BY <2>1, <2>2, <2>3, PhasesQuiet DEF DrainPhases, LoopPCs
<1>4. CASE Report
  <2>1. /\ UNCHANGED <<jobs, at>> /\ main.pc = "final" /\ main'.pc = "closing"
        /\ stop'.timedOut = stop.timedOut /\ stop'.ingestStopped = stop.ingestStopped
        /\ stop'.begun = stop.begun /\ stop'.reason = stop.reason
    BY <1>1, <1>4 DEF Report, ForShutdown, Goto, MainState, StopState
  <2>2. stop'.completion = "completed" => stop.reason = "match_played"
    BY <1>1, <1>4 DEF Report, StopState
  <2>3. \A d \in Events : visual[d] # "open" => visual'[d] # "open"
    BY <1>4 DEF Report
  <2>4. ~stop.timedOut => UNCHANGED <<task, mem>>
    BY <1>1, <1>4 DEF Report, StateOK
  <2>5. AllSettled /\ ~stop.timedOut => AllSettled'
    BY <2>1, <2>3, <2>4 DEF AllSettled, Pool, Main
  <2>. QED
    BY <2>1, <2>2, <2>5 DEF DrainPhases, LoopPCs
<1>. QED
  BY <1>2, <1>3, <1>4

\* "completed" is only reported by a run that has settled every task and every
\* visual task, whatever crashes, stalls or times out.  (A release of a slot that
\* fails leaves a row "encoding" behind that the drain counts as settled.)
THEOREM CompletedMeansSettledHolds ==
  ASSUME "release" \notin Mishaps
  PROVE  Spec => []CompletedMeansSettled
<1>1. Init => DrainInv
  BY DEF Init, DrainInv, EncodingTracked, DrainPhases, Stopped, NoStop, Running, LoopPCs
<1>2. WorkerInv /\ CallInv /\ DrainInv /\ [Next]_vars => DrainInv'
  <2>1. DrainInv /\ UNCHANGED vars => DrainInv'
    BY DEF DrainInv, EncodingTracked, DrainPhases, AllSettled, Pool, Main, vars, durable, memory
  <2>2. SUFFICES ASSUME WorkerInv, CallInv, DrainInv, Next PROVE DrainInv'
    BY <2>1
  <2>3. EncodingTracked'
    BY <2>2, StepTracked DEF DrainInv
  <2>4. DrainPhases'
    BY <2>2, WorldPhases, PassPhases, DecisionPhases, ShutdownPhases
       DEF DrainInv, Next, Step, MainStep, Environment
  <2>. QED
    BY <2>3, <2>4 DEF DrainInv
<1>3. WorkerInv /\ DrainInv => CompletedMeansSettled
  <2> SUFFICES ASSUME WorkerInv, DrainInv, stop.completion = "completed", NEW e \in Events
               PROVE  task[e].status \in {"none"} \cup Final /\ visual[e] # "open"
    BY DEF CompletedMeansSettled
  <2>1. AllSettled /\ task[e] \in TaskRow
    BY DEF DrainInv, DrainPhases, WorkerInv, StateOK
  <2>. QED
    BY <2>1 DEF AllSettled, TaskRow
<1>. QED
  BY <1>1, <1>2, <1>3, CallsHold, PTL DEF Spec
=============================================================================
