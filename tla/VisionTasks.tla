----------------------------- MODULE VisionTasks -----------------------------
(***************************************************************************)
(* The visual artifacts of an event (the OCR window and the optional       *)
(* T-DEED refinement), as rows of vision_tasks that the main loop and the  *)
(* threads of the vision pool write without a common lock: the scheduler   *)
(* resets a row when the shotmap revises its target, the worker of the old *)
(* target is not interrupted, and a match end fences what is unfinished.   *)
(*                                                                         *)
(* Every read or write of a row is one action; between two of them any     *)
(* other thread may run.  Clocks are abstracted: due says that the next    *)
(* attempt of a row has come, spent that its waiting budget is used up.    *)
(***************************************************************************)
EXTENDS Integers, FiniteSets

CONSTANTS
  Events,         \* incidents whose second may be revised
  MaxTarget,      \* bound: authoritative seconds that may arrive per event
  MaxRestarts,    \* bound: crashes and stops of the Worker
  RefiningChoices \* values of args.tdeed_enabled a run may start with

Ocr == "ocr_window"
Tdeed == "tdeed_refined"
Artifacts == {Ocr, Tdeed}
ASSUME TargetType == MaxTarget \in Nat
ASSUME RestartsType == MaxRestarts \in Nat
ASSUME RefiningType == RefiningChoices \subseteq BOOLEAN /\ RefiningChoices # {}

VARIABLES
  phase,    \* running, fencing, stopping, down
  refining, \* args.tdeed_enabled
  restarts, \* crashes and stops so far
  second,   \* how often the event row got an authoritative second
  job,      \* the VisionJob in memory: its target_revision and event_second
  owed,     \* artifacts this scheduler pass still has to reset
  row,      \* the vision_tasks rows
  worker    \* the pool's thread for an artifact

vars == <<phase, refining, restarts, second, job, owed, row, worker>>

Settled == {"encoded", "failed"}
Incomplete == {"pending", "locating", "located", "encoding"}
Targets == 0 .. MaxTarget
Unmade == -1     \* no location yet
ApiRange == -2   \* an unverified range around the arrival of the event

NoRow == [status |-> "absent", rev |-> 0, fenced |-> FALSE, due |-> FALSE,
          spent |-> FALSE, made |-> Unmade]
NoJob == [known |-> FALSE, rev |-> 0, second |-> 0]
Idle == [pc |-> "none", rev |-> 0, target |-> Unmade]

Stages == {"search", "start", "locating", "save", "output", "encode",
           "encoding", "publish"}
Row ==
  [status : {"absent"} \cup Incomplete \cup Settled, rev : Targets, fenced : BOOLEAN,
   due : BOOLEAN, spent : BOOLEAN, made : Targets \cup {Unmade, ApiRange}]
Thread ==
  [pc : Stages \cup {"none", "queued", "entered", "missed", "refused", "fallback",
                     "broken", "escaped", "done"},
   rev : Targets, target : Targets \cup {Unmade, ApiRange}]
TypeOK ==
  /\ phase \in {"running", "fencing", "stopping", "down"}
  /\ refining \in BOOLEAN
  /\ restarts \in 0 .. MaxRestarts
  /\ second \in [Events -> Targets]
  /\ job \in [Events -> [known : BOOLEAN, rev : Targets, second : Targets]]
  /\ owed \in [Events -> SUBSET Artifacts]
  /\ row \in [Events -> [Artifacts -> Row]]
  /\ worker \in [Events -> [Artifacts -> Thread]]

Init ==
  /\ phase = "running"
  /\ refining \in RefiningChoices
  /\ restarts = 0
  /\ second = [e \in Events |-> 0]
  /\ job = [e \in Events |-> NoJob]
  /\ owed = [e \in Events |-> {}]
  /\ row = [e \in Events |-> [a \in Artifacts |-> NoRow]]
  /\ worker = [e \in Events |-> [a \in Artifacts |-> Idle]]

-------------------------------------------------------------------------------
(* The store.                                                              *)

AllowedTransitions ==
  [pending |-> {"locating", "failed"},
   locating |-> {"pending", "located", "failed"},
   located |-> {"pending", "encoding", "failed"},
   encoding |-> {"pending", "located", "encoded", "failed"},
   encoded |-> {"pending"},
   failed |-> {"pending"},
   absent |-> {}]

\* A variant of the check that does not look at the fence.
AllowsUnfenced(r, status) == status \in AllowedTransitions[r.status]

\* transition_vision_task raises unless the step is in the table and the row
\* has not been closed at the match end.
Allows(r, status) ==
  /\ status \in AllowedTransitions[r.status]
  /\ r.fenced => status = "failed"

At(r, status) == [r EXCEPT !.status = status]

\* record_vision_readiness_wait: only a row that nobody works on may wait.
MayWait(r) == r.status \in {"pending", "located"}
Waiting(r) == [r EXCEPT !.due = FALSE]

SetRow(e, a, r) == row' = [row EXCEPT ![e][a] = r]
SetWorker(e, a, w) == worker' = [worker EXCEPT ![e][a] = w]
Goto(e, a, pc) == SetWorker(e, a, [worker[e][a] EXCEPT !.pc = pc])
MainUnchanged == UNCHANGED <<phase, refining, restarts, second, job, owed>>

-------------------------------------------------------------------------------
(* The main loop.                                                          *)

\* A new event: its artifacts are inserted unless they exist.
EnqueueVision(e) ==
  /\ phase = "running"
  /\ ~job[e].known
  /\ row' = [row EXCEPT ![e] = [a \in Artifacts |->
               IF row[e][a].status = "absent" /\ (a = Ocr \/ refining)
               THEN At(NoRow, "pending") ELSE row[e][a]]]
  /\ job' = [job EXCEPT ![e] = [known |-> TRUE, rev |-> 0, second |-> second[e]]]
  /\ UNCHANGED <<phase, refining, restarts, second, owed, worker>>

\* The intake merges a shotmap second into the durable event row; it comes
\* before the scheduler pass, never between the two halves of one.
SecondArrives(e) ==
  /\ phase = "running"
  /\ job[e].known
  /\ owed[e] = {}
  /\ second[e] < MaxTarget
  /\ second' = [second EXCEPT ![e] = @ + 1]
  /\ UNCHANGED <<phase, refining, restarts, job, owed, row, worker>>

\* refresh_vision_job_event_data: the job takes the revision; the resets of
\* the artifacts follow in the same pass, one artifact kind after the other.
RefreshJob(e) ==
  /\ phase = "running"
  /\ job[e].known
  /\ job[e].second # second[e]
  /\ job' = [job EXCEPT ![e].second = second[e], ![e].rev = @ + 1]
  /\ owed' = [owed EXCEPT ![e] = IF refining THEN Artifacts ELSE {Ocr}]
  /\ UNCHANGED <<phase, refining, restarts, second, row, worker>>

\* ensure_ocr_target_revision, for the main loop and for the OCR thread: a row
\* of another revision starts again; the store may refuse (a fenced row).
Ensured(r, rev) ==
  IF r.status = "absent" \/ r.rev = rev THEN r
  ELSE IF r.status # "pending" /\ ~Allows(r, "pending") THEN r
  ELSE [r EXCEPT !.status = "pending", !.rev = rev, !.due = TRUE]

ResetOcr(e) ==
  /\ phase = "running"
  /\ Ocr \in owed[e]
  /\ SetRow(e, Ocr, Ensured(row[e][Ocr], job[e].rev))
  /\ owed' = [owed EXCEPT ![e] = @ \ {Ocr}]
  /\ UNCHANGED <<phase, refining, restarts, second, job, worker>>

\* A variant that requeues the refinement without recording the revision.
ResetUnrecorded(e) ==
  /\ phase = "running"
  /\ owed[e] = {Tdeed}
  /\ owed' = [owed EXCEPT ![e] = {}]
  /\ IF row[e][Tdeed].rev < job[e].rev /\ Allows(row[e][Tdeed], "pending")
     THEN SetRow(e, Tdeed, At(row[e][Tdeed], "pending")) ELSE UNCHANGED row
  /\ UNCHANGED <<phase, refining, restarts, second, job, worker>>

\* reset_vision_artifact_for_target_upgrade.  The refusal of a fenced row is
\* not caught: the exception ends the main loop.
ResetTdeed(e) ==
  /\ phase = "running"
  /\ owed[e] = {Tdeed}
  /\ owed' = [owed EXCEPT ![e] = {}]
  /\ LET r == row[e][Tdeed] IN
     IF r.status = "absent" \/ r.rev >= job[e].rev
     THEN UNCHANGED <<phase, row>>
     ELSE IF r.status # "pending" /\ ~Allows(r, "pending")
     THEN phase' = "stopping" /\ UNCHANGED row
     ELSE /\ SetRow(e, Tdeed, [r EXCEPT !.status = "pending", !.rev = job[e].rev,
                                        !.due = (r.status # "pending") => r.due])
          /\ UNCHANGED phase
  /\ UNCHANGED <<refining, restarts, second, job, worker>>

\* vision_artifact_ready_for_submission
Ready(e, a) ==
  /\ row[e][a].status \in {"pending", "located"}
  /\ row[e][a].due
  /\ a = Tdeed => row[e][Ocr].status \in Settled

\* The scheduler hands a ready artifact to the pool, once at a time.
Submit(e, a) ==
  /\ phase = "running"
  /\ job[e].known
  /\ a = Ocr \/ refining
  /\ a \notin owed[e] /\ Ocr \notin owed[e]
  /\ Ready(e, a)
  /\ worker[e][a].pc = "none"
  /\ SetWorker(e, a, [Idle EXCEPT !.pc = "queued"])
  /\ UNCHANGED <<phase, refining, restarts, second, job, owed, row>>

\* collect_done; an error that escaped the thread fails its artifact.
Collect(e, a) ==
  /\ phase \in {"running", "stopping"}
  /\ worker[e][a].pc \in {"done", "escaped"}
  /\ IF worker[e][a].pc = "escaped" /\ row[e][a].status \in Incomplete
     THEN SetRow(e, a, At(row[e][a], "failed"))
     ELSE UNCHANGED row
  /\ SetWorker(e, a, Idle)
  /\ MainUnchanged

\* Time: the next attempt of a row comes; its waiting budget is used up.
ComesDue(e, a) ==
  /\ row[e][a].status \in {"pending", "located"} /\ ~row[e][a].due
  /\ SetRow(e, a, [row[e][a] EXCEPT !.due = TRUE])
  /\ MainUnchanged /\ UNCHANGED worker
BudgetSpent(e, a) ==
  /\ row[e][a].status \in Incomplete /\ ~row[e][a].spent
  /\ SetRow(e, a, [row[e][a] EXCEPT !.spent = TRUE])
  /\ MainUnchanged /\ UNCHANGED worker

-------------------------------------------------------------------------------
(* A thread of the vision pool.                                            *)

Runs(e, a, pc) == phase # "down" /\ worker[e][a].pc = pc

\* The slot is acquired and the artifact entered: the OCR thread notes the
\* revision of the job first and reads the row afterwards.
Enter(e, a) ==
  /\ Runs(e, a, "queued")
  /\ SetWorker(e, a, [Idle EXCEPT !.pc = "entered", !.rev = job[e].rev])
  /\ MainUnchanged /\ UNCHANGED row

\* The entry checks of _process_ocr_window, which brings its row to the
\* revision of the job first; a located row goes straight to its output.
BeginOcr(e) ==
  /\ Runs(e, Ocr, "entered")
  /\ LET r == Ensured(row[e][Ocr], job[e].rev) IN
     /\ SetRow(e, Ocr, r)
     /\ SetWorker(e, Ocr, [worker[e][Ocr] EXCEPT
          !.pc = IF r.status \in Settled \cup {"absent"} \/ ~r.due THEN "done"
                 ELSE IF r.status = "located" THEN "output" ELSE "search",
          !.target = IF r.status = "located" THEN r.made ELSE Unmade])
  /\ MainUnchanged

\* _process_tdeed_refined waits for the outcome of the OCR artifact and takes
\* its location when it is a verified one.
BeginTdeed(e) ==
  /\ Runs(e, Tdeed, "entered")
  /\ LET r == row[e][Tdeed]
         ocr == row[e][Ocr]
     IN SetWorker(e, Tdeed, [worker[e][Tdeed] EXCEPT
          !.pc = IF r.status \in Settled \cup {"absent"} \/ ~r.due \/ ocr.status \notin Settled
                 THEN "done" ELSE IF r.status = "located" THEN "output" ELSE "search",
          !.target = IF r.status = "located" THEN r.made
                     ELSE IF ocr.status = "encoded" THEN ocr.made ELSE ApiRange])
  /\ MainUnchanged /\ UNCHANGED row

\* A variant that waits for the media however long the row has waited.
WaitPatiently(e) ==
  /\ Runs(e, Ocr, "search")
  /\ IF MayWait(row[e][Ocr])
     THEN SetRow(e, Ocr, [Waiting(row[e][Ocr]) EXCEPT !.rev = job[e].rev])
          /\ Goto(e, Ocr, "done")
     ELSE Goto(e, Ocr, "broken") /\ UNCHANGED row
  /\ MainUnchanged

\* The media of the target is still to come: the row waits, with the revision
\* of the job, or the store refuses and the thread breaks.
WaitForTarget(e) ==
  /\ Runs(e, Ocr, "search")
  /\ ~row[e][Ocr].spent
  /\ IF MayWait(row[e][Ocr])
     THEN SetRow(e, Ocr, [Waiting(row[e][Ocr]) EXCEPT !.rev = job[e].rev])
          /\ Goto(e, Ocr, "done")
     ELSE Goto(e, Ocr, "broken") /\ UNCHANGED row
  /\ MainUnchanged

\* The window of the output is not complete yet, or that of the T-DEED search.
WaitForWindow(e, a) ==
  /\ Runs(e, a, "output") \/ (a = Tdeed /\ Runs(e, a, "search"))
  /\ ~row[e][a].spent
  /\ IF MayWait(row[e][a])
     THEN SetRow(e, a, Waiting(row[e][a])) /\ Goto(e, a, "done")
     ELSE Goto(e, a, "broken") /\ UNCHANGED row
  /\ MainUnchanged

\* VisualLocationFailed: evicted history, an unusable clock, a coverage that
\* cannot be had, no T-DEED candidate, an FFmpeg watchdog.
Refuse(e, a) ==
  /\ \E pc \in {"search", "output", "encoding", "missed"} : Runs(e, a, pc)
  /\ Goto(e, a, "refused")
  /\ MainUnchanged /\ UNCHANGED row

\* Any other exception, a cancelled request or encoding among them.
Breaks(e, a) ==
  /\ \E pc \in Stages : Runs(e, a, pc)
  /\ Goto(e, a, "broken")
  /\ MainUnchanged /\ UNCHANGED row

\* _ocr_target_revision_is_stale; the T-DEED thread never asks.
Stale(e, a) == a = Ocr /\ row[e][a].rev # worker[e][a].rev

\* The stale check ahead of a write: the check and the write are two steps.
AfterCheck == [search |-> "start", output |-> "encode"]
CheckRevision(e, a) ==
  /\ \E pc \in DOMAIN AfterCheck :
       /\ Runs(e, a, pc)
       /\ Goto(e, a, IF Stale(e, a) THEN "done" ELSE AfterCheck[pc])
  /\ MainUnchanged /\ UNCHANGED row

\* A transition of the thread: a refusal of the store raises ValueError.
Transit(e, a, status, r, next) ==
  /\ IF Allows(row[e][a], status)
     THEN SetRow(e, a, At(r, status)) /\ Goto(e, a, next)
     ELSE Goto(e, a, "broken") /\ UNCHANGED row
  /\ MainUnchanged

\* locating: the OCR thread writes the scan state it read, with its revision.
StartLocating(e, a) ==
  /\ Runs(e, a, "start")
  /\ Transit(e, a, "locating",
             [row[e][a] EXCEPT !.rev = IF a = Ocr THEN worker[e][a].rev ELSE @], "locating")

\* The OCR answers.  The job is shared with the main loop unless a cached
\* profile made a copy of it: the target is that of the thread or the present.
OcrLocates(e) ==
  /\ Runs(e, Ocr, "locating")
  /\ IF Stale(e, Ocr) THEN Goto(e, Ocr, "done")
     ELSE \E target \in {job[e].second, worker[e][Ocr].rev} :
            SetWorker(e, Ocr, [worker[e][Ocr] EXCEPT !.pc = "save", !.target = target])
  /\ MainUnchanged /\ UNCHANGED row

TdeedLocates(e) ==
  /\ Runs(e, Tdeed, "locating")
  /\ Goto(e, Tdeed, "save")
  /\ MainUnchanged /\ UNCHANGED row

\* The locator fails: an OCR thread returns when its target is stale, goes on
\* waiting for media, or gives the target up; a T-DEED thread gives up.
Missed(e, a) ==
  /\ Runs(e, a, "locating")
  /\ Goto(e, a, IF Stale(e, a) THEN "done" ELSE "missed")
  /\ MainUnchanged /\ UNCHANGED row

\* _ocr_progressive_wait after a scan: back to pending, then the wait.
WaitAfterScan(e) ==
  /\ Runs(e, Ocr, "missed")
  /\ ~row[e][Ocr].spent
  /\ LET r == IF row[e][Ocr].status = "locating" THEN At(row[e][Ocr], "pending") ELSE row[e][Ocr] IN
     IF MayWait(r) /\ (row[e][Ocr].status = "locating" => Allows(row[e][Ocr], "pending"))
     THEN SetRow(e, Ocr, [Waiting(r) EXCEPT !.rev = job[e].rev]) /\ Goto(e, Ocr, "done")
     ELSE Goto(e, Ocr, "broken") /\ UNCHANGED row
  /\ MainUnchanged

SaveLocation(e, a) ==
  /\ Runs(e, a, "save")
  /\ Transit(e, a, "located",
             [row[e][a] EXCEPT !.rev = IF a = Ocr THEN worker[e][a].rev ELSE @,
                               !.made = worker[e][a].target], "output")

StartEncoding(e, a) ==
  /\ Runs(e, a, "encode")
  /\ Transit(e, a, "encoding", row[e][a], "encoding")

\* encode_gif returned: the OCR thread drops the file of a stale target.
Encoded(e, a) ==
  /\ Runs(e, a, "encoding")
  /\ Goto(e, a, IF Stale(e, a) THEN "done" ELSE "publish")
  /\ MainUnchanged /\ UNCHANGED row

Publish(e, a) ==
  /\ Runs(e, a, "publish")
  /\ Transit(e, a, "encoded", [row[e][a] EXCEPT !.made = worker[e][a].target], "done")

\* Without clock_only a failed location may still give a range around the
\* arrival of the event; it is checked for a stale target at its start only.
StartRangeFallback(e) ==
  /\ Runs(e, Ocr, "refused")
  /\ ~Stale(e, Ocr)
  /\ row[e][Ocr].status \in {"pending", "locating"}
  /\ SetRow(e, Ocr, [At(row[e][Ocr], "encoding") EXCEPT !.made = ApiRange])
  /\ Goto(e, Ocr, "fallback")
  /\ MainUnchanged

\* An error of the fallback leaves the failure that caused it.
EndRangeFallback(e) ==
  /\ Runs(e, Ocr, "fallback")
  /\ \/ Transit(e, Ocr, "encoded", row[e][Ocr], "done")
     \/ Goto(e, Ocr, "broken") /\ UNCHANGED row /\ MainUnchanged

\* T-DEED found nothing around the verified OCR location: the minute that the
\* OCR read is encoded, or its row goes back to wait for the rest of it.
StartMinuteFallback(e) ==
  /\ Runs(e, Tdeed, "refused")
  /\ worker[e][Tdeed].target \in Targets
  /\ LET r == row[e][Tdeed]
         open == r.status \in {"pending", "locating", "located"} IN
     \/ /\ open
        /\ SetRow(e, Tdeed, [At(r, "encoding") EXCEPT !.made = worker[e][Tdeed].target])
        /\ Goto(e, Tdeed, "fallback")
     \/ /\ open /\ ~r.spent
        /\ SetRow(e, Tdeed, Waiting(IF r.status = "locating" THEN At(r, "pending") ELSE r))
        /\ Goto(e, Tdeed, "done")
     \/ /\ ~open /\ ~r.spent
        /\ Goto(e, Tdeed, "escaped") /\ UNCHANGED row
  /\ MainUnchanged

\* It runs inside the handler of the failure: its errors escape the thread.
EndMinuteFallback(e) ==
  /\ Runs(e, Tdeed, "fallback")
  /\ IF Allows(row[e][Tdeed], "encoded")
     THEN \/ SetRow(e, Tdeed, At(row[e][Tdeed], "encoded")) /\ Goto(e, Tdeed, "done")
          \/ UNCHANGED row /\ Goto(e, Tdeed, "escaped")
     ELSE UNCHANGED row /\ Goto(e, Tdeed, "escaped")
  /\ MainUnchanged

\* _fail_artifact: no stale check; a settled row keeps its result.
FailArtifact(e, a) ==
  /\ Runs(e, a, "refused") \/ Runs(e, a, "broken")
  /\ IF row[e][a].status \in Incomplete
     THEN SetRow(e, a, At(row[e][a], "failed")) ELSE UNCHANGED row
  /\ Goto(e, a, "done")
  /\ MainUnchanged

-------------------------------------------------------------------------------
(* Stop, crash and restart.                                                *)

\* shutdown_task_pools: queued work is dropped.  At a match end the rows that
\* are not settled are fenced before the running threads are cancelled.
Stop(terminal) ==
  /\ phase = "running"
  /\ restarts < MaxRestarts
  /\ worker' = [e \in Events |-> [a \in Artifacts |->
                  IF worker[e][a].pc = "queued" THEN Idle ELSE worker[e][a]]]
  /\ phase' = IF terminal THEN "fencing" ELSE "stopping"
  /\ UNCHANGED <<refining, restarts, second, job, owed, row>>

\* mark_incomplete_vision_tasks_on_shutdown
Fence(e, a) ==
  /\ phase = "fencing"
  /\ row[e][a].status \in Incomplete
  /\ SetRow(e, a, [At(row[e][a], "failed") EXCEPT !.fenced = TRUE])
  /\ MainUnchanged /\ UNCHANGED worker

Fenced ==
  /\ phase = "fencing"
  /\ \A e \in Events, a \in Artifacts : row[e][a].status \notin Incomplete
  /\ phase' = "stopping"
  /\ UNCHANGED <<refining, restarts, second, job, owed, row, worker>>

\* The process ends: after the bounded drain of a stop, or at any time.
Down ==
  /\ phase # "down"
  /\ phase # "stopping" => restarts < MaxRestarts
  /\ phase' = "down"
  /\ restarts' = IF restarts < MaxRestarts THEN restarts + 1 ELSE restarts
  /\ job' = [e \in Events |-> NoJob]
  /\ owed' = [e \in Events |-> {}]
  /\ worker' = [e \in Events |-> [a \in Artifacts |-> Idle]]
  /\ UNCHANGED <<refining, second, row>>

\* A variant that recovers located work only.
RecoveredHalf(r) == IF r.status = "encoding" THEN At(r, "located") ELSE r

\* recover_incomplete_vision and disable_incomplete_tdeed_tasks
Recovered(r) ==
  CASE r.status = "locating" -> At(r, "pending")
    [] r.status = "encoding" -> At(r, "located")
    [] OTHER -> r
OpenedBy(enabled, e) ==
  [a \in Artifacts |-> IF a = Tdeed /\ ~enabled /\ row[e][a].status \in Incomplete
                       THEN At(row[e][a], "failed") ELSE Recovered(row[e][a])]

\* The row whose revision the recovered job takes: the last seed of the event.
Seed(enabled, e) ==
  IF /\ row[e][Tdeed].status \in Incomplete
     /\ enabled \/ row[e][Ocr].status \notin Incomplete
  THEN Tdeed ELSE Ocr

Restart ==
  /\ phase = "down"
  /\ \E enabled \in RefiningChoices :
       /\ refining' = enabled
       /\ row' = [e \in Events |-> OpenedBy(enabled, e)]
       /\ job' = [e \in Events |->
                    IF row[e][Ocr].status = "absent" THEN NoJob
                    ELSE [known |-> TRUE, rev |-> row[e][Seed(enabled, e)].rev,
                          second |-> second[e]]]
  /\ phase' = "running"
  /\ UNCHANGED <<restarts, second, owed, worker>>

-------------------------------------------------------------------------------
MainStep(e) ==
  \/ EnqueueVision(e) \/ SecondArrives(e) \/ RefreshJob(e) \/ ResetOcr(e) \/ ResetTdeed(e)
  \/ \E a \in Artifacts : Submit(e, a) \/ Collect(e, a) \/ Fence(e, a)

OcrThread(e) ==
  \/ BeginOcr(e) \/ WaitForTarget(e) \/ OcrLocates(e) \/ WaitAfterScan(e)
  \/ StartRangeFallback(e) \/ EndRangeFallback(e)
TdeedThread(e) ==
  \/ BeginTdeed(e) \/ TdeedLocates(e) \/ StartMinuteFallback(e) \/ EndMinuteFallback(e)
AnyThread(e, a) ==
  \/ Enter(e, a) \/ WaitForWindow(e, a) \/ Refuse(e, a) \/ Breaks(e, a)
  \/ CheckRevision(e, a) \/ StartLocating(e, a) \/ Missed(e, a) \/ SaveLocation(e, a)
  \/ StartEncoding(e, a) \/ Encoded(e, a) \/ Publish(e, a) \/ FailArtifact(e, a)
ThreadStep(e, a) ==
  AnyThread(e, a) \/ (a = Ocr /\ OcrThread(e)) \/ (a = Tdeed /\ TdeedThread(e))

Next ==
  \/ \E e \in Events : MainStep(e)
  \/ \E e \in Events, a \in Artifacts :
       ThreadStep(e, a) \/ ComesDue(e, a) \/ BudgetSpent(e, a)
  \/ \E terminal \in BOOLEAN : Stop(terminal)
  \/ Fenced \/ Down \/ Restart

Spec == Init /\ [][Next]_vars

\* Fairness: the scheduler loop and the threads of the pool keep running, time
\* passes, a stopped process ends and the Dashboard starts it again.
Fairness ==
  /\ \A e \in Events :
       /\ WF_vars(RefreshJob(e)) /\ WF_vars(ResetOcr(e)) /\ WF_vars(ResetTdeed(e))
       /\ \A a \in Artifacts :
            /\ WF_vars(Submit(e, a)) /\ WF_vars(Collect(e, a)) /\ WF_vars(Fence(e, a))
            /\ WF_vars(ThreadStep(e, a)) /\ WF_vars(ComesDue(e, a))
            /\ WF_vars(BudgetSpent(e, a))
  /\ WF_vars(Fenced) /\ WF_vars(phase = "stopping" /\ Down) /\ WF_vars(Restart)
FairSpec == Spec /\ Fairness

-------------------------------------------------------------------------------
\* A row that says that somebody searches or encodes is in the hands of a
\* thread of the living process: no restart, reset, wait or error leaves an
\* artifact behind in a state that the scheduler never submits.
WorkedOn ==
  phase \in {"running", "stopping"} =>
    \A e \in Events, a \in Artifacts :
      row[e][a].status \in {"locating", "encoding"} =>
        worker[e][a].pc \notin {"none", "queued", "entered", "done"}

\* What the match end closed stays closed: no late result of a thread, no
\* restart and no revision of the target opens a fenced row again.
FenceHolds ==
  [][\A e \in Events, a \in Artifacts : row[e][a].fenced => row'[e][a].fenced
        /\ row'[e][a].status = "failed"]_vars

\* An artifact that was encoded is given up for a newer target only.
EncodedUntilRevised ==
  [][\A e \in Events, a \in Artifacts :
       row[e][a].status = "encoded" /\ row'[e][a].status # "encoded" =>
         row'[e][a].rev > row[e][a].rev]_vars

\* A thread that was running when a revision reset its row discards what it
\* has: the row leaves pending by a thread of the recorded target only.
StaleDiscarded ==
  [][\A e \in Events, a \in Artifacts :
       /\ row[e][a].status = "pending" /\ row'[e][a].status \notin {"pending", "absent"}
       /\ phase = "running" /\ phase' = "running"
       => worker[e][a].rev = row[e][a].rev]_vars

\* Open artifacts are encoded or failed in the end, all of them, whatever the media
\* does and however late a revision comes.
EverySettles ==
  []<>(\A e \in Events, a \in Artifacts : row[e][a].status \notin Incomplete)
=============================================================================
