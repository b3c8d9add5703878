----------------------------- MODULE MatchWorker -----------------------------
(***************************************************************************)
(* The match Worker of event_driven_pipeline.py: one process per match     *)
(* that polls the event API, makes every new event a durable task, encodes *)
(* its default GIF in a bounded pool of threads, and drains at the end of  *)
(* the match.  The durable side is the SQLite store of pipeline_runtime.py;*)
(* the process may crash at any step and is started again.                 *)
(*                                                                         *)
(* main.pc follows the main thread: "resume" is the encoding of recovered  *)
(* jobs before the stream starts; "top" .. "tidy" is one pass of the loop; *)
(* "fence" .. "closed" is the shutdown.  at["pool"][e] is the future of e  *)
(* in BoundedTaskPool together with its thread's place in encode_event_job,*)
(* at["main"][e] the same for the calls the main thread makes itself.      *)
(*                                                                         *)
(* An event stands for one incident under one stable key; revisions and    *)
(* duplicates of an incident are the concern of match_event_identity.py.   *)
(* Times are kept as the comparisons the code makes with them.  The run is *)
(* one with the shotmap source off; encode_gif never raises BufferNotReady *)
(* here, because the coverage it is given was ready.                       *)
(***************************************************************************)
EXTENDS Integers, FiniteSets

CONSTANTS
    Events,         \* events of the match, by event_key
    GifWorkers,     \* --gif-workers
    CommandLines,   \* how the Worker may be started, see Settings
    Mishaps,        \* what may go wrong, of the kinds below
    MaxMishaps      \* bound on how often

(* emit: --emit-existing-events; gif: not --disable-default-gif; reconnect: *)
(* an RTMP source, reconnected for ever, and no file; early: windows end    *)
(* before the API shows their event (the default anchor is 30 s earlier),   *)
(* so that the buffer holds them already.                                   *)
Settings == [emit : BOOLEAN, gif : BOOLEAN, reconnect : BOOLEAN, early : BOOLEAN]

MishapKinds == {"crash", "interrupt", "stall", "release", "slot"}
NoEvent == "no event"
Incomplete == {"discovered", "pending", "encoding"}
Final == {"encoded", "failed"}
Graceful == {"match_played", "match_played_stream_incomplete"}

ASSUME WorkerAssumption ==
    /\ NoEvent \notin Events /\ IsFiniteSet(Events)
    /\ GifWorkers \in Nat \ {0} /\ MaxMishaps \in Nat
    /\ Mishaps \subseteq MishapKinds
    /\ CommandLines \subseteq Settings

VARIABLES
    task,       \* event_tasks: one row per event, status "none" without a row
    visual,     \* the ocr_window row: none, open (incomplete) or settled
    cursor,     \* event_feed_state and event_feed_events
    feed,       \* events the API lists
    history,    \* events that were seeded as known and owe no task
    video,      \* segments of each event's window: missing, partial, full, gone
    main,       \* the main thread and the event source's memory
    jobs,       \* EventJobs in memory
    mem,        \* job.pending.status
    at,         \* where each encode_event_job call is
    ingest,     \* FFmpeg: on, dead (exit not seen yet), none
    stop,       \* graceful stop and shutdown
    over,       \* the run ended for good, its buffer was cleaned up
    mishaps,    \* how much has gone wrong
    settings    \* the command line

durable == <<task, visual, cursor>>
world == <<feed, history, video>>
memory == <<main, jobs, mem, at, ingest, stop>>
vars == <<durable, world, memory, over, mishaps, settings>>

Runners == {"pool", "main"}
Busy == {"slot", "held", "encode", "record"}
Returned == {"true", "false", "raised"}
LoopPCs == {"top", "intake", "accept", "disable", "visual", "submit", "collect", "tidy"}
PCs == LoopPCs \cup {"down", "resume", "fence", "drain", "cancelled", "gather",
                     "final", "closing", "closed"}

TaskRow == [status : {"none"} \cup Incomplete \cup Final, wait : BOOLEAN, late : BOOLEAN]
MainState == [pc : PCs, seen : SUBSET Events, init : BOOLEAN, todo : SUBSET Events,
              hand : Events \cup {NoEvent}, order : SUBSET Events]
Reasons == {"ingest_exit", "ingest_completed", "ingest_error", "manual_stop"} \cup Graceful
StopState == [asked : BOOLEAN, begun : BOOLEAN, elapsed : 0..2, ingestStopped : BOOLEAN,
              timedOut : BOOLEAN, cancel : BOOLEAN, storeOpen : BOOLEAN, reason : Reasons,
              completion : {"none", "completed", "completed_with_warnings"}]
Places == {"idle", "check"} \cup Busy \cup Returned

(* The types of the variables, those of the run and then the command line. *)
StateOK ==
    /\ task \in [Events -> TaskRow]
    /\ visual \in [Events -> {"none", "open", "settled"}]
    /\ cursor \in [init : BOOLEAN, keys : SUBSET Events]
    /\ feed \subseteq Events /\ history \subseteq Events
    /\ video \in [Events -> {"missing", "partial", "full", "gone"}]
    /\ main \in MainState
    /\ jobs \subseteq Events
    /\ mem \in [Events -> {"none"} \cup Incomplete \cup Final]
    /\ at \in [Runners -> [Events -> Places]]
    /\ ingest \in {"on", "dead", "none"}
    /\ stop \in StopState
    /\ over \in BOOLEAN
    /\ mishaps \in 0..MaxMishaps
TypeOK == StateOK /\ settings \in Settings

NoRow == [status |-> "none", wait |-> FALSE, late |-> FALSE]
NoStop == [asked |-> FALSE, begun |-> FALSE, elapsed |-> 0, ingestStopped |-> FALSE,
           timedOut |-> FALSE, cancel |-> FALSE, storeOpen |-> TRUE,
           reason |-> "ingest_exit", completion |-> "none"]
Stopped == [pc |-> "down", seen |-> {}, init |-> FALSE, todo |-> {}, hand |-> NoEvent,
            order |-> {}]
AllIdle == [r \in Runners |-> [e \in Events |-> "idle"]]

Init ==
    /\ task = [e \in Events |-> NoRow]
    /\ visual = [e \in Events |-> "none"]
    /\ cursor = [init |-> FALSE, keys |-> {}]
    /\ feed = {} /\ history = {}
    /\ settings \in CommandLines
    /\ video = [e \in Events |-> IF settings.early THEN "full" ELSE "missing"]
    /\ main = Stopped /\ jobs = {}
    /\ mem = [e \in Events |-> "none"]
    /\ at = AllIdle
    /\ ingest = "none"
    /\ stop = NoStop
    /\ over = FALSE
    /\ mishaps = 0

GoesWrong(kind) ==
    /\ kind \in Mishaps /\ mishaps < MaxMishaps
    /\ mishaps' = mishaps + 1

-----------------------------------------------------------------------------
(***************************************************************************)
(* The world: the API, the stream, time, and the visual pool.              *)
(***************************************************************************)

FeedAdds(e) ==
    /\ e \notin feed
    /\ feed' = feed \cup {e}
    /\ UNCHANGED <<durable, history, video, memory, over, mishaps>>

(* FFmpeg closes segments of an event's window.                            *)
VideoArrives(e) ==
    /\ ingest = "on" /\ video[e] \in {"missing", "partial"}
    /\ video' = [video EXCEPT ![e] = IF @ = "missing" THEN "partial" ELSE "full"]
    /\ UNCHANGED <<durable, feed, history, memory, over, mishaps>>

(* The clock reaches next_attempt_at_unix.                                 *)
RetryDue(e) ==
    /\ task[e].wait
    /\ task' = [task EXCEPT ![e].wait = FALSE]
    /\ UNCHANGED <<visual, cursor, world, memory, over, mishaps>>

(* The clock reaches deadline_at_unix, which bounds next_attempt_at_unix.  *)
DeadlinePasses(e) ==
    /\ task[e].status \in Incomplete /\ ~task[e].late
    /\ task' = [task EXCEPT ![e].late = TRUE, ![e].wait = FALSE]
    /\ UNCHANGED <<visual, cursor, world, memory, over, mishaps>>

IngestDies ==
    /\ ingest = "on"
    /\ ingest' = "dead"
    /\ UNCHANGED <<durable, world, main, jobs, mem, at, stop, over, mishaps>>

(* The visual pool brings an OCR task to a terminal status.                *)
VisualSettles(e) ==
    /\ visual[e] = "open" /\ main.pc # "down" /\ stop.storeOpen
    /\ visual' = [visual EXCEPT ![e] = "settled"]
    /\ UNCHANGED <<task, cursor, world, memory, over, mishaps>>

(* The dashboard sends SIGUSR1 once the match is reported played.          *)
RequestStop ==
    /\ main.pc \in LoopPCs \cup {"resume"} /\ ~stop.asked
    /\ stop' = [stop EXCEPT !.asked = TRUE]
    /\ UNCHANGED <<durable, world, main, jobs, mem, at, ingest, over, mishaps>>

\* A variant with an unbounded clock.
StopClockUncapped ==
    /\ stop.begun /\ main.pc = "top"
    /\ stop' = [stop EXCEPT !.elapsed = @ + 1]
    /\ UNCHANGED <<durable, world, main, jobs, mem, at, ingest, over, mishaps>>

(* graceful_stop_grace_seconds, then graceful_stop_timeout_seconds, pass.  *)
(* The loop reads its clock once, at the top of a pass.                    *)
StopClock ==
    /\ stop.begun /\ main.pc = "top" /\ stop.elapsed < 2
    /\ stop' = [stop EXCEPT !.elapsed = @ + 1]
    /\ UNCHANGED <<durable, world, main, jobs, mem, at, ingest, over, mishaps>>

-----------------------------------------------------------------------------
(***************************************************************************)
(* encode_event_job, on a pool thread or on the main thread.               *)
(***************************************************************************)

(* TaskStateStore.transition: a status it does not allow raises.           *)
MayBecome(status, new) ==
    \/ status = "discovered" /\ new \in {"pending", "failed"}
    \/ status = "pending" /\ new \in {"encoding", "failed"}
    \/ status = "encoding" /\ new \in {"pending", "encoded", "failed"}

Return(r, e, how) == at' = [at EXCEPT ![r][e] = how]

(* The handlers that give a task up: memory first, then the store.         *)
GiveUp(r, e) ==
    /\ mem' = [mem EXCEPT ![e] = "failed"]
    /\ IF stop.storeOpen /\ MayBecome(task[e].status, "failed")
       THEN task' = [task EXCEPT ![e].status = "failed"] /\ Return(r, e, "true")
       ELSE UNCHANGED task /\ Return(r, e, "raised")

Threads == Cardinality({e \in Events : at["pool"][e] \in Busy})
Starts(r, e) == at[r][e] = "check" /\ (r = "pool" => Threads < GifWorkers)
ForEncode == <<visual, cursor, world, main, jobs, ingest, stop, over>>

(* The window is there, or the deadline allows a degraded clip of it.      *)
Covered(e) == video[e] = "full" \/ (video[e] = "partial" /\ task[e].late)
\* A variant that lets a window that never comes wait past the deadline.
NeverCoveredPatient(e) == video[e] = "gone"
NeverCovered(e) == video[e] = "gone" \/ (video[e] = "missing" /\ task[e].late)

(* Called before next_attempt_at_unix.                                     *)
TooEarly(r, e) ==
    /\ Starts(r, e) /\ stop.storeOpen /\ task[e].wait
    /\ mem' = [mem EXCEPT ![e] = "pending"]
    /\ Return(r, e, "false")
    /\ UNCHANGED <<task, ForEncode, mishaps>>

CoverageFails(r, e) ==
    /\ Starts(r, e) /\ stop.storeOpen /\ ~task[e].wait /\ NeverCovered(e)
    /\ GiveUp(r, e)
    /\ UNCHANGED <<ForEncode, mishaps>>

(* record_readiness_wait raises unless the row is pending.                 *)
CoverageWaits(r, e) ==
    /\ Starts(r, e) /\ stop.storeOpen /\ ~task[e].wait
    /\ ~Covered(e) /\ ~NeverCovered(e)
    /\ mem' = [mem EXCEPT ![e] = "pending"]
    /\ IF task[e].status = "pending"
       THEN task' = [task EXCEPT ![e].wait = TRUE] /\ Return(r, e, "false")
       ELSE UNCHANGED task /\ Return(r, e, "raised")
    /\ UNCHANGED <<ForEncode, mishaps>>

CoverageReady(r, e) ==
    /\ Starts(r, e) /\ stop.storeOpen /\ ~task[e].wait /\ Covered(e)
    /\ Return(r, e, "slot")
    /\ UNCHANGED <<task, mem, ForEncode, mishaps>>

(* A queued call that a thread takes up after the store was closed.        *)
StartsClosed(r, e) ==
    /\ Starts(r, e) /\ ~stop.storeOpen
    /\ Return(r, e, "raised")
    /\ UNCHANGED <<task, mem, ForEncode, mishaps>>

(* acquire looks at cancel_event before every poll.                        *)
ObtainSlot(r, e) ==
    /\ at[r][e] = "slot" /\ ~stop.cancel
    /\ Return(r, e, "held")
    /\ UNCHANGED <<task, mem, ForEncode, mishaps>>

(* HeavyTaskCancelled, HeavyTaskUnavailable (wait_for_heavy_slot=False in  *)
(* the recovery pass) or a coordinator error: the task stays pending.      *)
SlotRefused(r, e) ==
    /\ at[r][e] = "slot"
    /\ \/ (stop.cancel \/ main.pc = "resume") /\ UNCHANGED mishaps
       \/ GoesWrong("slot")
    /\ mem' = [mem EXCEPT ![e] = "pending"]
    /\ Return(r, e, "false")
    /\ UNCHANGED <<task, ForEncode>>

StartEncode(r, e) ==
    /\ at[r][e] = "held"
    /\ IF stop.storeOpen /\ MayBecome(task[e].status, "encoding")
       THEN /\ mem' = [mem EXCEPT ![e] = "encoding"]
            /\ task' = [task EXCEPT ![e].status = "encoding"]
            /\ Return(r, e, "encode")
       ELSE GiveUp(r, e)
    /\ UNCHANGED <<ForEncode, mishaps>>

(* encode_gif raises: FFmpeg failed, the input is gone, or it was cancelled.*)
EncodeFails(r, e) ==
    /\ at[r][e] = "encode"
    /\ GiveUp(r, e)
    /\ UNCHANGED <<ForEncode, mishaps>>

EncodeDone(r, e) ==
    /\ at[r][e] = "encode"
    /\ Return(r, e, "record")
    /\ UNCHANGED <<task, mem, ForEncode, mishaps>>

(* Leaving the with-block, the release of the slot fails: its error lands  *)
(* in the handler of a failed acquisition, after a good or a bad encoding. *)
ReleaseFails(r, e) ==
    /\ at[r][e] = "encode"
    /\ GoesWrong("release")
    /\ mem' = [mem EXCEPT ![e] = "pending"]
    /\ Return(r, e, "false")
    /\ UNCHANGED <<task, ForEncode>>

RecordEncoded(r, e) ==
    /\ at[r][e] = "record"
    /\ IF stop.storeOpen /\ MayBecome(task[e].status, "encoded")
       THEN /\ mem' = [mem EXCEPT ![e] = "encoded"]
            /\ task' = [task EXCEPT ![e].status = "encoded"]
            /\ Return(r, e, "true")
       ELSE GiveUp(r, e)
    /\ UNCHANGED <<ForEncode, mishaps>>

EncodeStep(r, e) ==
    \/ TooEarly(r, e) \/ CoverageFails(r, e) \/ CoverageWaits(r, e)
    \/ CoverageReady(r, e) \/ StartsClosed(r, e)
    \/ ObtainSlot(r, e) \/ SlotRefused(r, e) \/ StartEncode(r, e)
    \/ EncodeFails(r, e) \/ EncodeDone(r, e) \/ ReleaseFails(r, e)
    \/ RecordEncoded(r, e)

-----------------------------------------------------------------------------
(***************************************************************************)
(* The main thread: start, recovery, and the passes of its loop.           *)
(***************************************************************************)

Goto(pc) == main' = [main EXCEPT !.pc = pc]
PoolIdle == \A e \in Events : at["pool"][e] \in {"idle"} \cup Returned
MainIdle == \A e \in Events : at["main"][e] = "idle"

\* Variant: the source does not know that its feed was seeded before.
StartUninitialized ==
    /\ main.pc = "down" /\ ~over
    /\ LET left == {e \in Events : task[e].status \in Incomplete} IN
          /\ task' = [e \in Events |-> IF e \notin left THEN task[e]
                                      ELSE [task[e] EXCEPT !.status = "pending"]]
          /\ jobs' = left
          /\ mem' = [e \in Events |-> IF e \in left THEN "pending" ELSE "none"]
          /\ main' = [pc |-> "resume", seen |-> cursor.keys, init |-> FALSE,
                      todo |-> left, hand |-> NoEvent, order |-> left]
    /\ at' = AllIdle /\ ingest' = "none" /\ stop' = NoStop
    /\ UNCHANGED <<visual, cursor, world, over, mishaps>>

(* A process starts: recover_incomplete returns every incomplete row to    *)
(* pending, or ends it when default GIFs are disabled; the event source    *)
(* continues from the durable cursor.                                      *)
Start ==
    /\ main.pc = "down" /\ ~over
    /\ LET left == {e \in Events : task[e].status \in Incomplete} IN
          /\ task' = [e \in Events |->
                        IF e \notin left THEN task[e]
                        ELSE [task[e] EXCEPT !.status = IF settings.gif THEN "pending"
                                                                      ELSE "failed"]]
          /\ jobs' = IF settings.gif THEN left ELSE {}
          /\ mem' = [e \in Events |-> IF e \in jobs' THEN "pending" ELSE "none"]
          /\ main' = [pc |-> "resume", seen |-> cursor.keys, init |-> cursor.init,
                      todo |-> jobs', hand |-> NoEvent, order |-> left]
    /\ at' = AllIdle /\ ingest' = "none" /\ stop' = NoStop
    /\ UNCHANGED <<visual, cursor, world, over, mishaps>>

(* The main thread runs encode_event_job for the jobs of main.todo, before *)
(* the stream starts (all recovered jobs) and after it ended (those that   *)
(* are pending when their turn comes).                                     *)
TakeJob(e) ==
    /\ main.pc \in {"resume", "final"} /\ MainIdle /\ e \in main.todo
    /\ IF mem[e] = "pending"
       THEN Return("main", e, "check") /\ UNCHANGED main
       ELSE main' = [main EXCEPT !.todo = @ \ {e}] /\ UNCHANGED at
    /\ UNCHANGED <<durable, world, jobs, mem, ingest, stop, over, mishaps>>

JobReturns(e) ==
    /\ main.pc \in {"resume", "final"} /\ at["main"][e] \in {"true", "false"}
    /\ Return("main", e, "idle")
    /\ main' = [main EXCEPT !.todo = @ \ {e}]
    /\ UNCHANGED <<durable, world, jobs, mem, ingest, stop, over, mishaps>>

TerminalRows(rows) == {e \in Events : rows[e].status \in Final}

\* A variant that forgets active_default_keys.
KeptAllFinished(rows, calls) == jobs \ TerminalRows(rows)

(* evict_terminal_runtime_jobs: what stays in jobs.                        *)
Kept(rows, calls) ==
    {e \in jobs : calls["pool"][e] # "idle" \/ rows[e].status \notin Final}

ResumeDone ==
    /\ main.pc = "resume" /\ main.todo = {} /\ MainIdle
    /\ jobs' = Kept(task, at)
    /\ ingest' = "on"
    /\ Goto("top")
    /\ UNCHANGED <<durable, world, mem, at, stop, over, mishaps>>

AtTop == main.pc = "top" /\ (stop.asked => stop.begun)
ForTop == <<durable, world, jobs, mem, at, over, mishaps>>

(* The loop ends: control passes to its finally clause.                    *)
Leave(reason, changed) ==
    /\ Goto("fence")
    /\ stop' = [changed EXCEPT !.reason = reason]

NoticeStop ==
    /\ main.pc = "top" /\ stop.asked /\ ~stop.begun
    /\ stop' = [stop EXCEPT !.begun = TRUE]
    /\ UNCHANGED <<main, ingest, ForTop>>

ObserveExit ==
    /\ AtTop /\ ingest = "dead"
    /\ ingest' = "none"
    /\ \/ /\ stop.begun /\ stop.ingestStopped
          /\ Leave(IF stop.timedOut THEN "match_played_stream_incomplete"
                                    ELSE "match_played", stop)
       \/ /\ ~stop.begun /\ ~settings.reconnect
          /\ \E reason \in {"ingest_completed", "ingest_error"} : Leave(reason, stop)
       \/ /\ IF stop.begun THEN ~stop.ingestStopped ELSE settings.reconnect
          /\ UNCHANGED <<main, stop>>
    /\ UNCHANGED ForTop

Reconnect ==
    /\ AtTop /\ ~stop.begun /\ ingest = "none"
    /\ ingest' = "on"
    /\ UNCHANGED <<main, stop, ForTop>>

(* The time for a graceful stop is up: the stream is ended as it is.       *)
GraceTimeout ==
    /\ AtTop /\ ingest # "dead" /\ stop.begun /\ stop.elapsed = 2
    /\ ~(stop.timedOut /\ stop.ingestStopped)
    /\ LET timed == [stop EXCEPT !.timedOut = TRUE, !.ingestStopped = TRUE] IN
          IF ingest = "none"
          THEN Leave("match_played_stream_incomplete", timed)
          ELSE stop' = timed /\ UNCHANGED main
    /\ UNCHANGED <<ingest, ForTop>>

CanPoll ==
    /\ AtTop /\ ~stop.ingestStopped /\ ingest # "dead"
    /\ ~(stop.begun /\ stop.elapsed = 2)

(* No poll is due, or the request failed.                                  *)
PollNothing ==
    /\ CanPoll
    /\ Goto("submit")
    /\ UNCHANGED <<ingest, stop, ForTop>>

\* A variant that advances the durable cursor with the poll.
PollRemembers ==
    /\ CanPoll
    /\ LET seeds == ~main.init /\ ~settings.emit IN
          /\ main' = [main EXCEPT !.pc = "intake", !.init = TRUE,
                                  !.seen = @ \cup feed,
                                  !.todo = IF seeds THEN {} ELSE feed \ main.seen]
          /\ history' = IF seeds THEN history \cup feed ELSE history
    /\ cursor' = [init |-> TRUE, keys |-> cursor.keys \cup feed]
    /\ UNCHANGED <<task, visual, feed, video, jobs, mem, at, ingest, stop, over, mishaps>>

(* A snapshot of the feed: the first one of a match only seeds the keys.   *)
Poll ==
    /\ CanPoll
    /\ LET seeds == ~main.init /\ ~settings.emit IN
          /\ main' = [main EXCEPT !.pc = "intake", !.init = TRUE,
                                  !.seen = @ \cup feed,
                                  !.todo = IF seeds THEN {} ELSE feed \ main.seen]
          /\ history' = IF seeds THEN history \cup feed ELSE history
    /\ UNCHANGED <<durable, feed, video, jobs, mem, at, ingest, stop, over, mishaps>>

ForIntake == <<cursor, world, at, ingest, stop, over, mishaps>>

(* discover_task: INSERT OR IGNORE; a row that exists ends the event's     *)
(* handling.                                                               *)
Discover(e) ==
    /\ main.pc = "intake" /\ e \in main.todo
    /\ IF task[e].status = "none"
       THEN /\ task' = [task EXCEPT ![e] = [NoRow EXCEPT !.status = "discovered"]]
            /\ main' = [main EXCEPT !.pc = "accept", !.hand = e]
       ELSE /\ main' = [main EXCEPT !.todo = @ \ {e}]
            /\ UNCHANGED task
    /\ UNCHANGED <<visual, jobs, mem, ForIntake>>

(* discover_task's transition to pending, and the job in memory.           *)
Accept ==
    /\ main.pc = "accept"
    /\ task' = [task EXCEPT ![main.hand].status = "pending"]
    /\ IF settings.gif
       THEN /\ jobs' = jobs \cup {main.hand}
            /\ mem' = [mem EXCEPT ![main.hand] = "pending"]
            /\ main' = [main EXCEPT !.pc = "visual", !.order = @ \cup {main.hand}]
       ELSE Goto("disable") /\ UNCHANGED <<jobs, mem>>
    /\ UNCHANGED <<visual, ForIntake>>

MarkDefaultGifDisabled ==
    /\ main.pc = "disable"
    /\ task' = [task EXCEPT ![main.hand].status = "failed"]
    /\ main' = [main EXCEPT !.pc = "visual", !.order = @ \cup {main.hand}]
    /\ UNCHANGED <<visual, jobs, mem, ForIntake>>

EnqueueVisual ==
    /\ main.pc = "visual"
    /\ visual' = [visual EXCEPT ![main.hand] = IF @ = "none" THEN "open" ELSE @]
    /\ main' = [main EXCEPT !.pc = "intake", !.todo = @ \ {main.hand}, !.hand = NoEvent]
    /\ UNCHANGED <<task, jobs, mem, ForIntake>>

(* remember_event_snapshot, once every new event has become a task.        *)
RememberSnapshot ==
    /\ main.pc = "intake" /\ main.todo = {}
    /\ cursor' = [init |-> TRUE, keys |-> cursor.keys \cup main.seen]
    /\ Goto("submit")
    /\ UNCHANGED <<task, visual, world, jobs, mem, at, ingest, stop, over, mishaps>>

(* A pending job is submitted when its output is due and there is a stream,*)
(* at the deadline without both; a key the pool still holds is refused.    *)
Submit ==
    /\ main.pc = "submit"
    /\ \E due \in SUBSET Events :
          LET ready(e) == /\ mem[e] = "pending" /\ ~task[e].wait
                          /\ task[e].late \/ (ingest = "on" /\ e \in due)
          IN at' = [at EXCEPT !["pool"] =
                      [e \in Events |-> IF e \in jobs /\ @[e] = "idle" /\ ready(e)
                                        THEN "check" ELSE @[e]]]
    /\ Goto("collect")
    /\ UNCHANGED <<durable, world, jobs, mem, ingest, stop, over, mishaps>>

Done == {e \in Events : at["pool"][e] \in Returned}

(* collect_done: an exception of the job fails its task; then memory       *)
(* follows the store (sync_completed_default_job).                         *)
CollectDone ==
    LET failing == {e \in Done : at["pool"][e] = "raised" /\ task[e].status \in
                                                        {"pending", "encoding"}}
    IN /\ task' = [e \in Events |-> IF e \in failing
                                    THEN [task[e] EXCEPT !.status = "failed"]
                                    ELSE task[e]]
       /\ mem' = [e \in Events |-> IF e \in Done THEN task'[e].status ELSE mem[e]]
       /\ at' = [at EXCEPT !["pool"] = [e \in Events |-> IF e \in Done THEN "idle"
                                                                       ELSE @[e]]]

Collect ==
    /\ main.pc = "collect"
    /\ CollectDone
    /\ Goto("tidy")
    /\ UNCHANGED <<visual, cursor, world, jobs, ingest, stop, over, mishaps>>

\* A variant that protects only the jobs not yet encoding.
PrunableWhileEncoding(kept) ==
    {e \in Events : ~(e \in kept /\ mem[e] = "pending")}

(* prune_buffer keeps the windows of pending and encoding jobs (and those  *)
(* that visual tasks lease, which is left out).                            *)
Prunable(kept) ==
    {e \in Events : ~(e \in kept /\ mem[e] \in {"pending", "encoding"})}

\* A variant that looks at running calls only.
DrainReadyWhenQuiet(kept) ==
    stop.elapsed >= 1 /\ \A e \in Events : at["pool"][e] = "idle"

DrainReady(kept) ==
    /\ stop.elapsed >= 1
    /\ \A e \in Events : at["pool"][e] = "idle" /\ visual[e] # "open"
    /\ \A e \in kept : mem[e] # "pending"

(* The end of a pass: eviction, then either the decision of a graceful     *)
(* stop to end the stream, or the pruning of the buffer.  (The time limit, *)
(* looked at here again, was already looked at with the same clock at the  *)
(* top of the pass.)                                                       *)
Tidy ==
    /\ main.pc = "tidy"
    /\ LET kept == Kept(task, at)
           ended == [stop EXCEPT !.ingestStopped = TRUE]
       IN /\ jobs' = kept
          /\ IF stop.begun /\ DrainReady(kept)
             THEN /\ IF ingest = "none" THEN Leave("match_played", ended)
                                       ELSE stop' = ended /\ Goto("top")
                  /\ UNCHANGED video
             ELSE /\ Goto("top") /\ UNCHANGED stop
                  /\ \E pruned \in {{}, Prunable(kept)} :
                        video' = [e \in Events |-> IF e \in pruned THEN "gone"
                                                                   ELSE video[e]]
    /\ UNCHANGED <<durable, feed, history, mem, at, ingest, over, mishaps>>

-----------------------------------------------------------------------------
(***************************************************************************)
(* Shutdown: shutdown_task_pools and what follows the loop.                *)
(***************************************************************************)

ForShutdown == <<cursor, feed, history, ingest, over>>

(* stop_accepting and, at the end of a match, the terminal fence of the    *)
(* visual tasks (mark_incomplete_vision_tasks_on_shutdown).                *)
Fence ==
    /\ main.pc = "fence"
    /\ visual' = IF stop.reason \in Graceful
                 THEN [e \in Events |-> IF visual[e] = "open" THEN "settled" ELSE visual[e]]
                 ELSE visual
    /\ Goto("drain")
    /\ UNCHANGED <<task, video, jobs, mem, at, stop, mishaps, ForShutdown>>

Drained ==
    /\ main.pc \in {"drain", "cancelled"} /\ PoolIdle
    /\ Goto("gather")
    /\ UNCHANGED <<task, visual, video, jobs, mem, at, stop, mishaps, ForShutdown>>

(* SHUTDOWN_DEFAULT_GIF_DRAIN_SECONDS pass: the threads are cancelled.     *)
DrainTimesOut ==
    /\ main.pc = "drain" /\ ~PoolIdle
    /\ stop' = [stop EXCEPT !.cancel = TRUE]
    /\ Goto("cancelled")
    /\ UNCHANGED <<task, visual, video, jobs, mem, at, mishaps, ForShutdown>>

(* SHUTDOWN_CANCEL_DRAIN_SECONDS pass and a call ignores its cancellation: *)
(* it is left behind (shutdown(wait=False)).                               *)
CancelTimesOut ==
    /\ main.pc = "cancelled" /\ ~PoolIdle
    /\ GoesWrong("stall")
    /\ Goto("gather")
    /\ UNCHANGED <<task, visual, video, jobs, mem, at, stop, ForShutdown>>

(* The last collection and eviction; then the jobs whose window the stream *)
(* has passed get a last try on the main thread.                           *)
Gather ==
    /\ main.pc = "gather"
    /\ CollectDone
    /\ jobs' = jobs \ TerminalRows(task')
    /\ \E passed \in SUBSET Events :
          /\ {e \in Events : video[e] = "full"} \subseteq passed
          /\ main' = [main EXCEPT !.pc = "final", !.todo = jobs' \cap passed]
    /\ UNCHANGED <<visual, video, stop, mishaps, ForShutdown>>

(* After a timeout every job still pending is failed; what is left of the  *)
(* visual tasks is closed; the report takes the state of the events of     *)
(* this process (event_report_order, main.order) from the store.           *)
Report ==
    /\ main.pc = "final" /\ main.todo = {} /\ MainIdle
    /\ LET lost == {e \in jobs : stop.timedOut /\ mem[e] = "pending"}
           reported(rows) == {e \in main.order : rows[e].status = "failed"} IN
          /\ mem' = [e \in Events |-> IF e \in lost THEN "failed" ELSE mem[e]]
          /\ task' = [e \in Events |->
                        IF e \in lost /\ task[e].status = "pending"
                        THEN [task[e] EXCEPT !.status = "failed"] ELSE task[e]]
          /\ stop' = [stop EXCEPT !.completion =
                        CASE stop.reason = "match_played" ->
                               IF settings.gif /\ reported(task') # {}
                               THEN "completed_with_warnings" ELSE "completed"
                          [] stop.reason = "match_played_stream_incomplete" ->
                               "completed_with_warnings"
                          [] OTHER -> "none"]
    /\ visual' = IF stop.reason \in {"ingest_completed", "match_played_stream_incomplete"}
                 THEN [e \in Events |-> IF visual[e] = "open" THEN "settled" ELSE visual[e]]
                 ELSE visual
    /\ Goto("closing")
    /\ UNCHANGED <<video, jobs, at, mishaps, ForShutdown>>

(* runtime.close(), and cleanup_finished_match after a terminal stop.  A   *)
(* source that ends with an error, or by the operator, keeps its buffer.   *)
Close ==
    /\ main.pc = "closing"
    /\ stop' = [stop EXCEPT !.storeOpen = FALSE]
    /\ over' = (stop.reason \in Graceful \cup {"ingest_completed"})
    /\ video' = IF over' THEN [e \in Events |-> "gone"] ELSE video
    /\ Goto("closed")
    /\ UNCHANGED <<durable, feed, history, jobs, mem, at, ingest, mishaps>>

(* What a process keeps in memory is gone with it.                         *)
Vanish ==
    /\ main' = Stopped /\ jobs' = {} /\ at' = AllIdle /\ ingest' = "none"
    /\ stop' = NoStop
    /\ mem' = [e \in Events |-> "none"]
    /\ UNCHANGED <<durable, world, over>>

(* The interpreter joins the pool's threads before it ends.                *)
Exit ==
    /\ main.pc = "closed" /\ PoolIdle
    /\ Vanish /\ UNCHANGED mishaps

(* An exception of encode_event_job on the main thread ends the process.   *)
MainRaises ==
    /\ \E e \in Events : at["main"][e] = "raised"
    /\ Vanish /\ UNCHANGED mishaps

Crash ==
    /\ main.pc # "down"
    /\ GoesWrong("crash")
    /\ Vanish

(* KeyboardInterrupt anywhere in the loop: a manual stop.                  *)
Interrupt ==
    /\ main.pc \in LoopPCs
    /\ GoesWrong("interrupt")
    /\ Leave("manual_stop", stop)
    /\ ingest' = "none"
    /\ UNCHANGED <<durable, world, jobs, mem, at, over>>

-----------------------------------------------------------------------------
MainStep ==
    \/ Start \/ (\E e \in Events : TakeJob(e) \/ JobReturns(e)) \/ ResumeDone
    \/ NoticeStop \/ ObserveExit \/ GraceTimeout \/ PollNothing \/ Poll
    \/ (\E e \in Events : Discover(e)) \/ Accept \/ MarkDefaultGifDisabled
    \/ EnqueueVisual \/ RememberSnapshot \/ Submit \/ Collect \/ Tidy
    \/ Fence \/ Drained \/ DrainTimesOut \/ Gather \/ Report \/ Close \/ Exit
    \/ MainRaises

Environment ==
    \/ \E e \in Events : \/ FeedAdds(e) \/ VideoArrives(e) \/ RetryDue(e)
                         \/ DeadlinePasses(e) \/ VisualSettles(e)
    \/ IngestDies \/ RequestStop \/ StopClock
    \/ CancelTimesOut \/ Crash \/ Interrupt

(* The command line stays what it was.                                     *)
Step(A) == A /\ UNCHANGED settings

Next ==
    \/ Step(MainStep) \/ Step(Reconnect)
    \/ \E r \in Runners, e \in Events : Step(EncodeStep(r, e))
    \/ Step(Environment)

Spec == Init /\ [][Next]_vars

(* The main thread keeps running, requests of the poll succeed now and     *)
(* then and a lost stream is reconnected; the executor is first in, first  *)
(* out, so each queued call gets its turn, a slot is obtained (HeavySlots) *)
(* and an encoding ends; clocks advance; a terminated FFmpeg dies.         *)
Fairness ==
    /\ WF_vars(Step(MainStep)) /\ SF_vars(Step(Poll)) /\ SF_vars(Step(Reconnect))
    /\ \A r \in Runners, e \in Events :
          SF_vars(Step(EncodeStep(r, e)))
    /\ \A e \in Events : WF_vars(Step(RetryDue(e))) /\ WF_vars(Step(DeadlinePasses(e)))
    /\ WF_vars(Step(StopClock))
    /\ WF_vars(Step(stop.ingestStopped /\ IngestDies))

FairSpec == Spec /\ Fairness

-----------------------------------------------------------------------------
(***************************************************************************)
(* Properties.                                                             *)
(***************************************************************************)

(* Whoever runs FFmpeg for an event's GIF, in the pool or on the main      *)
(* thread, is alone, and the store says "encoding": recovery, drains that  *)
(* time out and last tries never make two encoders of one event, and never *)
(* settle a task whose encoder still runs.                                 *)
EncodersRecorded ==
    \A e \in Events :
       LET encoding == {r \in Runners : at[r][e] \in {"encode", "record"}}
       IN /\ Cardinality(encoding) <= 1
          /\ encoding # {} => task[e].status = "encoding"

(* Pruning while the stream runs never deletes the window of an event      *)
(* whose task still has to be encoded.                                     *)
VideoKeptForWork ==
    [][\A e \in Events :
          video[e] # "gone" /\ video'[e] = "gone" /\ main.pc = "tidy"
             => task[e].status \notin Incomplete]_vars

(* "Durably advance the feed cursor after its events became tasks": every  *)
(* event behind the cursor was history at the start or has a task, however *)
(* often the process crashes.                                              *)
CursorHasTasks == \A e \in cursor.keys \ history : task[e].status # "none"

(* A finished future always finds its job: collect_done's next() over jobs *)
(* never fails, so eviction does not outrun collection.                    *)
FutureHasJob == \A e \in Events : at["pool"][e] # "idle" => e \in jobs

(* A run that reports "completed" has settled every task and visual task.  *)
CompletedMeansSettled ==
    stop.completion = "completed" =>
       \A e \in Events : task[e].status \in {"none"} \cup Final /\ visual[e] # "open"

(* Every accepted task gets its GIF or a recorded failure.                 *)
TaskSettles ==
    \A e \in Events : []<>(task[e].status \notin Incomplete)

(* An event that appears once the feed is known, be it during an outage,   *)
(* becomes a task, unless the match ends first.                            *)
NewsBecomesTask ==
    \A e \in Events :
       (e \in feed /\ cursor.init /\ e \notin cursor.keys)
          ~> (task[e].status # "none" \/ over)

(* The visual task belongs to the tasks an event becomes: the cursor is    *)
(* advanced past an event only when it has one.                            *)
CursorHasVisuals == \A e \in cursor.keys \ history : visual[e] # "none"

(* The buffer of a match is cleaned up only after its GIF tasks have come  *)
(* to an end.                                                              *)
=============================================================================
