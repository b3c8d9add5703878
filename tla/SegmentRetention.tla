-------------------------- MODULE SegmentRetention ---------------------------
(***************************************************************************)
(* The video buffer of one match and who may delete from it.  FFmpeg       *)
(* appends one segment a tick and its row to the list of its generation;   *)
(* the Worker's main loop leases the windows of open visual tasks, prunes  *)
(* what is older than the buffer and compacts the manifest; a vision       *)
(* thread reads segments, leases what it is about to use and encodes; at   *)
(* the end of the match the Worker, and later the Dashboard, reclaim the   *)
(* whole buffer.  One event with one visual task stands for all: leases of *)
(* different events never interact.                                        *)
(*                                                                         *)
(* Stream time and wall time advance together (a live source).  Segment s  *)
(* covers s-1..s.  A lease is the number of ticks it still has to live.    *)
(***************************************************************************)
EXTENDS Naturals, FiniteSets

CONSTANTS MaxTime,        \* ticks of stream the broadcaster sends (bound)
          Buffer,         \* args.buffer_seconds
          SearchBefore,   \* args.vision_search_before
          ClipBefore,     \* clip_before_seconds: 30 s, 60 s at a minute boundary
          LookBack,       \* OCR_MINUTE_WINDOW_BEFORE_SECONDS, 60 s
          After,          \* args.vision_search_after, and the clip's "after"
          Budget,         \* wall time a visual task may wait for its media
          Ttl,            \* the shortest lease: its stage's timeout and a margin
          MaxRestarts     \* crashes of the Worker, and reconnects (bound)

RetentionAssumption ==
    /\ {MaxTime, Buffer, SearchBefore, ClipBefore, LookBack, After, Budget, MaxRestarts} \subseteq Nat
    /\ Ttl \in Nat \ {0}
    /\ ClipBefore <= LookBack

Segs == 1..MaxTime
Owners == {"event", "output", "work"}
Gens == 1..(2 * MaxRestarts + 1)
Nil == 0

VARIABLES
    now,        \* ticks since the origin of the timeline
    files,      \* segments on disk
    rows,       \* segments some list file names
    gen,        \* the generation whose list names the segment
    manifest,   \* generations of segment_manifest.json
    born,       \* generations registered so far
    ingest,     \* FFmpeg writes the newest generation
    lease,      \* segment_leases: ticks left, per owner and segment
    task,       \* the visual task: status, search window, output, budget left
    thread,     \* the vision thread: its stage, what it read, time left for it
    pass,       \* the main loop's pruning pass and its copy of the leases
    worker,     \* the Worker process
    over,       \* the match has ended
    restarts    \* crashes and reconnects so far

media == <<files, rows, gen, manifest, born, ingest>>
vars == <<now, media, lease, task, thread, pass, worker, over, restarts>>

Larger(i, j) == IF i > j THEN i ELSE j
Smaller(i, j) == IF i < j THEN i ELSE j
Before(i, d) == IF i > d THEN i - d ELSE 0

\* Segments that overlap the stream interval lo..hi.
Window(lo, hi) == {s \in Segs : s > lo /\ s - 1 < hi}

\* A generation has media left.
Available(g) == \E s \in files \cap rows : gen[s] = g

\* What segment_reader returns: rows of known generations whose file exists.
Readable == {s \in files \cap rows : gen[s] \in manifest}

Leased == {s \in Segs : \E o \in Owners : lease[o][s] > 0}

NoTask == [status |-> "none", lo |-> 0, hi |-> 0, out |-> 0, left |-> 0]
Open == task.status = "open"
OutputStart == Before(task.out, ClipBefore)
OutputEnd == task.out + After

\* What a lease of the event must cover: the search, and the output once known.
TaskStart == IF task.out = Nil THEN task.lo ELSE Smaller(task.lo, OutputStart)
TaskEnd == IF task.out = Nil THEN task.hi ELSE Larger(task.hi, OutputEnd)
TaskWindow == Window(TaskStart, TaskEnd)

Idle == [at |-> "idle", picks |-> {}, left |-> 0]
NoPass == [at |-> "idle", kept |-> {}]

(***************************************************************************)
(* The lease table.                                                        *)
(***************************************************************************)

Released(o) == [lease EXCEPT ![o] = [s \in Segs |-> 0]]

\* Rows of one acquisition: they may name files that are gone by now.
Acquired(o, paths) ==
    [lease EXCEPT ![o] = [s \in Segs |-> IF s \in paths THEN Ttl ELSE @[s]]]

\* Active rows of the owner are renewed, readable paths without one acquired;
\* a lapsed row is not resurrected, its path is leased anew.
Ensured(o, paths) ==
    [lease EXCEPT ![o] = [s \in Segs |->
        IF @[s] > 0 \/ s \in paths THEN Ttl ELSE 0]]

Protect(paths) == Ensured("event", paths \cap Window(Before(TaskStart, LookBack), TaskEnd))

(***************************************************************************)
(* FFmpeg, its generations and time.                                       *)
(***************************************************************************)

\* One tick: a running FFmpeg closes a segment, leases and budgets run down.
\* A stage of the thread ends within its timeout, which is less than its lease.
Tick ==
    /\ thread.at # "idle" => thread.left > 0
    /\ now' = Smaller(now + 1, MaxTime)
    /\ IF ingest /\ now < MaxTime
       THEN /\ files' = files \cup {now'}
            /\ rows' = rows \cup {now'}
            /\ gen' = [gen EXCEPT ![now'] = born]
       ELSE UNCHANGED <<files, rows, gen>>
    /\ lease' = [o \in Owners |-> [s \in Segs |-> Before(lease[o][s], 1)]]
    /\ task' = [task EXCEPT !.left = Before(@, 1)]
    /\ thread' = [thread EXCEPT !.left = Before(@, 1)]
    /\ UNCHANGED <<manifest, born, ingest, pass, worker, over, restarts>>

\* The stream breaks off; while the match runs the supervisor reconnects after
\* a back-off, under a new generation.
IngestExit ==
    /\ ingest
    /\ restarts < MaxRestarts
    /\ restarts' = restarts + 1
    /\ ingest' = FALSE
    /\ UNCHANGED <<now, files, rows, gen, manifest, born, lease, task, thread, pass, worker, over>>

RegisterGeneration(known) ==
    /\ born' = born + 1
    /\ manifest' = known \cup {born'}
    /\ ingest' = TRUE

IngestRestart ==
    /\ worker = "up" /\ ~ingest /\ ~over
    /\ pass.at = "idle"
    /\ RegisterGeneration(manifest)
    /\ UNCHANGED <<now, files, rows, gen, lease, task, thread, pass, worker, over, restarts>>

(***************************************************************************)
(* The main loop: an event, and the pruning pass.                          *)
(***************************************************************************)

\* The search window around the observation or an accepted match clock, cut at
\* the oldest media the buffer promises.
SearchStart(anchor) == Larger(Before(now, Before(Buffer, 1)), Before(anchor, SearchBefore))

\* An event is discovered: its window is leased at once.
Discover ==
    /\ worker = "up" /\ pass.at = "idle"
    /\ task.status = "none"
    /\ \E anchor \in Before(now, Buffer)..now :
         LET lo == SearchStart(anchor)
             hi == anchor + After
         IN /\ task' = [status |-> "open", lo |-> lo, hi |-> hi, out |-> Nil,
                        left |-> Larger(Budget, Before(hi, now))]
            /\ lease' = Ensured("event", Readable \cap Window(Before(lo, LookBack), hi))
    /\ UNCHANGED <<now, media, thread, pass, worker, over, restarts>>

\* Leases of a settled event are released, those of an open one renewed.
LeasePass ==
    /\ worker = "up" /\ pass.at = "idle"
    /\ lease' = IF Open THEN Protect(Readable)
                ELSE Released("event")
    /\ pass' = [NoPass EXCEPT !.at = "leased"]
    /\ UNCHANGED <<now, media, task, thread, worker, over, restarts>>

\* protected_segment_paths is read, then the incomplete tasks, then it deletes.
ReadProtected ==
    /\ worker = "up" /\ pass.at = "leased"
    /\ pass' = [at |-> "pruning", kept |-> Leased]
    /\ UNCHANGED <<now, media, lease, task, thread, worker, over, restarts>>

\* Open tasks are forgotten.
CutoffOfBuffer == Before(now, Buffer)

Cutoff ==
    IF Open THEN Smaller(Before(now, Buffer), Before(task.lo, LookBack))
    ELSE Before(now, Buffer)

\* Closed lists lose the rows of deleted files.
CompactedRows(left, active) == {s \in rows : s \in left \/ gen[s] = active}

\* A closed generation leaves the manifest when no media is left.
RetainedGenerations(left, active) ==
    {g \in manifest : g = active \/ \E s \in left \cap rows : gen[s] = g}

Compacted(left) ==
    LET active == IF ingest THEN born ELSE Nil IN
    /\ rows' = CompactedRows(left, active)
    /\ manifest' = RetainedGenerations(left, active)

PruneBuffer ==
    /\ worker = "up" /\ pass.at = "pruning"
    /\ files' = files \ {s \in Readable : s < Cutoff /\ s \notin pass.kept}
    /\ Compacted(files')
    /\ pass' = NoPass
    /\ UNCHANGED <<now, gen, born, ingest, lease, task, thread, worker, over, restarts>>

(***************************************************************************)
(* The vision thread.  Each step is one transaction with the store or one  *)
(* look at the disk; the store is closed under it when the Worker ends.    *)
(***************************************************************************)

StoreOpen == worker \in {"up", "fenced"}
Settle == task' = [task EXCEPT !.status = "done"]
Wait == thread' = Idle

\* A submitted thread reads the segments of its search, or of its output.
ReadWindow ==
    /\ worker = "up" /\ Open /\ thread.at = "idle"
    /\ thread' = [at |-> IF task.out = Nil THEN "read" ELSE "readOutput",
                  picks |-> Readable \cap (IF task.out = Nil THEN Window(task.lo, task.hi)
                                           ELSE Window(OutputStart, OutputEnd)),
                  left |-> Ttl - 1]
    /\ UNCHANGED <<now, media, lease, task, pass, worker, over, restarts>>

\* Nothing there yet: wait for media, or give up at the end of the budget.
NothingRead ==
    /\ StoreOpen /\ thread.at = "read" /\ thread.picks = {}
    /\ IF Open /\ task.left = 0 THEN Settle ELSE UNCHANGED task
    /\ Wait
    /\ UNCHANGED <<now, media, lease, pass, worker, over, restarts>>

LeasePicks ==
    /\ StoreOpen /\ Open
    /\ thread.at = "read" /\ thread.picks # {}
    /\ lease' = Acquired("work", thread.picks)
    /\ thread' = [thread EXCEPT !.at = "locating", !.left = Ttl - 1]
    /\ UNCHANGED <<now, media, task, pass, worker, over, restarts>>

\* The locator names a second: its output window is kept, then leased for
\* the wait for its last frames, in place of the lease for the search.
Locate ==
    /\ StoreOpen /\ Open /\ thread.at = "locating"
    /\ \E second \in Segs : /\ second \in task.lo..task.hi
                            /\ task' = [task EXCEPT !.out = second]
    /\ thread' = [thread EXCEPT !.at = "located"]
    /\ UNCHANGED <<now, media, lease, pass, worker, over, restarts>>

LeaseOutput ==
    /\ StoreOpen /\ thread.at \in {"located", "readOutput"}
    /\ Open
    /\ LET available == Readable \cap Window(OutputStart, OutputEnd) IN
         /\ lease' = [Ensured("output", available) EXCEPT !["work"] = [s \in Segs |-> 0]]
         /\ thread' = IF now < OutputEnd /\ task.left > 0 THEN Idle
                      ELSE [at |-> "output", picks |-> available, left |-> Ttl - 1]
    /\ UNCHANGED <<now, media, task, pass, worker, over, restarts>>

\* The locator finds nothing: the scan moves on with the live edge, or is over.
Miss ==
    /\ StoreOpen /\ Open /\ thread.at = "locating"
    /\ IF task.left = 0 THEN Settle
       ELSE task' = [task EXCEPT !.hi = Smaller(Larger(@, now) + 1, MaxTime)]
    /\ lease' = Released("work")
    /\ Wait
    /\ UNCHANGED <<now, media, pass, worker, over, restarts>>

StartEncoding ==
    /\ StoreOpen /\ Open
    /\ thread.at = "output" /\ thread.picks # {}
    /\ lease' = Acquired("work", thread.picks)
    /\ thread' = [thread EXCEPT !.at = "encoding", !.left = Ttl - 1]
    /\ UNCHANGED <<now, media, task, pass, worker, over, restarts>>

\* Encoded, or failed: the row is terminal and both leases of the thread go.
EndEncoding ==
    /\ StoreOpen
    /\ \/ thread.at = "encoding"
       \/ thread.at = "output" /\ thread.picks = {}
    /\ Settle
    /\ lease' = [o \in Owners |-> IF o = "event" THEN lease[o] ELSE [s \in Segs |-> 0]]
    /\ Wait
    /\ UNCHANGED <<now, media, pass, worker, over, restarts>>

\* The fence settled the task under the thread: its next write is refused and
\* its finally clause releases what it holds.
Refused ==
    /\ StoreOpen /\ ~Open
    /\ thread.at \notin {"idle", "encoding"}
    /\ lease' = [o \in Owners |-> IF o = "event" THEN lease[o] ELSE [s \in Segs |-> 0]]
    /\ Wait
    /\ UNCHANGED <<now, media, task, pass, worker, over, restarts>>

\* The store is closed: the thread ends and releases nothing.
StoreGone ==
    /\ ~StoreOpen /\ thread.at # "idle"
    /\ Wait
    /\ UNCHANGED <<now, media, lease, task, pass, worker, over, restarts>>

(***************************************************************************)
(* The end of the match, crashes, and the two that reclaim.                *)
(***************************************************************************)

MatchEnds ==
    /\ worker = "up" /\ ~over
    /\ over' = TRUE
    /\ UNCHANGED <<now, media, lease, task, thread, pass, worker, restarts>>

\* The loop is left: FFmpeg stops, the fence settles what is open, and the
\* bounded drain may leave a thread running.
Fence ==
    /\ worker = "up" /\ over /\ pass.at = "idle"
    /\ worker' = "fenced"
    /\ ingest' = FALSE
    /\ task' = IF Open THEN [task EXCEPT !.status = "done"] ELSE task
    /\ UNCHANGED <<now, files, rows, gen, manifest, born, lease, thread, pass, over, restarts>>

\* The last look at the leases; then the store is closed.
CloseStore ==
    /\ worker = "fenced"
    /\ worker' = "closed"
    /\ lease' = Released("event")
    /\ pass' = [at |-> "closing",
                kept |-> {s \in Segs : \E o \in Owners \ {"event"} : lease[o][s] > 0}]
    /\ UNCHANGED <<now, media, task, thread, over, restarts>>

\* Only what the manifest still names is deleted.
CleanupOfListed(protected) ==
    IF Leased # {} THEN UNCHANGED <<files, rows, manifest>>
    ELSE files' = files \ (Readable \ protected) /\ rows' = {} /\ manifest' = {}

\* cleanup_finished_match under the writer lock of the lease database: any
\* active lease keeps all media; otherwise all is deleted but what the caller
\* saw leased, and so are the lists and generations that name nothing kept.
Cleanup(protected) ==
    IF Leased # {} THEN UNCHANGED <<files, rows, manifest>>
    ELSE /\ files' = files \cap protected
         /\ rows' = {s \in rows : \E t \in rows \cap protected : gen[t] = gen[s]}
         /\ manifest' = IF files' = {} /\ rows' = {} THEN {} ELSE manifest

WorkerReclaims ==
    /\ worker = "closed"
    /\ worker' = "gone"
    /\ Cleanup(pass.kept)
    /\ pass' = NoPass
    /\ UNCHANGED <<now, gen, born, ingest, lease, task, thread, over, restarts>>

\* The Worker dies, alone or because the Dashboard's finish timeout kills its
\* group; FFmpeg and the threads die with it.
Dies ==
    /\ worker \in {"up", "fenced", "closed"}
    /\ IF over THEN UNCHANGED restarts
       ELSE restarts < MaxRestarts /\ restarts' = restarts + 1
    /\ worker' = "gone"
    /\ ingest' = FALSE
    /\ thread' = Idle
    /\ pass' = NoPass
    /\ UNCHANGED <<now, files, rows, gen, manifest, born, lease, task, over>>

\* Generations without media are dropped, or all of them when the source moved.
Loaded(moved) == IF moved THEN {} ELSE {g \in manifest : Available(g)}

\* A new Worker loads the manifest, leases the windows of open tasks and
\* registers its own generation.
Restart ==
    /\ worker = "gone" /\ ~over
    /\ \E moved \in BOOLEAN :
         LET loaded == Loaded(moved)
             seen == {s \in files \cap rows : gen[s] \in loaded}
         IN /\ RegisterGeneration(loaded)
            /\ lease' = IF Open /\ loaded # {} THEN Protect(seen) ELSE lease
    /\ worker' = "up"
    /\ UNCHANGED <<now, files, rows, gen, task, thread, pass, over, restarts>>

\* _cleanup_terminal_output: the match is terminal, no Worker is left, and no
\* lease is active.
DashboardReclaims ==
    /\ worker = "gone" /\ over
    /\ files # {} \/ rows # {} \/ manifest # {}
    /\ Leased = {}
    /\ Cleanup({})
    /\ UNCHANGED <<now, gen, born, ingest, lease, task, thread, pass, worker, over, restarts>>

Init ==
    /\ now = 0 /\ files = {} /\ rows = {}
    /\ gen = [s \in Segs |-> Nil]
    /\ manifest = {1} /\ born = 1 /\ ingest = TRUE
    /\ lease = [o \in Owners |-> [s \in Segs |-> 0]]
    /\ task = NoTask /\ thread = Idle /\ pass = NoPass
    /\ worker = "up" /\ over = FALSE /\ restarts = 0

ThreadNext ==
    \/ ReadWindow \/ NothingRead \/ LeasePicks \/ Locate \/ LeaseOutput \/ Miss
    \/ StartEncoding \/ EndEncoding \/ Refused \/ StoreGone

PassNext == LeasePass \/ ReadProtected \/ PruneBuffer

EndNext == Fence \/ CloseStore \/ WorkerReclaims \/ DashboardReclaims

Next ==
    \/ Tick \/ IngestExit \/ IngestRestart \/ Discover
    \/ PassNext \/ ThreadNext \/ MatchEnds \/ EndNext \/ Dies \/ Restart

Spec == Init /\ [][Next]_vars

\* Wall time passes, threads have timeouts, the main loop and the Dashboard's
\* maintenance come round; the end of the match is looked at once per loop.
FairSpec == Spec /\ WF_vars(Tick) /\ WF_vars(ThreadNext) /\ WF_vars(PassNext)
                 /\ SF_vars(EndNext)
------------------------------------------------------------------------------
TypeOK ==
    /\ now \in 0..MaxTime
    /\ files \subseteq Segs /\ rows \subseteq Segs
    /\ gen \in [Segs -> {Nil} \cup Gens]
    /\ manifest \subseteq Gens /\ born \in Gens /\ ingest \in BOOLEAN
    /\ lease \in [Owners -> [Segs -> 0..Ttl]]
    /\ task \in [status : {"none", "open", "done"}, lo : 0..MaxTime,
                 hi : 0..(MaxTime + After), out : {Nil} \cup Segs,
                 left : 0..(Budget + After)]
    /\ thread \in [at : {"idle", "read", "locating", "located", "readOutput",
                         "output", "encoding"}, picks : SUBSET Segs, left : 0..Ttl]
    /\ pass \in [at : {"idle", "leased", "pruning", "closing"}, kept : SUBSET Segs]
    /\ worker \in {"up", "fenced", "closed", "gone"}
    /\ over \in BOOLEAN
    /\ restarts \in 0..MaxRestarts

(***************************************************************************)
(* No step deletes a file under an active lease, although the pruning pass *)
(* works from a copy of the leases and the thread takes its own between    *)
(* the copy and the deletion (PipelineRuntime.protected_segment_paths,     *)
(* prune_buffer, DiskLifecycleManager._segment_lease_guard).               *)
(***************************************************************************)
KeepsLeased ==
    \A s \in files \ files' : s \notin Leased

(***************************************************************************)
(* While a Worker runs, no file is deleted that an open visual task may    *)
(* still read, however late the pass, whatever lapsed meanwhile, also      *)
(* across a crash (protect_incomplete_vision_event_segments before every   *)
(* prune_buffer, and its extra cut-offs).                                  *)
(***************************************************************************)
KeepsWindow ==
    worker = "up" => \A s \in files \ files' : ~(Open /\ s \in TaskWindow)

(***************************************************************************)
(* The buffer of a match that ended is reclaimed in the end: by the Worker *)
(* or, when a lease held it back or the Worker was killed, by the          *)
(* Dashboard after the lease lapsed; files that no list names any more are *)
(* included (cleanup_finished_match, _cleanup_terminal_output).            *)
(***************************************************************************)
MediaReclaimed == []<>(over => files = {} /\ worker = "gone")
==============================================================================
