------------------------------ MODULE HeavySlots ------------------------------
(***************************************************************************)
(* The cross-process slot queue of heavy_task_coordinator.py.  Every       *)
(* Worker process opens a coordinator on one SQLite file that holds the    *)
(* limits, the waiting requests and the leases.  A task stamps a request,  *)
(* inserts its row, polls until its row is promoted to a lease, renews     *)
(* the lease from a heartbeat thread and deletes it when it ends.          *)
(*                                                                         *)
(* A row is represented by the ticks left until its expires_at_unix: it is *)
(* expired at 0 (expires_at <= now) and stays in its table, counted, until *)
(* some transaction purges it.  A task stands for one request at a time:   *)
(* it asks again, with a fresh uuid, once no row of its last request is    *)
(* left.  Each SQLite transaction is one action; the purge of the snapshot *)
(* that follows most of them is a transaction of its own (Snapshot).       *)
(***************************************************************************)
EXTENDS Integers, FiniteSets

CONSTANTS
  Coordinators,  \* Worker (and Dashboard) processes that open the database
  Tasks,         \* heavy tasks: GIF encodings and vision jobs
  Owner,         \* the process that runs a task
  Kind,          \* its task_kind
  LimitChoices,  \* limits a process may have been configured with
  LeaseTicks,    \* lease_seconds, in ticks of the modelled clock
  StallChoices   \* are behaviours with stalls considered, those without, or both?

GifKind == "gif"
VisionKinds == {"vision_ocr", "vision", "vision_tdeed"}

ASSUME TasksFinite == IsFiniteSet(Tasks)
ASSUME OwnerType == Owner \in [Tasks -> Coordinators]
ASSUME KindType == Kind \in [Tasks -> VisionKinds \cup {GifKind}]
ASSUME LimitsType ==
  /\ LimitChoices \subseteq [heavy : Nat, vision : Nat]
  /\ \A limits \in LimitChoices : 1 <= limits.vision /\ limits.vision <= limits.heavy
ASSUME LeaseTicksType == LeaseTicks \in Nat \ {0}
ASSUME StallChoicesType == StallChoices \subseteq BOOLEAN

VARIABLES
  stalls,   \* may a live process miss its heartbeats for a whole lease?
  config,   \* the coordinator_config row
  proc,     \* life of a coordinator: down, open, closing (_closed set), closed
  pc,       \* where a task is in acquire() and its with-block
  request,  \* its task_slot_requests row
  lease,    \* its task_slot_leases row
  ahead,    \* the queued tasks whose requested_at is earlier than its own
  beating   \* the tasks whose heartbeat thread is alive

vars == <<stalls, config, proc, pc, request, lease, ahead, beating>>

NoConfig == [heavy |-> 0, vision |-> 0]
Absent == -1
Row == Absent .. LeaseTicks

TypeOK ==
  /\ stalls \in StallChoices
  /\ config \in LimitChoices \cup {NoConfig}
  /\ proc \in [Coordinators -> {"down", "open", "closing", "closed"}]
  /\ pc \in [Tasks -> {"idle", "stamped", "waiting", "running", "lost"}]
  /\ request \in [Tasks -> Row]
  /\ lease \in [Tasks -> Row]
  /\ ahead \in [Tasks -> SUBSET Tasks]
  /\ beating \subseteq Tasks

Init ==
  /\ stalls \in StallChoices
  /\ config = NoConfig
  /\ proc = [c \in Coordinators |-> "down"]
  /\ pc = [t \in Tasks |-> "idle"]
  /\ request = [t \in Tasks |-> Absent]
  /\ lease = [t \in Tasks |-> Absent]
  /\ ahead = [t \in Tasks |-> {}]
  /\ beating = {}

-------------------------------------------------------------------------------
Present(table) == {t \in Tasks : table[t] # Absent}
\* Variants of the purge that no action uses: an interval taken off the wrong
\* side of the clock, and a purge that is forgotten.
PurgedEarly(table) == [t \in Tasks |-> IF table[t] \in {0, 1} THEN Absent ELSE table[t]]

Purged(table) == [t \in Tasks |-> IF table[t] = 0 THEN Absent ELSE table[t]]
OwnedBy(c) == {t \in Tasks : Owner[t] = c}
Alive(t) == proc[Owner[t]] # "down"

\* The rows a coordinator's owner_id names: those of this incarnation.
RowsOf(c) == {t \in OwnedBy(c) : pc[t] # "lost"}
WithoutRows(table, gone) == [t \in Tasks |-> IF t \in gone THEN Absent ELSE table[t]]

VisionTasks == {t \in Tasks : Kind[t] \in VisionKinds}
MaximumActiveVision(limits) == IF limits.heavy - 1 > 1 THEN limits.heavy - 1 ELSE 1

\* A variant: vision ahead of GIFs.
RankVisionFirst(t) == IF Kind[t] = "gif" THEN 3 ELSE 1

Rank(t) ==
  CASE Kind[t] = "gif" -> 0
    [] Kind[t] \in {"vision_ocr", "vision"} -> 1
    [] OTHER -> 2

\* The order of requested_at is kept among the tasks that queue.
LeftQueue(t) == [u \in Tasks |-> IF u = t THEN {} ELSE ahead[u] \ {t}]

\* Variants of the capacity test: a held slot too many, and no slot for GIFs.
FitsOneMore(t, held) ==
  /\ Cardinality(held) <= config.heavy
  /\ t \in VisionTasks => Cardinality(held \cap VisionTasks) <= config.vision
FitsWithoutReserve(t, held) ==
  /\ Cardinality(held) + 1 <= config.heavy
  /\ t \in VisionTasks => Cardinality(held \cap VisionTasks) + 1 <= config.vision

\* Does the request of t fit beside the leases of the set held?
Fits(t, held) ==
  /\ Cardinality(held) + 1 <= config.heavy
  /\ t \in VisionTasks =>
       /\ Cardinality(held \cap VisionTasks) + 1 <= config.vision
       /\ Cardinality(held \cap VisionTasks) + 1 <= MaximumActiveVision(config)

\* A variant that forgets the time of the request.
BeforeByRankAlone(u, t) == Rank(u) <= Rank(t)

Before(u, t) == Rank(u) < Rank(t) \/ (Rank(u) = Rank(t) /\ u \in ahead[t])

\* The queue is scanned in order and the first row that fits gets the slot.
Eligible(t, queued, held) ==
  /\ Fits(t, held)
  /\ \A u \in queued \ {t} : Before(u, t) => ~Fits(u, held)

-------------------------------------------------------------------------------

\* __init__ and _initialize: purge, adopt or check the limits.  A conflict
\* with a remaining row raises and rolls the purge back: nothing changes.
Open(c, limits) ==
  /\ proc[c] = "down"
  /\ config \in {NoConfig, limits}
       \/ Present(Purged(request)) \cup Present(Purged(lease)) = {}
  /\ config' = limits
  /\ proc' = [proc EXCEPT ![c] = "open"]
  /\ request' = Purged(request)
  /\ lease' = Purged(lease)
  /\ UNCHANGED <<stalls, pc, ahead, beating>>

\* acquire: refused once _closed is set; requested_at is read before the row
\* is written, so rows may be inserted in another order than they were stamped.
Stamp(t) ==
  /\ pc[t] \in {"idle", "lost"}
  /\ proc[Owner[t]] = "open"
  /\ t \notin Present(request) \cup Present(lease)
  /\ pc' = [pc EXCEPT ![t] = "stamped"]
  /\ ahead' = [LeftQueue(t) EXCEPT ![t] =
                 {v \in Tasks : pc[v] \in {"stamped", "waiting"} \/ v \in Present(request)}]
  /\ UNCHANGED <<stalls, config, proc, request, lease, beating>>

\* _insert_request.  The expiry counts from requested_at: a process that
\* stalled before the insert may write a row that has little or no time left.
InsertRequest(t) ==
  /\ pc[t] = "stamped"
  /\ Alive(t)
  /\ \E ttl \in Row \ {Absent} :
       /\ stalls \/ ttl = LeaseTicks
       /\ request' = [Purged(request) EXCEPT ![t] = ttl]
  /\ lease' = Purged(lease)
  /\ pc' = [pc EXCEPT ![t] = "waiting"]
  /\ UNCHANGED <<stalls, config, proc, ahead, beating>>

\* _insert_request raises: acquire has not entered its try block yet.
InsertFails(t) ==
  /\ pc[t] = "stamped"
  /\ Alive(t)
  /\ pc' = [pc EXCEPT ![t] = "idle"]
  /\ ahead' = LeftQueue(t)
  /\ UNCHANGED <<stalls, config, proc, request, lease, beating>>

\* A poll renews its row, or writes it again if it was purged while the loop
\* is alive, and purges the expired ones before it looks at the queue.
Polls(t) ==
  /\ pc[t] = "waiting"
  /\ Alive(t)
  /\ t \in Present(request) \/ proc[Owner[t]] = "open"

RenewedRequests(t) == Purged([request EXCEPT ![t] = LeaseTicks])

\* _try_promote_request returns a lease; the heartbeat thread starts.
Grant(t) ==
  /\ Polls(t)
  /\ Eligible(t, Present(RenewedRequests(t)), Present(Purged(lease)))
  /\ request' = [RenewedRequests(t) EXCEPT ![t] = Absent]
  /\ lease' = [Purged(lease) EXCEPT ![t] = LeaseTicks]
  /\ pc' = [pc EXCEPT ![t] = "running"]
  /\ beating' = beating \cup {t}
  /\ ahead' = LeftQueue(t)
  /\ UNCHANGED <<stalls, config, proc>>

\* _try_promote_request commits the renewal and returns None.
KeepWaiting(t) ==
  /\ Polls(t)
  /\ ~Eligible(t, Present(RenewedRequests(t)), Present(Purged(lease)))
  /\ request' = RenewedRequests(t)
  /\ lease' = Purged(lease)
  /\ UNCHANGED <<stalls, config, proc, pc, ahead, beating>>

\* The wait ends without a slot: cancelled, wait=False, a database error, or
\* the row is gone and the coordinator closed.  The delete may fail as well.
LeaveQueue(t) ==
  /\ pc[t] = "waiting"
  /\ Alive(t)
  /\ \/ request' = WithoutRows(request, {t}) /\ ahead' = LeftQueue(t)
     \/ UNCHANGED <<request, ahead>>
  /\ pc' = [pc EXCEPT ![t] = "idle"]
  /\ UNCHANGED <<stalls, config, proc, lease, beating>>

\* _heartbeat_loop: renew the lease; once its row is gone the thread returns,
\* and nobody tells the task.
Renew(t) ==
  /\ t \in beating
  /\ Alive(t)
  /\ request' = Purged(request)
  /\ IF lease[t] \in {Absent, 0}
     THEN lease' = Purged(lease) /\ beating' = beating \ {t}
     ELSE lease' = [Purged(lease) EXCEPT ![t] = LeaseTicks] /\ UNCHANGED beating
  /\ UNCHANGED <<stalls, config, proc, pc, ahead>>

\* HeavyTaskLease.release: the heartbeat is stopped before the row is deleted,
\* and a delete that fails leaves the row to its expiry.
Release(t) ==
  /\ pc[t] = "running"
  /\ Alive(t)
  /\ lease' \in {lease, WithoutRows(lease, {t})}
  /\ pc' = [pc EXCEPT ![t] = "idle"]
  /\ beating' = beating \ {t}
  /\ UNCHANGED <<stalls, config, proc, request, ahead>>

\* snapshot(): the transaction behind _publish_snapshot and the Dashboard's
\* occupancy panel purges too.
Snapshot(c) ==
  /\ proc[c] # "down"
  /\ request' = Purged(request)
  /\ lease' = Purged(lease)
  /\ UNCHANGED <<stalls, config, proc, pc, ahead, beating>>

\* close(): _closed is set first, and polls and heartbeats go on in between.
BeginClose(c) ==
  /\ proc[c] = "open"
  /\ proc' = [proc EXCEPT ![c] = "closing"]
  /\ UNCHANGED <<stalls, config, pc, request, lease, ahead, beating>>

\* The rows of this owner are deleted, those of running work included; a
\* database error leaves them all.
FinishClose(c) ==
  /\ proc[c] = "closing"
  /\ proc' = [proc EXCEPT ![c] = "closed"]
  /\ \/ /\ request' = WithoutRows(request, RowsOf(c))
        /\ lease' = WithoutRows(lease, RowsOf(c))
     \/ UNCHANGED <<request, lease>>
  /\ UNCHANGED <<stalls, config, pc, ahead, beating>>

\* The process ends, by a crash or after close(): its threads are gone and
\* the rows it leaves belong to an owner_id nobody has any more.
Exit(c) ==
  /\ proc[c] # "down"
  /\ proc' = [proc EXCEPT ![c] = "down"]
  /\ pc' = [t \in Tasks |->
              IF Owner[t] # c THEN pc[t]
              ELSE IF t \in Present(request) \cup Present(lease) THEN "lost" ELSE "idle"]
  /\ beating' = beating \ OwnedBy(c)
  /\ UNCHANGED <<stalls, config, request, lease, ahead>>

\* One tick of the wall clock.  Unless the host stalls, every live poll and heartbeat
\* (0.1 s and 5 s) comes round before the 15 s of its row run out.
ElapsedPastExpiry(table) == [t \in Tasks |-> table[t] - 1]
Elapsed(table) == [t \in Tasks |-> IF table[t] > 0 THEN table[t] - 1 ELSE table[t]]

Tick ==
  /\ stalls \/ \A t \in Tasks :
       /\ pc[t] = "waiting" => request[t] # 1
       /\ t \in beating => lease[t] # 1
  /\ Elapsed(request) # request \/ Elapsed(lease) # lease
  /\ request' = Elapsed(request)
  /\ lease' = Elapsed(lease)
  /\ UNCHANGED <<stalls, config, proc, pc, ahead, beating>>

-------------------------------------------------------------------------------
Poll(t) == Grant(t) \/ KeepWaiting(t)

TaskStep(t) ==
  \/ Stamp(t) \/ InsertRequest(t) \/ InsertFails(t) \/ Grant(t) \/ KeepWaiting(t)
  \/ LeaveQueue(t) \/ Renew(t) \/ Release(t)

CoordinatorStep(c) ==
  \/ \E limits \in LimitChoices : Open(c, limits)
  \/ Snapshot(c) \/ BeginClose(c) \/ FinishClose(c) \/ Exit(c)

Next ==
  \/ \E t \in Tasks : TaskStep(t)
  \/ \E c \in Coordinators : CoordinatorStep(c)
  \/ Tick

Spec == Init /\ [][Next]_vars

\* Threads of a live process get to run, work ends, and time passes.
Fairness ==
  /\ \A t \in Tasks :
       /\ WF_vars(Poll(t)) /\ WF_vars(Renew(t)) /\ WF_vars(Release(t))
  /\ \A c \in Coordinators : WF_vars(Snapshot(c))
  /\ WF_vars(Tick)

FairSpec == Spec /\ Fairness

-------------------------------------------------------------------------------
Leased == Present(lease)
Running == {t \in Tasks : pc[t] = "running"}

\* _try_promote_request: however rows are purged, re-inserted, orphaned and
\* re-limited, the leases of all processes together stay within the limits in
\* force, and vision leaves a heavy slot to the GIF path if there are two.
Capacity ==
  /\ Cardinality(Leased) <= config.heavy
  /\ Cardinality(Leased \cap VisionTasks) <= config.vision
  /\ config.heavy >= 2 => Cardinality(Leased \cap VisionTasks) < config.heavy

\* The rows, clocks and processes of this module implement the plain pool.
Pool == INSTANCE SlotPool WITH
          Vision <- VisionTasks, limits <- config, holders <- Leased
PoolPromise == Pool!PoolSpec

\* While no process stalls for a whole lease, a running task of a coordinator
\* that is not closed holds a lease, although five other transactions purge
\* rows without looking at whose they are.
RunningHoldsSlot ==
  ~stalls => \A t \in Running : proc[Owner[t]] # "closed" => t \in Leased

\* What is executing, rather than what the table says, stays within the limits.
OpenRunning == {t \in Running : proc[Owner[t]] # "closed"}
RunningWithinLimits ==
  ~stalls =>
    /\ Cardinality(OpenRunning) <= config.heavy
    /\ Cardinality(OpenRunning \cap VisionTasks) <= config.vision

\* Grant order, for processes that do not stall: a task is not promoted while
\* a task that it may not overtake waits in a live, open coordinator: a GIF in
\* the case of vision work, an earlier stamp of its own kind otherwise.
MayNotOvertake(t, u) ==
  /\ pc[u] = "waiting"
  /\ proc[Owner[u]] = "open"
  /\ \/ Kind[u] = GifKind /\ Kind[t] # GifKind
     \/ Kind[u] = Kind[t] /\ u \in ahead[t]

GrantOrder ==
  [][~stalls => \A t \in Tasks : t \in Running' \ Running =>
       \A u \in Tasks \ {t} : ~MayNotOvertake(t, u)]_vars

\* A GIF that waits in a live, open coordinator does not wait forever, whatever
\* vision work, dead owners, undeleted rows and later GIFs do.
Served(t) == []<>(pc[t] # "waiting" \/ proc[Owner[t]] # "open")

\* The rows of an owner that died are reclaimed as long as one process that
\* reads the database remains.
Reclaimed(t) ==
  pc[t] = "lost"
    ~> t \notin Present(request) \cup Leased \/ \A c \in Coordinators : proc[c] = "down"
===============================================================================
