--------------------------- MODULE HeavySlotsProofs ---------------------------
(***************************************************************************)
(* Proofs about HeavySlots, for every set of processes and tasks, every    *)
(* choice of limits and every length of lease.                             *)
(***************************************************************************)
EXTENDS HeavySlots, FiniteSetTheorems, TLAPS

\* Purging a table and writing a row keep it a table.
LEMMA TableSteps ==
  ASSUME NEW table \in [Tasks -> Row], NEW t \in Tasks, NEW ttl \in Row
  PROVE  /\ Purged(table) \in [Tasks -> Row]
         /\ [table EXCEPT ![t] = ttl] \in [Tasks -> Row]
  BY LeaseTicksType DEF Purged, Row, Absent

\* The type invariant: every transaction leaves the rows, the life cycles and
\* the order of the queue well formed.
THEOREM TypeCorrect == Spec => []TypeOK
<1>1. Init => TypeOK
  BY LeaseTicksType DEF Init, TypeOK, Row, Absent
<1>2. TypeOK /\ [Next]_vars => TypeOK'
  <2> SUFFICES ASSUME TypeOK, [Next]_vars PROVE TypeOK'
    OBVIOUS
  <2> USE DEF TypeOK
  <2>1. LeaseTicks \in Row /\ Absent \in Row
    BY LeaseTicksType DEF Row, Absent
  <2>2. ASSUME NEW t \in Tasks, Stamp(t) PROVE TypeOK'
    BY <2>2 DEF Stamp, LeftQueue
  <2>3. ASSUME NEW t \in Tasks, InsertRequest(t) PROVE TypeOK'
    <3>1. PICK ttl \in Row : request' = [Purged(request) EXCEPT ![t] = ttl]
      BY <2>3 DEF InsertRequest
    <3>2. request' \in [Tasks -> Row] /\ lease' \in [Tasks -> Row]
      BY <2>1, <2>3, <3>1, TableSteps DEF InsertRequest
    <3>. QED
      BY <2>3, <3>2 DEF InsertRequest
  <2>4. ASSUME NEW t \in Tasks, InsertFails(t) PROVE TypeOK'
    BY <2>4 DEF InsertFails, LeftQueue
  <2>5. ASSUME NEW t \in Tasks, Grant(t) PROVE TypeOK'
    <3>1. RenewedRequests(t) \in [Tasks -> Row] /\ Purged(lease) \in [Tasks -> Row]
      BY <2>1, TableSteps DEF RenewedRequests
    <3>2. request' \in [Tasks -> Row] /\ lease' \in [Tasks -> Row]
      BY <2>1, <2>5, <3>1 DEF Grant
    <3>. QED
      BY <2>5, <3>2 DEF Grant, LeftQueue
  <2>6. ASSUME NEW t \in Tasks, KeepWaiting(t) PROVE TypeOK'
    <3>1. RenewedRequests(t) \in [Tasks -> Row] /\ Purged(lease) \in [Tasks -> Row]
      BY <2>1, TableSteps DEF RenewedRequests
    <3>. QED
      BY <2>6, <3>1 DEF KeepWaiting
  <2>7. ASSUME NEW t \in Tasks, LeaveQueue(t) PROVE TypeOK'
    <3>1. WithoutRows(request, {t}) \in [Tasks -> Row]
      BY <2>1 DEF WithoutRows
    <3>. QED
      BY <2>7, <3>1 DEF LeaveQueue, LeftQueue
  <2>8. ASSUME NEW t \in Tasks, Renew(t) PROVE TypeOK'
    <3>1. Purged(request) \in [Tasks -> Row] /\ Purged(lease) \in [Tasks -> Row]
      BY <2>1, TableSteps
    <3>. QED
      BY <2>1, <2>8, <3>1 DEF Renew
  <2>9. ASSUME NEW t \in Tasks, Release(t) PROVE TypeOK'
    <3>1. WithoutRows(lease, {t}) \in [Tasks -> Row]
      BY <2>1 DEF WithoutRows
    <3>. QED
      BY <2>9, <3>1 DEF Release
  <2>10. ASSUME NEW c \in Coordinators, NEW limits \in LimitChoices, Open(c, limits)
         PROVE  TypeOK'
    <3>1. request' \in [Tasks -> Row] /\ lease' \in [Tasks -> Row]
      BY <2>10, LeaseTicksType DEF Open, Purged, Row, Absent
    <3>. QED
      BY <2>10, <3>1 DEF Open
  <2>11. ASSUME NEW c \in Coordinators, Snapshot(c) PROVE TypeOK'
    <3>1. request' \in [Tasks -> Row] /\ lease' \in [Tasks -> Row]
      BY <2>11, LeaseTicksType DEF Snapshot, Purged, Row, Absent
    <3>. QED
      BY <2>11, <3>1 DEF Snapshot
  <2>12. ASSUME NEW c \in Coordinators, BeginClose(c) PROVE TypeOK'
    BY <2>12 DEF BeginClose
  <2>13. ASSUME NEW c \in Coordinators, FinishClose(c) PROVE TypeOK'
    <3>1. request' \in [Tasks -> Row] /\ lease' \in [Tasks -> Row]
      BY <2>1, <2>13 DEF FinishClose, WithoutRows
    <3>. QED
      BY <2>13, <3>1 DEF FinishClose
  <2>14. ASSUME NEW c \in Coordinators, Exit(c) PROVE TypeOK'
    BY <2>14 DEF Exit
  <2>15. CASE Tick
    <3>1. request' \in [Tasks -> Row] /\ lease' \in [Tasks -> Row]
      BY <2>15, LeaseTicksType DEF Tick, Elapsed, Row, Absent
    <3>. QED
      BY <2>15, <3>1 DEF Tick
  <2>16. CASE UNCHANGED vars
    BY <2>16 DEF vars
  <2>. QED
    BY <2>2, <2>3, <2>4, <2>5, <2>6, <2>7, <2>8, <2>9, <2>10, <2>11, <2>12, <2>13,
       <2>14, <2>15, <2>16 DEF Next, TaskStep, CoordinatorStep
<1>. QED
  BY <1>1, <1>2, PTL DEF Spec

-------------------------------------------------------------------------------
\* The capacity of one set of leases under given limits.
Within(held, limits) ==
  /\ Cardinality(held) <= limits.heavy
  /\ Cardinality(held \cap VisionTasks) <= limits.vision
  /\ limits.heavy >= 2 => Cardinality(held \cap VisionTasks) < limits.heavy

\* Sets of tasks are finite, so their sizes are numbers.
LEMMA FiniteSubsets ==
  ASSUME NEW held \in SUBSET Tasks
  PROVE  /\ IsFiniteSet(held) /\ IsFiniteSet(held \cap VisionTasks)
         /\ Cardinality(held) \in Nat
         /\ Cardinality(held \cap VisionTasks) \in Nat
<1>1. IsFiniteSet(held)
  BY TasksFinite, FS_Subset
<1>2. IsFiniteSet(held \cap VisionTasks)
  BY <1>1, FS_Subset
<1>. QED
  BY <1>1, <1>2, FS_CardinalityType

\* Rows that disappear never break a limit.
LEMMA FewerStayWithin ==
  ASSUME NEW held \in SUBSET Tasks, NEW fewer \in SUBSET held,
         NEW limits \in LimitChoices \cup {NoConfig}, Within(held, limits)
  PROVE  Within(fewer, limits)
<1>1. Cardinality(fewer) <= Cardinality(held)
  BY FiniteSubsets, FS_Subset
<1>2. Cardinality(fewer \cap VisionTasks) <= Cardinality(held \cap VisionTasks)
  <2>1. fewer \cap VisionTasks \in SUBSET (held \cap VisionTasks)
    OBVIOUS
  <2>. QED
    BY <2>1, FiniteSubsets, FS_Subset
<1>3. limits.heavy \in Nat /\ limits.vision \in Nat
  BY LimitsType DEF NoConfig
<1>4. fewer \in SUBSET Tasks
  OBVIOUS
<1>. QED
  BY <1>1, <1>2, <1>3, <1>4, FiniteSubsets DEF Within

\* No lease is within any limits.
LEMMA NobodyIsWithin ==
  ASSUME NEW limits \in LimitChoices PROVE Within({}, limits)
<1>1. {} \cap VisionTasks = {}
  OBVIOUS
<1>2. limits.heavy \in Nat /\ limits.vision \in Nat
  BY LimitsType
<1>. QED
  BY <1>1, <1>2, FS_EmptySet DEF Within

\* The test of _try_promote_request admits exactly one more.
LEMMA OneMoreWithin ==
  ASSUME NEW held \in SUBSET Tasks, NEW t \in Tasks,
         config \in LimitChoices \cup {NoConfig},
         Within(held, config), Fits(t, held)
  PROVE  Within(held \cup {t}, config)
<1>1. config.heavy \in Nat /\ config.vision \in Nat
  BY LimitsType DEF NoConfig
<1>2. Cardinality(held \cup {t}) <= Cardinality(held) + 1
  <2>1. IsFiniteSet(held) /\ Cardinality(held) \in Nat
    BY FiniteSubsets
  <2>2. Cardinality(held \cup {t})
          = IF t \in held THEN Cardinality(held) ELSE Cardinality(held) + 1
    BY <2>1, FS_AddElement
  <2>. QED
    BY <2>1, <2>2
<1>3. Cardinality(held \cup {t}) <= config.heavy
  <2>1. held \cup {t} \in SUBSET Tasks
    OBVIOUS
  <2>2. Cardinality(held \cup {t}) \in Nat /\ Cardinality(held) \in Nat
    BY <2>1, FiniteSubsets
  <2>3. Cardinality(held) + 1 <= config.heavy
    BY DEF Fits
  <2>. QED
    BY <1>1, <1>2, <2>2, <2>3
<1>4. CASE t \in VisionTasks
  <2>1. (held \cup {t}) \cap VisionTasks = (held \cap VisionTasks) \cup {t}
    BY <1>4
  <2>2. Cardinality((held \cap VisionTasks) \cup {t})
          <= Cardinality(held \cap VisionTasks) + 1
    BY FiniteSubsets, FS_AddElement
  <2>3. /\ Cardinality(held \cap VisionTasks) + 1 <= config.vision
        /\ Cardinality(held \cap VisionTasks) + 1 <= MaximumActiveVision(config)
    BY <1>4 DEF Fits
  <2>4. held \cup {t} \in SUBSET Tasks
    OBVIOUS
  <2>5. Cardinality((held \cup {t}) \cap VisionTasks) \in Nat
    BY <2>4, FiniteSubsets
  <2>6. Cardinality(held \cap VisionTasks) \in Nat
    BY FiniteSubsets
  <2>. QED
    BY <1>1, <1>3, <2>1, <2>2, <2>3, <2>5, <2>6 DEF Within, MaximumActiveVision
<1>5. CASE t \notin VisionTasks
  <2>1. (held \cup {t}) \cap VisionTasks = held \cap VisionTasks
    BY <1>5
  <2>. QED
    BY <1>3, <2>1 DEF Within
<1>. QED
  BY <1>4, <1>5

\* What a step may do to the leases: it removes some, or it purges and adds one
\* that fits, or it finds none left and sets the limits.
LeasesShrink == Leased' \subseteq Leased /\ config' = config
LeaseGranted ==
  \E t \in Tasks :
    /\ Fits(t, Present(Purged(lease)))
    /\ Leased' = Present(Purged(lease)) \cup {t}
    /\ config' = config
LimitsSet ==
  /\ config' \in LimitChoices
  /\ Leased' \subseteq Leased
  /\ config' = config \/ config = NoConfig \/ Leased' = {}

\* A purge only takes leases away.
LEMMA PurgeShrinks == Present(Purged(lease)) \subseteq Leased
BY DEF Present, Purged, Leased, Absent

\* Every step is one of the three.
LEMMA LeaseSteps ==
  ASSUME TypeOK, [Next]_vars
  PROVE  LeasesShrink \/ LeaseGranted \/ LimitsSet
<1> USE DEF Leased
<1>1. ASSUME NEW t \in Tasks, Stamp(t) \/ InsertFails(t) \/ LeaveQueue(t)
      PROVE  LeasesShrink
  BY <1>1 DEF Stamp, InsertFails, LeaveQueue, LeasesShrink
<1>2. ASSUME NEW t \in Tasks, InsertRequest(t) \/ KeepWaiting(t)
      PROVE  LeasesShrink
  BY <1>2, PurgeShrinks DEF InsertRequest, KeepWaiting, LeasesShrink
<1>3. ASSUME NEW t \in Tasks, Grant(t) PROVE LeaseGranted
  <2>1. Fits(t, Present(Purged(lease)))
    BY <1>3 DEF Grant, Eligible
  <2>2. lease' = [Purged(lease) EXCEPT ![t] = LeaseTicks] /\ config' = config
    BY <1>3 DEF Grant
  <2>3. Purged(lease) = [u \in Tasks |-> Purged(lease)[u]]
    BY DEF Purged
  <2>4. Present(lease') = Present(Purged(lease)) \cup {t}
    BY <2>2, <2>3, LeaseTicksType DEF Present, Absent
  <2>. QED
    BY <2>1, <2>2, <2>4 DEF LeaseGranted
<1>4. ASSUME NEW t \in Tasks, Renew(t) PROVE LeasesShrink
  <2>1. CASE lease[t] \in {Absent, 0}
    BY <1>4, <2>1, PurgeShrinks DEF Renew, LeasesShrink
  <2>2. CASE lease[t] \notin {Absent, 0}
    BY <1>4, <2>2 DEF Renew, LeasesShrink, Present, Purged
  <2>. QED
    BY <2>1, <2>2
<1>5. ASSUME NEW t \in Tasks, Release(t) PROVE LeasesShrink
  BY <1>5 DEF Release, LeasesShrink, Present, WithoutRows
<1>6. ASSUME NEW c \in Coordinators, NEW limits \in LimitChoices, Open(c, limits)
      PROVE  LimitsSet
  <2>1. Leased' \subseteq Leased
    BY <1>6, PurgeShrinks DEF Open
  <2>2. config \in {NoConfig, limits} \/ Leased' = {}
    BY <1>6 DEF Open
  <2>. QED
    BY <1>6, <2>1, <2>2 DEF Open, LimitsSet
<1>7. ASSUME NEW c \in Coordinators, Snapshot(c) PROVE LeasesShrink
  BY <1>7, PurgeShrinks DEF Snapshot, LeasesShrink
<1>8. ASSUME NEW c \in Coordinators, BeginClose(c) \/ Exit(c) PROVE LeasesShrink
  BY <1>8 DEF BeginClose, Exit, LeasesShrink
<1>9. ASSUME NEW c \in Coordinators, FinishClose(c) PROVE LeasesShrink
  BY <1>9 DEF FinishClose, LeasesShrink, Present, WithoutRows
<1>10. CASE Tick
  BY <1>10 DEF Tick, Elapsed, LeasesShrink, Present, Absent, TypeOK, Row
<1>11. CASE UNCHANGED vars
  BY <1>11 DEF vars, LeasesShrink
<1>. QED
  BY <1>1, <1>2, <1>3, <1>4, <1>5, <1>6, <1>7, <1>8, <1>9, <1>10, <1>11
     DEF Next, TaskStep, CoordinatorStep

\* The limits hold for the leases of all processes together, in every state.
THEOREM CapacityHolds == Spec => []Capacity
<1>1. Init => Capacity
  <2> SUFFICES ASSUME Init PROVE Capacity
    OBVIOUS
  <2>1. Leased = {} /\ Leased \cap VisionTasks = {}
    BY DEF Init, Leased, Present
  <2>. QED
    BY <2>1, FS_EmptySet DEF Init, Capacity, NoConfig
<1>2. TypeOK /\ Capacity /\ [Next]_vars => Capacity'
  <2> SUFFICES ASSUME TypeOK, Capacity, [Next]_vars PROVE Capacity'
    OBVIOUS
  <2>1. Leased \in SUBSET Tasks /\ config \in LimitChoices \cup {NoConfig}
    BY DEF Leased, Present, TypeOK
  <2>2. Within(Leased, config)
    BY DEF Capacity, Within
  <2>3. CASE LeasesShrink
    BY <2>1, <2>2, <2>3, FewerStayWithin DEF LeasesShrink, Capacity, Within
  <2>4. CASE LeaseGranted
    <3>1. PICK t \in Tasks :
            /\ Fits(t, Present(Purged(lease)))
            /\ Leased' = Present(Purged(lease)) \cup {t}
            /\ config' = config
      BY <2>4 DEF LeaseGranted
    <3>2. Present(Purged(lease)) \in SUBSET Leased
      BY PurgeShrinks
    <3>3. Within(Present(Purged(lease)), config)
      BY <2>1, <2>2, <3>2, FewerStayWithin
    <3>4. Within(Leased', config)
      BY <2>1, <3>1, <3>2, <3>3, OneMoreWithin
    <3>. QED
      BY <3>1, <3>4 DEF Capacity, Within
  <2>5. CASE LimitsSet
    <3>1. Within(Leased', config')
      <4>1. CASE config' = config
        BY <2>1, <2>2, <2>5, <4>1, FewerStayWithin DEF LimitsSet
      <4>2. CASE config = NoConfig
        <5>1. Cardinality(Leased) = 0
          BY <2>1, <2>2, <4>2, FiniteSubsets DEF Within, NoConfig
        <5>2. Leased' = {}
          BY <2>1, <2>5, <5>1, FiniteSubsets, FS_EmptySet DEF LimitsSet
        <5>. QED
          BY <2>5, <5>2, NobodyIsWithin DEF LimitsSet
      <4>3. CASE Leased' = {}
        BY <2>5, <4>3, NobodyIsWithin DEF LimitsSet
      <4>. QED
        BY <2>5, <4>1, <4>2, <4>3 DEF LimitsSet
    <3>. QED
      BY <3>1 DEF Capacity, Within
  <2>. QED
    BY <2>3, <2>4, <2>5, LeaseSteps
<1>. QED
  BY <1>1, <1>2, TypeCorrect, PTL DEF Spec

-------------------------------------------------------------------------------
\* Why a running task holds its slot while no process stalls: its heartbeat is
\* alive and its lease has at least a tick left whenever anyone purges.
HeldByHeartbeat ==
  ~stalls => \A t \in Running :
    /\ Alive(t)
    /\ proc[Owner[t]] # "closed" => t \in beating /\ lease[t] > 0

\* Every step keeps it: a running task renews its lease before it can expire.
LEMMA HeartbeatInv == TypeOK /\ HeldByHeartbeat /\ [Next]_vars => HeldByHeartbeat'
<1> SUFFICES ASSUME TypeOK, HeldByHeartbeat, [Next]_vars PROVE HeldByHeartbeat'
  OBVIOUS
<1> USE OwnerType DEF HeldByHeartbeat, Running, Alive, TypeOK
<1>1. ASSUME NEW t \in Tasks, Stamp(t) \/ InsertFails(t) \/ LeaveQueue(t)
      PROVE  HeldByHeartbeat'
  BY <1>1 DEF Stamp, InsertFails, LeaveQueue
<1>2. ASSUME NEW t \in Tasks, InsertRequest(t) \/ KeepWaiting(t)
      PROVE  HeldByHeartbeat'
  BY <1>2 DEF InsertRequest, KeepWaiting, Purged
<1>3. ASSUME NEW t \in Tasks, Grant(t) PROVE HeldByHeartbeat'
  BY <1>3, LeaseTicksType DEF Grant, Polls, Purged
<1>4. ASSUME NEW t \in Tasks, Renew(t) PROVE HeldByHeartbeat'
  <2>. SUFFICES ASSUME ~stalls PROVE HeldByHeartbeat'
    BY <1>4 DEF Renew
  <2>1. pc' = pc /\ proc' = proc
    BY <1>4 DEF Renew
  <2>2. CASE lease[t] \in {Absent, 0}
    <3>1. lease' = Purged(lease) /\ beating' = beating \ {t}
      BY <1>4, <2>2 DEF Renew
    <3>2. ASSUME NEW u \in Tasks, lease[u] > 0 PROVE u # t /\ lease'[u] = lease[u]
      BY <2>2, <3>1, <3>2 DEF Purged, Absent
    <3>. QED
      BY <2>1, <3>1, <3>2
  <2>3. CASE lease[t] \notin {Absent, 0}
    <3>1. lease' = [Purged(lease) EXCEPT ![t] = LeaseTicks] /\ beating' = beating
      BY <1>4, <2>3 DEF Renew
    <3>2. ASSUME NEW u \in Tasks, lease[u] > 0 PROVE lease'[u] > 0
      BY <3>1, <3>2, LeaseTicksType DEF Purged
    <3>. QED
      BY <2>1, <3>1, <3>2
  <2>. QED
    BY <2>2, <2>3
<1>5. ASSUME NEW t \in Tasks, Release(t) PROVE HeldByHeartbeat'
  BY <1>5 DEF Release, WithoutRows
<1>6. ASSUME NEW c \in Coordinators, NEW limits \in LimitChoices, Open(c, limits)
      PROVE  HeldByHeartbeat'
  BY <1>6 DEF Open, Purged
<1>7. ASSUME NEW c \in Coordinators, Snapshot(c) \/ BeginClose(c)
      PROVE  HeldByHeartbeat'
  BY <1>7 DEF Snapshot, BeginClose, Purged
<1>8. ASSUME NEW c \in Coordinators, FinishClose(c) PROVE HeldByHeartbeat'
  BY <1>8 DEF FinishClose, WithoutRows, RowsOf, OwnedBy
<1>9. ASSUME NEW c \in Coordinators, Exit(c) PROVE HeldByHeartbeat'
  BY <1>9 DEF Exit, OwnedBy
<1>10. CASE Tick
  BY <1>10 DEF Tick, Elapsed, Row
<1>11. CASE UNCHANGED vars
  BY <1>11 DEF vars
<1>. QED
  BY <1>1, <1>2, <1>3, <1>4, <1>5, <1>6, <1>7, <1>8, <1>9, <1>10, <1>11
     DEF Next, TaskStep, CoordinatorStep

\* A task that runs under an open coordinator holds a lease in every state.
THEOREM RunningHoldsSlotHolds == Spec => []RunningHoldsSlot
<1>1. Init => HeldByHeartbeat
  BY DEF Init, HeldByHeartbeat, Running
<1>2. TypeOK /\ HeldByHeartbeat /\ [Next]_vars => HeldByHeartbeat'
  BY HeartbeatInv
<1>3. HeldByHeartbeat => RunningHoldsSlot
  BY DEF HeldByHeartbeat, RunningHoldsSlot, Leased, Present, Running, Absent
<1>. QED
  BY <1>1, <1>2, <1>3, TypeCorrect, PTL DEF Spec

\* What executes under open coordinators, counted over all processes, stays
\* within the limits of the database.
THEOREM RunningWithinLimitsHolds == Spec => []RunningWithinLimits
<1>1. TypeOK /\ Capacity /\ RunningHoldsSlot => RunningWithinLimits
  <2> SUFFICES ASSUME TypeOK, Capacity, RunningHoldsSlot, ~stalls
               PROVE  RunningWithinLimits
    BY DEF RunningWithinLimits
  <2>1. OpenRunning \in SUBSET Leased /\ Leased \in SUBSET Tasks
    BY DEF RunningHoldsSlot, OpenRunning, Leased, Present
  <2>2. config \in LimitChoices \cup {NoConfig} /\ Within(Leased, config)
    BY DEF Capacity, Within, TypeOK
  <2>3. Within(OpenRunning, config)
    BY <2>1, <2>2, FewerStayWithin
  <2>. QED
    BY <2>3 DEF Within, RunningWithinLimits
<1>. QED
  BY <1>1, TypeCorrect, CapacityHolds, RunningHoldsSlotHolds, PTL

-------------------------------------------------------------------------------
\* Why nobody is overtaken while no process stalls: a task that waits in a live,
\* open process renews its row before it can expire, so that whoever polls sees it.
QueuedByPolls ==
  ~stalls => \A t \in Tasks : pc[t] = "waiting" =>
    /\ Alive(t)
    /\ proc[Owner[t]] # "closed" => request[t] > 0

\* Every step keeps it: a poll comes round before the row has run out, and the
\* purges of others spare it.
LEMMA QueuedInv == TypeOK /\ QueuedByPolls /\ [Next]_vars => QueuedByPolls'
<1> SUFFICES ASSUME TypeOK, QueuedByPolls, [Next]_vars PROVE QueuedByPolls'
  OBVIOUS
<1> USE OwnerType DEF QueuedByPolls, Alive, TypeOK
<1>1. ASSUME NEW t \in Tasks, Stamp(t) \/ InsertFails(t) PROVE QueuedByPolls'
  BY <1>1 DEF Stamp, InsertFails
<1>2. ASSUME NEW t \in Tasks, InsertRequest(t) PROVE QueuedByPolls'
  BY <1>2, LeaseTicksType DEF InsertRequest, Purged
<1>3. ASSUME NEW t \in Tasks, Grant(t) PROVE QueuedByPolls'
  BY <1>3 DEF Grant, RenewedRequests, Purged
<1>4. ASSUME NEW t \in Tasks, KeepWaiting(t) PROVE QueuedByPolls'
  BY <1>4, LeaseTicksType DEF KeepWaiting, RenewedRequests, Purged
<1>5. ASSUME NEW t \in Tasks, LeaveQueue(t) PROVE QueuedByPolls'
  BY <1>5 DEF LeaveQueue, WithoutRows
<1>6. ASSUME NEW t \in Tasks, Renew(t) PROVE QueuedByPolls'
  <2>1. pc' = pc /\ proc' = proc /\ stalls' = stalls /\ request' = Purged(request)
    BY <1>6 DEF Renew
  <2>. QED
    BY <2>1 DEF Purged
<1>7. ASSUME NEW t \in Tasks, Release(t) PROVE QueuedByPolls'
  BY <1>7 DEF Release
<1>8. ASSUME NEW c \in Coordinators, NEW limits \in LimitChoices, Open(c, limits)
      PROVE  QueuedByPolls'
  BY <1>8 DEF Open, Purged
<1>9. ASSUME NEW c \in Coordinators, Snapshot(c) \/ BeginClose(c)
      PROVE  QueuedByPolls'
  BY <1>9 DEF Snapshot, BeginClose, Purged
<1>10. ASSUME NEW c \in Coordinators, FinishClose(c) PROVE QueuedByPolls'
  BY <1>10 DEF FinishClose, WithoutRows, RowsOf, OwnedBy
<1>11. ASSUME NEW c \in Coordinators, Exit(c) PROVE QueuedByPolls'
  BY <1>11 DEF Exit, OwnedBy
<1>12. CASE Tick
  BY <1>12 DEF Tick, Elapsed, Row
<1>13. CASE UNCHANGED vars
  BY <1>13 DEF vars
<1>. QED
  BY <1>1, <1>2, <1>3, <1>4, <1>5, <1>6, <1>7, <1>8, <1>9, <1>10, <1>11, <1>12,
     <1>13 DEF Next, TaskStep, CoordinatorStep

\* A slot starts to be used by nothing but a grant.
LEMMA OnlyGrantsStart ==
  ASSUME TypeOK, [Next]_vars, NEW t \in Tasks, t \in Running' \ Running
  PROVE  Grant(t)
<1> USE DEF TypeOK, Running
<1>1. ASSUME NEW u \in Tasks, Stamp(u) \/ InsertRequest(u) \/ InsertFails(u)
      PROVE  FALSE
  BY <1>1 DEF Stamp, InsertRequest, InsertFails
<1>2. ASSUME NEW u \in Tasks, KeepWaiting(u) \/ LeaveQueue(u) PROVE FALSE
  BY <1>2 DEF KeepWaiting, LeaveQueue
<1>3. ASSUME NEW u \in Tasks, Renew(u) \/ Release(u) PROVE FALSE
  BY <1>3 DEF Renew, Release
<1>4. ASSUME NEW u \in Tasks, Grant(u) PROVE u = t
  BY <1>4 DEF Grant
<1>5. ASSUME NEW c \in Coordinators, CoordinatorStep(c) PROVE FALSE
  BY <1>5 DEF CoordinatorStep, Open, Snapshot, BeginClose, FinishClose, Exit
<1>6. CASE Tick
  BY <1>6 DEF Tick
<1>7. CASE UNCHANGED vars
  BY <1>7 DEF vars
<1>. QED
  BY <1>1, <1>2, <1>3, <1>4, <1>5, <1>6, <1>7 DEF Next, TaskStep

\* A task that may not be overtaken is scanned first, and it fits whenever the
\* task behind it fits.
LEMMA ScannedFirst ==
  ASSUME TypeOK, NEW t \in Tasks, NEW u \in Tasks \ {t}, NEW held \in SUBSET Tasks,
         MayNotOvertake(t, u), Fits(t, held)
  PROVE  Before(u, t) /\ Fits(u, held)
<1>1. Kind[t] \in VisionKinds \cup {GifKind} /\ Kind[u] \in VisionKinds \cup {GifKind}
  BY KindType
<1>2. CASE Kind[u] = GifKind /\ Kind[t] # GifKind
  <2>1. Rank(u) = 0 /\ Rank(t) \in {1, 2}
    BY <1>1, <1>2 DEF Rank, VisionKinds, GifKind
  <2>2. u \notin VisionTasks
    BY <1>2 DEF VisionTasks, VisionKinds, GifKind
  <2>. QED
    BY <2>1, <2>2 DEF Before, Fits
<1>3. CASE Kind[u] = Kind[t] /\ u \in ahead[t]
  <2>1. Rank(u) = Rank(t) /\ (u \in VisionTasks => t \in VisionTasks)
    BY <1>3 DEF Rank, VisionTasks
  <2>. QED
    BY <1>3, <2>1 DEF Before, Fits
<1>. QED
  BY <1>2, <1>3 DEF MayNotOvertake

\* Without stalls no slot is granted over the head of a GIF, or of an earlier
\* request of the same kind, that waits in a live, open process, however rows were
\* purged, written again and inserted out of order.
THEOREM GrantOrderHolds == Spec => GrantOrder
<1>1. Init => QueuedByPolls
  BY DEF Init, QueuedByPolls
<1>2. TypeOK /\ QueuedByPolls /\ [Next]_vars => QueuedByPolls'
  BY QueuedInv
<1>3. TypeOK /\ QueuedByPolls /\ [Next]_vars =>
        [~stalls => \A t \in Tasks : t \in Running' \ Running =>
           \A u \in Tasks \ {t} : ~MayNotOvertake(t, u)]_vars
  <2>. SUFFICES ASSUME TypeOK, QueuedByPolls, [Next]_vars, ~stalls,
                       NEW t \in Tasks, t \in Running' \ Running,
                       NEW u \in Tasks \ {t}, MayNotOvertake(t, u)
                PROVE  FALSE
    OBVIOUS
  <2>1. Grant(t)
    BY OnlyGrantsStart
  <2>2. request[u] > 0
    BY DEF QueuedByPolls, MayNotOvertake
  <2>3. u \in Present(RenewedRequests(t)) \ {t}
    BY <2>2 DEF Present, RenewedRequests, Purged, Absent, TypeOK
  <2>4. Present(Purged(lease)) \in SUBSET Tasks
    BY DEF Present
  <2>5. Fits(t, Present(Purged(lease)))
    BY <2>1 DEF Grant, Eligible
  <2>6. Before(u, t) /\ Fits(u, Present(Purged(lease)))
    BY <2>4, <2>5, ScannedFirst
  <2>. QED
    BY <2>1, <2>3, <2>6 DEF Grant, Eligible
<1>. QED
  BY <1>1, <1>2, <1>3, TypeCorrect, PTL DEF Spec, GrantOrder

-------------------------------------------------------------------------------
\* Processes, rows and clocks implement the plain pool of SlotPool: a grant is
\* a Take of a task that fits after the expired leases went, an Open that sets
\* the limits is a Configure, and all the rest lets holders leave.
\* The pool counts as this module does.
LEMMA PoolCardinality == \A S : Pool!Cardinality(S) = Cardinality(S)
BY DEF Cardinality, Pool!Cardinality

\* Every step is one of the pool or leaves it as it is.
LEMMA PoolSteps ==
  ASSUME TypeOK, Capacity, [Next]_vars
  PROVE  [Pool!PoolNext]_(Pool!poolVars)
<1>1. CASE LeasesShrink
  BY <1>1 DEF LeasesShrink, Pool!PoolNext, Pool!Leave
<1>2. CASE LeaseGranted
  <2>1. PICK t \in Tasks :
          /\ Fits(t, Present(Purged(lease)))
          /\ Leased' = Present(Purged(lease)) \cup {t}
          /\ config' = config
    BY <1>2 DEF LeaseGranted
  <2> DEFINE staying == Present(Purged(lease)) \ {t}
  <2>2. staying \in SUBSET Leased /\ t \notin staying
    BY PurgeShrinks
  <2>3. Present(Purged(lease)) \in SUBSET Tasks /\ staying \in SUBSET Tasks
    BY DEF Present
  <2>4. config.heavy \in Nat /\ config.vision \in Nat
    BY LimitsType DEF TypeOK, NoConfig
  <2>5. Cardinality(staying) <= Cardinality(Present(Purged(lease)))
    BY <2>3, FiniteSubsets, FS_Subset
  <2>6. Cardinality(staying \cap VisionTasks)
          <= Cardinality(Present(Purged(lease)) \cap VisionTasks)
    <3>1. staying \cap VisionTasks \in SUBSET (Present(Purged(lease)) \cap VisionTasks)
      OBVIOUS
    <3>. QED
      BY <2>3, <3>1, FiniteSubsets, FS_Subset
  <2>7. /\ Cardinality(staying) \in Nat
        /\ Cardinality(staying \cap VisionTasks) \in Nat
        /\ Cardinality(Present(Purged(lease))) \in Nat
        /\ Cardinality(Present(Purged(lease)) \cap VisionTasks) \in Nat
    BY <2>3, FiniteSubsets
  <2>8. Cardinality(staying) < config.heavy
    BY <2>1, <2>4, <2>5, <2>7 DEF Fits
  <2>9. t \in VisionTasks => Cardinality(staying \cap VisionTasks) < Pool!VisionCap
    BY <2>1, <2>4, <2>6, <2>7 DEF Fits, MaximumActiveVision, Pool!VisionCap
  <2>10. Leased' = staying \cup {t}
    BY <2>1
  <2>11. Pool!Take(t)
    <3>1. config' = config
      BY <2>1
    <3>2. \E left \in SUBSET Leased :
            /\ t \notin left
            /\ Cardinality(left) < config.heavy
            /\ t \in VisionTasks => Cardinality(left \cap VisionTasks) < Pool!VisionCap
            /\ Leased' = left \cup {t}
      <4> HIDE DEF staying
      <4>. QED
        BY <2>2, <2>8, <2>9, <2>10
    <3>. QED
      BY <3>1, <3>2, PoolCardinality DEF Pool!Take
  <2>. QED
    BY <2>11 DEF Pool!PoolNext
<1>3. CASE LimitsSet
  <2>1. Leased \in SUBSET Tasks
    BY DEF Leased, Present
  <2>2. config = NoConfig => Leased = {}
    <3>1. config = NoConfig => Cardinality(Leased) = 0
      BY <2>1, FiniteSubsets DEF Capacity, NoConfig
    <3>. QED
      BY <2>1, <3>1, FiniteSubsets, FS_EmptySet
  <2>3. config' = config \/ Leased' = {}
    BY <1>3, <2>2 DEF LimitsSet
  <2>. QED
    BY <1>3, <2>3 DEF LimitsSet, Pool!PoolNext, Pool!Leave, Pool!Configure
<1>. QED
  BY <1>1, <1>2, <1>3, LeaseSteps

\* The coordinator keeps what SlotPool promises: leases are granted within the
\* limits in force and given up only by leaving (the steps of
\* heavy_task_coordinator.py map to steps of the pool or to stutters).
THEOREM PoolRefined == Spec => PoolPromise
<1>1. Init => Pool!PoolInit
  BY DEF Init, Pool!PoolInit, Leased, Present, NoConfig, Pool!NoLimits
<1>2. TypeOK /\ Capacity /\ [Next]_vars => [Pool!PoolNext]_(Pool!poolVars)
  BY PoolSteps
<1>. QED
  BY <1>1, <1>2, TypeCorrect, CapacityHolds, PTL
     DEF Spec, PoolPromise, Pool!PoolSpec
===============================================================================
