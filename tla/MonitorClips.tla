----------------------------- MODULE MonitorClips -----------------------------
(***************************************************************************)
(* The clips of one match in the monitor: captures, the groups of GIFs     *)
(* that share one title, append mode, publishing and later updates of an   *)
(* article.  A group lives in the sidecar files of its clips: the main GIF *)
(* lists its attachments, each attachment names its parent.                *)
(*                                                                         *)
(* A capture is slow (it encodes) and runs beside everything else; the     *)
(* requests that only edit sidecars are taken one at a time.  The delivery *)
(* queue of ArticleDelivery appears as the status of its tasks.            *)
(***************************************************************************)
EXTENDS Naturals, Sequences

CONSTANTS Clips,        \* GIFs that may be captured
          Keys,         \* event keys: the second a clip is anchored at
          Operators,    \* who is signed in
          None,
          MaxArmings,   \* times append mode is switched on (bound)
          MaxUpdates    \* updates of one article (bound)

VARIABLES
    clips,      \* captured GIFs
    parent,     \* sidecar: the main GIF a clip is folded under
    attached,   \* sidecar: attachments of a main GIF
    discarded,  \* sidecar: clips the operator gave up
    key,        \* sidecar: event_key
    sentWith,   \* sidecar: published_attachments
    updates,    \* sidecar: attachments named by each update
    task,       \* delivery task of an event key: main GIF, GIFs, status
    edit,       \* update tasks of an event key
    article,    \* GIFs the platform shows for an event key
    target,     \* _ClipAppendStore: where an operator's next capture goes
    encoding,   \* captures that encode, with the target they claimed
    armings,
    folded      \* for each arming, the captures it put under its target

groups == <<parent, attached, key>>
history == <<sentWith, updates>>
delivery == <<task, edit, article>>
append == <<target, encoding, armings, folded>>
vars == <<clips, groups, discarded, history, delivery, append>>

NoTask == [main |-> None, body |-> {}, status |-> "none"]
NoTarget == [clip |-> None, arming |-> 0]
Idle == [by |-> None, claim |-> NoTarget]

(***************************************************************************)
(* What a request reads.                                                   *)
(***************************************************************************)

\* _clip_group_main
Main(c) == IF parent[c] = None THEN c ELSE parent[c]

HasRecord(c) == \E k \in Keys : task[k].main = c
RecordKey(c) == CHOOSE k \in Keys : task[k].main = c
Delivered(c) == \E k \in Keys : task[k].main = c /\ task[k].status = "delivered"

\* _published_attachments: rows without the list sent all they have.
Published(m) == IF sentWith[m] = None THEN attached[m] ELSE sentWith[m]

\* _list_clips: what the page shows under a main GIF, and its rows.
Under(m) == {a \in attached[m] \cap clips : parent[a] = m}
Rows == clips \ UNION {Under(m) : m \in clips}

\* _supplement_state
Sent(m) == Published(m) \cup UNION {updates[m][i] : i \in {j \in 1..Len(updates[m]) :
                                       edit[RecordKey(m)][j].status = "delivered"}}
Busy(m) == updates[m] # <<>> /\ edit[RecordKey(m)][Len(updates[m])].status = "queued"
Updating(m) == IF Busy(m) THEN updates[m][Len(updates[m])] \ Sent(m) ELSE {}

\* _attachment_movable
Movable(m, c) ==
    HasRecord(m) => Delivered(m) /\ c \notin Sent(m) \cup Updating(m)

\* _clip_group_open_reason
OpenFor(m) == m \notin discarded /\ (HasRecord(m) => Delivered(m))

\* _freeze_published_attachments
Frozen(m) == [sentWith EXCEPT ![m] = Published(m)]

(***************************************************************************)
(* Groups.                                                                 *)
(***************************************************************************)

\* Only the clip itself moves.
MovingAlone(c, m) == {c}

\* The clip moves with what is attached to it.
Moving(c, m) == {c} \cup (attached[c] \ {m})

Attachable(c, m) ==
    /\ c # m /\ c \notin discarded /\ ~HasRecord(c)
    /\ parent[c] # None => parent[c] # m /\ Movable(parent[c], c)
    /\ OpenFor(m)

\* _attach_clip
Fold(c, m) ==
    LET group == Moving(c, m) IN
    /\ parent' = [x \in Clips |-> IF x \in group THEN m ELSE IF x = m THEN None ELSE parent[x]]
    /\ attached' = [x \in Clips |-> IF x \in group THEN {}
                                    ELSE IF x = m THEN attached[m] \cup group
                                    ELSE attached[x] \ {c}]
    /\ sentWith' = IF HasRecord(m) THEN Frozen(m) ELSE sentWith

Attach(c, t) ==
    /\ {c, t} \subseteq clips /\ Attachable(c, Main(t))
    /\ Fold(c, Main(t))
    /\ UNCHANGED <<clips, key, discarded, updates, delivery, append>>

Detach(c) ==
    /\ c \in clips /\ parent[c] # None /\ Movable(parent[c], c)
    /\ attached' = [attached EXCEPT ![parent[c]] = @ \ {c}]
    /\ parent' = [parent EXCEPT ![c] = None]
    /\ UNCHANGED <<clips, key, discarded, history, delivery, append>>

\* The article's identity moves onto the promoted GIF, and so does append mode.
SetMain(c) ==
    LET old == parent[c] IN
    /\ c \in clips /\ old # None /\ ~HasRecord(old)
    /\ attached' = [attached EXCEPT ![c] = {old} \cup (attached[old] \ {c}), ![old] = {}]
    /\ parent' = [x \in Clips |-> IF x = c THEN None
                                  ELSE IF x \in {old} \cup attached[old] THEN c ELSE parent[x]]
    /\ key' = [key EXCEPT ![c] = key[old], ![old] = key[c]]
    /\ target' = [o \in Operators |-> IF target[o].clip = old THEN [target[o] EXCEPT !.clip = c]
                                      ELSE target[o]]
    /\ UNCHANGED <<clips, discarded, history, delivery, encoding, armings, folded>>

Disarmed(c) == [o \in Operators |-> IF target[o].clip = c THEN NoTarget ELSE target[o]]

Discard(c) ==
    /\ c \in clips \ discarded /\ parent[c] = None /\ ~HasRecord(c)
    /\ discarded' = discarded \cup {c}
    /\ target' = Disarmed(c)
    /\ UNCHANGED <<clips, groups, history, delivery, encoding, armings, folded>>

Restore(c) ==
    /\ c \in discarded /\ parent[c] = None
    /\ discarded' = discarded \ {c}
    /\ UNCHANGED <<clips, groups, history, delivery, append>>

(***************************************************************************)
(* Append mode and captures.                                               *)
(***************************************************************************)

\* monitor_clip_append
Arm(o, c) ==
    /\ c \in clips /\ OpenFor(Main(c)) /\ armings < MaxArmings
    /\ armings' = armings + 1
    /\ target' = [target EXCEPT ![o] = [clip |-> Main(c), arming |-> armings']]
    /\ UNCHANGED <<clips, groups, discarded, history, delivery, encoding, folded>>

\* Switched off, timed out, or found stale.
Disarm(o) ==
    /\ target[o] # NoTarget
    /\ target' = [target EXCEPT ![o] = NoTarget]
    /\ UNCHANGED <<clips, groups, discarded, history, delivery, encoding, armings, folded>>

\* A capture claims its target before it encodes.
Takes(o) == target' = [target EXCEPT ![o] = NoTarget]

Free == {c \in Clips \ clips : encoding[c] = Idle}

\* monitor_clip and monitor_ext_clip
StartCapture(o, c) ==
    /\ c \in Free
    /\ encoding' = [encoding EXCEPT ![c] = [by |-> o, claim |-> target[o]]]
    /\ Takes(o)
    /\ UNCHANGED <<clips, groups, discarded, history, delivery, armings, folded>>

\* The claim goes back, unless the operator has armed again.
CaptureFails(c) ==
    LET o == encoding[c].by IN
    /\ o # None
    /\ target' = IF target[o] = NoTarget THEN [target EXCEPT ![o] = encoding[c].claim] ELSE target
    /\ encoding' = [encoding EXCEPT ![c] = Idle]
    /\ UNCHANGED <<clips, groups, discarded, history, delivery, armings, folded>>

\* _attach_pending_clip: folded under the claimed target if that still takes it.
FoldClaimed(c, claim) ==
    IF claim # NoTarget /\ OpenFor(Main(claim.clip))
    THEN Fold(c, Main(claim.clip)) /\ folded' = [folded EXCEPT ![claim.arming] = @ \cup {c}]
    ELSE UNCHANGED <<parent, attached, sentWith, folded>>

\* The sidecar is written, with the second of the anchor as event key.
CaptureDone(c) ==
    /\ encoding[c] # Idle
    /\ clips' = clips \cup {c}
    /\ encoding' = [encoding EXCEPT ![c] = Idle]
    /\ \E k \in Keys : key' = [key EXCEPT ![c] = k]
    /\ FoldClaimed(c, encoding[c].claim)
    /\ UNCHANGED <<discarded, updates, delivery, target, armings>>

(***************************************************************************)
(* Publishing.                                                             *)
(***************************************************************************)

Queued(c) == [main |-> c, body |-> {c} \cup attached[c], status |-> "queued"]

\* monitor_clip_publish and enqueue: the task of a delivered key is only
\* returned, one with the same file is left as it is, another is replaced.
Publish(c) ==
    /\ c \in clips \ discarded /\ parent[c] = None
    /\ target' = Disarmed(c)
    /\ \/ /\ task' = IF task[key[c]].main = c \/ task[key[c]].status = "delivered" THEN task
                     ELSE [task EXCEPT ![key[c]] = Queued(c)]
          /\ sentWith' = [sentWith EXCEPT ![c] = attached[c]]
       \/ UNCHANGED <<task, sentWith>>
    /\ UNCHANGED <<clips, groups, discarded, updates, edit, article, encoding, armings, folded>>

\* The worker sends a task, or gives it up.
Deliver(k) ==
    /\ task[k].status = "queued"
    /\ \/ /\ task' = [task EXCEPT ![k].status = "delivered"]
          /\ article' = [article EXCEPT ![k] = task[k].body]
       \/ task' = [task EXCEPT ![k].status = "failed"] /\ UNCHANGED article
    /\ UNCHANGED <<clips, groups, discarded, history, edit, append>>

\* monitor_clip_retry
Retry(k) ==
    /\ task[k].status = "failed"
    /\ task' = [task EXCEPT ![k].status = "queued"]
    /\ UNCHANGED <<clips, groups, discarded, history, edit, article, append>>

\* monitor_clip_update: the whole body again, to the same article.
Update(c) ==
    /\ c \in clips /\ Delivered(c) /\ ~Busy(c)
    /\ attached[c] \ Sent(c) # {} /\ Len(updates[c]) < MaxUpdates
    /\ edit' = [edit EXCEPT ![RecordKey(c)] = Append(@, Queued(c))]
    /\ updates' = [updates EXCEPT ![c] = Append(@, attached[c])]
    /\ sentWith' = Frozen(c)
    /\ UNCHANGED <<clips, groups, discarded, task, article, append>>

DeliverUpdate(k, i) ==
    /\ i <= Len(edit[k]) /\ edit[k][i].status = "queued"
    /\ \/ /\ edit' = [edit EXCEPT ![k][i].status = "delivered"]
          /\ article' = [article EXCEPT ![k] = edit[k][i].body]
       \/ edit' = [edit EXCEPT ![k][i].status = "failed"] /\ UNCHANGED article
    /\ UNCHANGED <<clips, groups, discarded, history, task, append>>

RetryUpdate(k, i) ==
    /\ i <= Len(edit[k]) /\ edit[k][i].status = "failed"
    /\ edit' = [edit EXCEPT ![k][i].status = "queued"]
    /\ UNCHANGED <<clips, groups, discarded, history, task, article, append>>

Init ==
    /\ clips = {} /\ discarded = {}
    /\ parent = [c \in Clips |-> None]
    /\ attached = [c \in Clips |-> {}]
    /\ key = [c \in Clips |-> CHOOSE k \in Keys : TRUE]
    /\ sentWith = [c \in Clips |-> None]
    /\ updates = [c \in Clips |-> <<>>]
    /\ task = [k \in Keys |-> NoTask]
    /\ edit = [k \in Keys |-> <<>>]
    /\ article = [k \in Keys |-> {}]
    /\ target = [o \in Operators |-> NoTarget]
    /\ encoding = [c \in Clips |-> Idle]
    /\ armings = 0 /\ folded = [n \in 1..MaxArmings |-> {}]

ClipStep(c) ==
    \/ Detach(c) \/ SetMain(c) \/ Discard(c) \/ Restore(c)
    \/ CaptureFails(c) \/ CaptureDone(c) \/ Publish(c) \/ Update(c)

Next ==
    \/ \E c \in Clips : ClipStep(c)
    \/ \E c, t \in Clips : Attach(c, t)
    \/ \E o \in Operators : Disarm(o) \/ \E c \in Clips : Arm(o, c) \/ StartCapture(o, c)
    \/ \E k \in Keys : Deliver(k) \/ Retry(k)
                       \/ \E i \in 1..MaxUpdates : DeliverUpdate(k, i) \/ RetryUpdate(k, i)

Spec == Init /\ [][Next]_vars
------------------------------------------------------------------------------
Statuses == {"none", "queued", "failed", "delivered"}
Task == [main : Clips \cup {None}, body : SUBSET Clips, status : Statuses]

TypeOK ==
    /\ clips \subseteq Clips /\ discarded \subseteq clips
    /\ parent \in [Clips -> Clips \cup {None}]
    /\ attached \in [Clips -> SUBSET Clips]
    /\ key \in [Clips -> Keys]
    /\ sentWith \in [Clips -> SUBSET Clips \cup {None}]
    /\ \A c \in Clips : Len(updates[c]) <= MaxUpdates
    /\ task \in [Keys -> Task]
    /\ \A k \in Keys : \A i \in 1..Len(edit[k]) : edit[k][i] \in Task
    /\ article \in [Keys -> SUBSET Clips]
    /\ target \in [Operators -> [clip : Clips \cup {None}, arming : 0..MaxArmings]]
    /\ armings \in 0..MaxArmings

(***************************************************************************)
(* No GIF drops off the page: after any sequence of folding, promoting,    *)
(* detaching and late captures, a clip is a row of its own or is shown     *)
(* under a clip that is one, and nobody else lists it (_attach_clip,       *)
(* monitor_clip_group, _list_clips).                                       *)
(***************************************************************************)
GroupsIntact ==
    \A c \in clips :
      /\ parent[c] = None <=> c \in Rows
      /\ parent[c] # None => parent[c] \in Rows /\ c \in Under(parent[c])
      /\ \A a \in attached[c] : parent[a] = c

(***************************************************************************)
(* Append mode covers exactly one capture: a second one that is already    *)
(* encoding never lands in the group, also when a capture that failed has  *)
(* given its claim back (_ClipAppendStore.take and restore).               *)
(***************************************************************************)
OneCapturePerArming == \A n \in 1..MaxArmings : \A a, b \in folded[n] : a = b
==============================================================================
