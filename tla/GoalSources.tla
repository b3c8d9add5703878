----------------------------- MODULE GoalSources -----------------------------
(***************************************************************************)
(* How the rows of two feeds become tasks.  The overview feed shows a goal *)
(* first without and later with its scorer (HttpMatchEventSource and its   *)
(* EventRevisionTracker); the shotmap feed, read by a thread of its own,   *)
(* shows the scorer and the second (HttpShotmapGoalSource).  A pass of the *)
(* main loop reads both, promotes shotmap candidates, takes them out of    *)
(* the source, merges what two sources say of one goal, makes tasks of the *)
(* rest and then advances the durable cursor.  The process may die between *)
(* any two writes.                                                         *)
(*                                                                         *)
(* A field of an event holds the goal whose value it is, or None.  `at`    *)
(* stands for the minute and the team of that goal, `label` for the team's *)
(* name, which the two feeds write differently.  Overview rows carry a     *)
(* score and a team id, and no id of their own.                            *)
(***************************************************************************)
EXTENDS Naturals, Sequences, FiniteSets, SequencesExt

CONSTANTS
    Goals,
    None,
    Calibrated,    \* match_start is known: a candidate may have an exact anchor
    Versions,      \* bound: versions of a goal's shotmap row (its coordinates)
    MaxStarts      \* bound: processes

VARIABLES
    near,          \* the goals are of one team and at most a minute apart
    feed,          \* the overview row of a goal: "none", "bare" or "named"
    shots,         \* the version of a goal's shotmap row, 0 without one
    starts,        \* processes started so far
    up,            \* the process runs
    \* the store
    tasks,         \* event_tasks in order of discovery: their event data
    suppressed,    \* keys of the tasks that recovery has closed for another
    cursor,        \* event_feed_events, or None before the first snapshot
    aliasRows,     \* event_feed_aliases
    shotSeen,      \* shotmap_feed_events
    snapshot,      \* the goals of last_snapshot_json
    \* the process
    seen,          \* HttpMatchEventSource.seen
    tracker,       \* EventRevisionTracker: version key -> canonical event
    latest,        \* latest_events: canonical key -> event
    response,      \* what the shotmap thread has put into its queue
    initialized,   \* the shotmap source has its baseline
    cores,         \* _known_cores
    pending,       \* _pending_events
    todo,          \* events of this pass not yet handled, with their phase
    polled,        \* the pass has a new overview snapshot
    \* for the properties
    first,         \* how the overview first emitted a goal
    torn           \* goals with a row the process died before it remembered

\* The keys that rows of the feeds can have.  None is neither a goal nor a set of keys.
Shots == UNION {{g} \X (1..Versions[g]) : g \in Goals}
Keys == (Goals \X {"bare", "named"} \X {0}) \cup {<<s[1], "shot", s[2]>> : s \in Shots}
SourcesAssumption ==
    /\ IsFiniteSet(Goals) /\ Versions \in [Goals -> Nat]
    /\ None \notin Goals /\ \A K \in SUBSET Keys : None # K

world == <<near, feed, shots, starts>>
store == <<tasks, suppressed, cursor, aliasRows, shotSeen, snapshot>>
source == <<seen, tracker, latest>>
shotmap == <<response, initialized, cores, pending>>
vars == <<world, up, store, source, shotmap, todo, polled, first, torn>>

-----------------------------------------------------------------------------
(* Events and what two of them have in common *)

Row(g) == [key |-> <<g, feed[g], 0>>, src |-> "overview", at |-> g, label |-> "overview",
           person |-> IF feed[g] = "named" THEN g ELSE None,
           name   |-> IF feed[g] = "named" THEN g ELSE None,
           score  |-> g, second |-> None]
ShotEvent(s) == [key |-> <<s[1], "shot", s[2]>>, src |-> "shotmap", at |-> s[1], label |-> "shotmap",
                 person |-> s[1], name |-> None, score |-> None, second |-> s[1]]

Or(new, old) == IF new = None THEN old ELSE new
Differ(a, b) == a # None /\ b # None /\ a # b
Agree(a, b) == a # None /\ a = b
Close(a, b) == a.at = b.at \/ near

\* merge_event_metadata: blanks do not erase, and a source once named stays
Merged(old, new) ==
    [key    |-> old.key,
     src    |-> IF "shotmap" \in {old.src, new.src} THEN "shotmap" ELSE "overview",
     at     |-> new.at,
     label  |-> new.label,
     person |-> Or(new.person, old.person),
     name   |-> Or(new.name, old.name),
     score  |-> Or(new.score, old.score),
     second |-> Or(new.second, old.second)]

\* events_represent_same_incident; equal details count only where `exact` says so
Details(e) == <<e.at, e.label, e.person, e.name, e.score>>
SameIncident(a, b, exact) ==
    /\ ~Differ(a.second, b.second)
    /\ \/ Details(a) = Details(b) /\ exact
       \/ /\ Details(a) # Details(b)
          /\ a.label = b.label
          /\ Close(a, b)
          /\ \/ Agree(a.second, b.second)
             \/ /\ ~Differ(a.person, b.person)
                /\ \/ Agree(a.person, b.person)
                   \/ /\ ~Differ(a.name, b.name)
                      /\ Agree(a.name, b.name) \/ Agree(a.score, b.score)

\* cross_source_goal_incident, for a shotmap event and an overview event
SameGoal(a, b) ==
    /\ ~Differ(a.second, b.second)
    /\ Close(a, b)
    /\ ~Differ(a.person, b.person)

\* select_cross_source_goal_incident: a set of at most one task
Strong(a, b) == Agree(a.person, b.person) \/ Agree(a.second, b.second)
Selected(e) ==
    LET candidates == {t \in ToSet(tasks) : t.src # e.src /\ SameGoal(t, e)}
        strong     == {t \in candidates : Strong(t, e)}
    IN  IF Cardinality(strong) = 1 THEN strong
        ELSE IF strong = {} /\ Cardinality(candidates) = 1 THEN candidates ELSE {}

\* merge_cross_source_goal: the overview keeps its wording, shotmap its second
CrossMerged(old, new) ==
    LET m == Merged(old, new)
    IN  IF new.src = "shotmap"
        THEN [m EXCEPT !.label = old.label, !.name = Or(old.name, m.name),
                       !.score = Or(old.score, m.score), !.second = new.second]
        ELSE [m EXCEPT !.second = old.second]

TaskKeys == {t.key : t \in ToSet(tasks)}
Update(old, new) == ReplaceAll(tasks, old, new)

-----------------------------------------------------------------------------
(* The revision tracker *)

Canonicals(tr) == {tr[v] : v \in DOMAIN tr}
Grown(tr, v, e) ==
    [w \in DOMAIN tr \cup {v} |->
        IF w = v \/ (w \in DOMAIN tr /\ tr[w].key = e.key) THEN e ELSE tr[w]]
Known(tr, row) == row.key \in DOMAIN tr /\ SameIncident(tr[row.key], row, TRUE)
\* a known version keeps its canonical event; an unknown one joins the only
\* event of its incident that no row of this snapshot with another score has
Track(s, row) ==
    LET like == {c \in Canonicals(s.tracker) : SameIncident(c, row, FALSE)
                    /\ (c.key \in s.matched => ~Differ(c.score, row.score))}
        base == IF Known(s.tracker, row) THEN s.tracker[row.key]
                ELSE IF Cardinality(like) = 1 THEN CHOOSE c \in like : TRUE ELSE row
    IN  [tracker |-> Grown(s.tracker, row.key, Merged(base, row)),
         matched |-> s.matched \cup {base.key}]
\* rows of known versions come first
Reconciled(tr, rows) ==
    LET known == {r \in rows : Known(tr, r)}
    IN  FoldLeft(Track, [tracker |-> tr, matched |-> {}],
                 SetToSeq(known) \o SetToSeq(rows \ known)).tracker

\* load_event_aliases: alias rows, then the tasks, each joined to the one
\* canonical event of its incident
JoinTask(tr, t) ==
    LET like == {c \in Canonicals(tr) : SameIncident(c, t, FALSE)}
        base == IF t.key \in DOMAIN tr THEN tr[t.key]
                ELSE IF Cardinality(like) = 1 THEN CHOOSE c \in like : TRUE ELSE t
    IN  Grown(tr, t.key, Merged(base, t))
LoadAliases == FoldLeft(JoinTask, aliasRows, tasks)

\* recover_incomplete: a task whose incident exactly one earlier task has is
\* merged into it, and suppressed where its GIF is still owed
Recovery(s, t) ==
    LET primary == {p \in s.kept : SameIncident(p, t, TRUE)}
    IN  IF t.key \in suppressed THEN s
        ELSE IF Cardinality(primary) # 1 THEN [s EXCEPT !.kept = @ \cup {t}]
        ELSE LET p == CHOOSE q \in primary : TRUE
             IN  [kept |-> (s.kept \ {p}) \cup {Merged(p, t)}, doubles |-> s.doubles \cup {t.key}]
Recovered == FoldLeft(Recovery, [kept |-> {}, doubles |-> {}], tasks)

-----------------------------------------------------------------------------
Init ==
    /\ near \in BOOLEAN
    /\ feed = [g \in Goals |-> "none"] /\ shots = [g \in Goals |-> 0]
    /\ starts = 0 /\ up = FALSE
    /\ tasks = <<>> /\ suppressed = {} /\ cursor = None /\ aliasRows = <<>>
    /\ shotSeen = {} /\ snapshot = {}
    /\ seen = None /\ tracker = <<>> /\ latest = {}
    /\ response = None /\ initialized = FALSE /\ cores = {} /\ pending = {}
    /\ todo = {} /\ polled = FALSE
    /\ first = [g \in Goals |-> "none"] /\ torn = {}

(* The match: goals happen, and the feeds come to show them.  What they show *)
(* first during a pass is read by the next one, as if it came in between.    *)
Between == todo = {} /\ ~polled
FeedShows(g) ==
    /\ Between
    /\ \E form \in {"bare", "named"} :
         /\ feed[g] = "none" \/ (feed[g] = "bare" /\ form = "named")
         /\ feed' = [feed EXCEPT ![g] = form]
    /\ UNCHANGED <<near, shots, starts, up, store, source, shotmap, todo, polled, first, torn>>
ShotShows(g) ==
    /\ Between
    /\ shots[g] < Versions[g]
    /\ shots' = [shots EXCEPT ![g] = @ + 1]
    /\ UNCHANGED <<near, feed, starts, up, store, source, shotmap, todo, polled, first, torn>>

(* The thread of the shotmap source: a response waits for the main loop *)
Fetch ==
    /\ up /\ Between /\ response = None
    /\ response' = {<<g, shots[g]>> : g \in {h \in Goals : shots[h] > 0}}
    /\ UNCHANGED <<world, up, store, source, initialized, cores, pending, todo, polled, first, torn>>

(* The first response of a process is its baseline; later a fingerprint not *)
(* yet in the store becomes a candidate unless its goal is known            *)
Fresh(r) == IF initialized THEN {s \in r \ shotSeen : s[1] \notin cores} ELSE {}

(* promote_shotmap_goal_candidates: the one new overview event of the goal, *)
(* or an exact anchor whose window is still retained                        *)
Promoted(candidates, new, retained) ==
    LET pairs == {p \in candidates \X new :
                    p[2].src # "shotmap" /\ SameGoal(ShotEvent(p[1]), p[2])}
        of(c)   == {p[2] : p \in {q \in pairs : q[1] = c}}
        with(e) == {p[1] : p \in {q \in pairs : q[2] = e}}
    IN  {c \in candidates :
            \/ Cardinality(of(c)) = 1 /\ \A e \in of(c) : Cardinality(with(e)) = 1
            \/ Calibrated /\ c \in retained}
NotAcknowledged(candidates, promoted) == candidates
Acknowledged(candidates, promoted) == candidates \ promoted

Shown == {g \in Goals : feed[g] # "none"}

(* The start of a pass reads both sources; the overview may not be due *)
Poll(due) ==
    LET rows  == {Row(g) : g \in Shown}
        tr    == IF due THEN Reconciled(tracker, rows) ELSE tracker
        now   == {tr[Row(g).key] : g \in Shown}
        new   == IF due /\ seen # None THEN {e \in now : e.key \notin seen} ELSE {}
        late  == IF due /\ seen # None THEN {e \in now \ latest : e.key \in seen} ELSE {}
        r     == IF response = None THEN {} ELSE response
        cands == pending \cup Fresh(r)
        way(g) == IF seen = None THEN "seeded"
                  ELSE IF tr[Row(g).key] \in new THEN feed[g] ELSE "none"
    IN  /\ up /\ Between
        /\ polled' = due
        /\ tracker' = tr
        /\ seen' = IF due THEN {e.key : e \in now} \cup (IF seen = None THEN {} ELSE seen) ELSE seen
        /\ latest' = IF due THEN now ELSE latest
        /\ response' = None
        /\ initialized' = (initialized \/ response # None)
        /\ cores' = cores \cup {s[1] : s \in r}
        /\ snapshot' = IF response = None THEN snapshot ELSE {s[1] : s \in r}
        /\ shotSeen' = shotSeen \cup r
        /\ first' = [g \in Goals |-> IF due /\ g \in Shown /\ first[g] = "none"
                                     THEN way(g) ELSE first[g]]
        /\ \E retained \in SUBSET cands :
             LET prom  == Promoted(cands, new, retained)
             IN  /\ pending' = Acknowledged(cands, prom)
                 /\ todo' = {[phase |-> 1, event |-> e] : e \in late}
                        \cup {[phase |-> 2, event |-> ShotEvent(c)] : c \in prom}
                        \cup {[phase |-> 3, event |-> e] : e \in new}
        /\ UNCHANGED <<world, up, tasks, suppressed, cursor, aliasRows, torn>>

(* One event of the pass: a revision goes to its own task or, where that has *)
(* nothing to change, to the other source's; a new one is merged or becomes  *)
(* a task                                                                    *)
IntoTask(e, others) ==
    \/ \E t \in others : tasks' = Update(t, CrossMerged(t, e))
    \/ others = {} /\ UNCHANGED tasks
Revise(e) ==
    LET own == {t \in ToSet(tasks) : t.key = e.key /\ Merged(t, e) # t}
    IN  IF own # {} THEN \E t \in own : tasks' = Update(t, Merged(t, e))
        ELSE IntoTask(e, Selected(e))
Discover(e) ==
    IF Selected(e) = {} /\ e.key \notin TaskKeys THEN tasks' = Append(tasks, e)
    ELSE IntoTask(e, Selected(e))
Handle(x) ==
    /\ up /\ x \in todo
    /\ \A y \in todo : x.phase <= y.phase
    /\ IF x.phase = 1 THEN Revise(x.event) ELSE Discover(x.event)
    /\ todo' = todo \ {x}
    /\ UNCHANGED <<world, up, suppressed, cursor, aliasRows, shotSeen, snapshot, source, shotmap, polled, first, torn>>

(* Only then the cursor follows *)
Remember ==
    /\ up /\ todo = {} /\ polled
    /\ cursor' = seen \cup (IF cursor = None THEN {} ELSE cursor)
    /\ aliasRows' = tracker
    /\ polled' = FALSE
    /\ UNCHANGED <<world, up, tasks, suppressed, shotSeen, snapshot, source, shotmap, todo, first, torn>>

Crash ==
    /\ up
    /\ up' = FALSE
    /\ seen' = None /\ tracker' = <<>> /\ latest' = {}
    /\ response' = None /\ initialized' = FALSE /\ cores' = {} /\ pending' = {}
    /\ todo' = {} /\ polled' = FALSE
    /\ torn' = torn \cup {v[1] : v \in {w \in DOMAIN tracker \ DOMAIN aliasRows : w[2] # "shot"}}
    /\ UNCHANGED <<world, store, first>>

Start ==
    /\ ~up /\ starts < MaxStarts
    /\ up' = TRUE /\ starts' = starts + 1
    /\ seen' = cursor
    /\ tracker' = LoadAliases
    /\ latest' = Canonicals(LoadAliases)
    /\ cores' = snapshot
    /\ tasks' = [i \in DOMAIN tasks |->
                    IF \E p \in Recovered.kept : p.key = tasks[i].key
                    THEN CHOOSE p \in Recovered.kept : p.key = tasks[i].key ELSE tasks[i]]
    /\ \E owed \in SUBSET Recovered.doubles : suppressed' = suppressed \cup owed
    /\ UNCHANGED <<near, feed, shots, cursor, aliasRows, shotSeen, snapshot, response, initialized, pending, todo, polled, first, torn>>

Next ==
    \/ \E g \in Goals : FeedShows(g) \/ ShotShows(g)
    \/ Fetch
    \/ \E due \in BOOLEAN : Poll(due)
    \/ \E x \in todo : Handle(x)
    \/ Remember \/ Crash \/ Start

Spec == Init /\ [][Next]_vars

-----------------------------------------------------------------------------
Event == [key : Keys, src : {"overview", "shotmap"},
           at : Goals, label : {"overview", "shotmap"}, person : Goals \cup {None},
           name : Goals \cup {None}, score : Goals \cup {None}, second : Goals \cup {None}]
TypeOK ==
    /\ ToSet(tasks) \subseteq Event
    /\ Canonicals(tracker) \cup Canonicals(aliasRows) \cup latest \subseteq Event
    /\ pending \subseteq shotSeen

Of(t) == IF t.person # None THEN t.person ELSE t.score
Tasks(g) == {i \in DOMAIN tasks : Of(tasks[i]) = g /\ tasks[i].key \notin suppressed}

\* Where the rows can be told apart: no other goal of the team within a minute
\* that was first shown without its scorer, and no process that died between
\* writing a revision and remembering it.
Told(g) == g \notin torn /\ (near => \A h \in Goals : first[h] # "bare")

\* Two feeds, their revisions and the restarts of the process give a goal one
\* task: an acknowledged candidate does not come back, and a shotmap row whose
\* coordinates change is the goal already known (main loop, poll, acknowledge).
OneTaskPerGoal == \A g \in Goals : Told(g) => Cardinality(Tasks(g)) <= 1

\* A goal that the durable cursor has passed while a process watched has its own
\* task: it was not taken for another goal of the same team (the selection of an
\* incident, and remember_event_snapshot as the last write of a pass).
Remembered(g) ==
    \E v \in DOMAIN aliasRows : v[1] = g /\ cursor # None /\ aliasRows[v].key \in cursor
GoalHasTask ==
    \A g \in Goals : first[g] \in {"bare", "named"} /\ Told(g) /\ Remembered(g) => Tasks(g) # {}

\* EventRevisionTracker maps "changing API records onto one durable real-world
\* event", also where the process dies on the way.
OneDurableEvent == \A g \in Goals : near \/ Cardinality(Tasks(g)) <= 1
=============================================================================
