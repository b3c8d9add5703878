--------------------------- MODULE ArticlePublisher ---------------------------
(***************************************************************************)
(* ArticlePublisher with its GIF store and the pool of author accounts.    *)
(* The Dashboard and the monitor each own a publisher: a lock serialises   *)
(* the calls of one process, and all processes share the database, the GIF *)
(* store and the account file.  A call reads the GIF, stores and uploads   *)
(* it, binds the match to an author, and asks the platform for an article; *)
(* publish() also keeps a record per event and content.                    *)
(***************************************************************************)
EXTENDS Naturals, FiniteSets

CONSTANTS Processes,    \* each with its own ArticlePublisher
          Publishes,    \* the processes whose pages call publish()
          Events, Match, \* events, and the match of each
          Gifs,         \* contents, that is, gif_ids
          Accounts,     \* authors that may be in the pool
          None,
          MaxCalls,     \* calls of publishers (bound)
          MaxChanges    \* crashes, new files and pool edits (bound)

Operations == {"publish", "create", "update"}
Matches == {Match[e] : e \in Events}

VARIABLES
    source,     \* the GIF of each event on disk; a new encoding replaces it
    stored,     \* contents in PublishedGifStore
    uploaded,   \* article_uploaded_gifs: last upload of each event
    assigned,   \* article_publish_account_assignments: author of each match
    pool,       \* enabled accounts of the pool file
    rule,       \* per process: author fixed for the competition, or None
    records,    \* article_publish_records: status per event and content
    articles,   \* what the platform holds
    call,       \* per process: the call under its lock
    calls, changes

durable == <<stored, uploaded, assigned, records>>
vars == <<source, durable, pool, rule, articles, call, calls, changes>>

\* competition_publish_accounts: the environment names an author or does not.
Rules == Accounts \cup {None}

NoCall == [at |-> "idle", op |-> None, event |-> None, gif |-> None, shown |-> None, author |-> None]

At(p, step) == [call EXCEPT ![p].at = step]
Ends(p) == [call EXCEPT ![p] = NoCall]
Id(p) == <<call[p].event, call[p].gif>>

(***************************************************************************)
(* A call begins and makes its GIF public.                                 *)
(***************************************************************************)

Begin(p, e, op) ==
    /\ call[p].at = "idle"
    /\ calls < MaxCalls
    /\ calls' = calls + 1
    /\ op = "publish" => p \in Publishes
    /\ op = "update" => \E a \in articles : a.event = e
    /\ call' = [call EXCEPT ![p] = [NoCall EXCEPT !.at = "reading", !.op = op, !.event = e]]
    /\ UNCHANGED <<source, durable, pool, rule, articles, changes>>

\* A mapping is reused only for the very content it was made from.
Reusable(p, gif) == uploaded[call[p].event] = gif

\* create_bytes: content addressed, written once.  What is not an animated GIF
\* ends the call.
StoreGif(p) ==
    /\ call[p].at = "reading"
    /\ LET gif == source[call[p].event] IN
         \/ stored' = stored \cup {gif} /\ call' = [call EXCEPT ![p].gif = gif, ![p].at = "stored"]
         \/ call' = Ends(p) /\ UNCHANGED stored
    /\ UNCHANGED <<source, uploaded, assigned, pool, rule, records, articles, calls, changes>>

\* ensure_cover, which may fail with the GIF stored; then the cached upload.
MakeCover(p) ==
    /\ call[p].at = "stored"
    /\ \/ /\ Reusable(p, call[p].gif)
          /\ call' = [call EXCEPT ![p].shown = uploaded[call[p].event], ![p].at = "ready"]
       \/ ~Reusable(p, call[p].gif) /\ call' = At(p, "uploading")
       \/ call' = Ends(p)
    /\ UNCHANGED <<source, durable, pool, rule, articles, calls, changes>>

\* _save_uploaded_mapping: the last upload of an event counts.
Mapped(p) ==
    /\ uploaded' = [uploaded EXCEPT ![call[p].event] = call[p].gif]
    /\ call' = [call EXCEPT ![p].shown = call[p].gif, ![p].at = "ready"]

\* The image endpoint of the platform takes GIF and cover; an answer without
\* usable addresses of both ends the call.
UploadImages(p) ==
    /\ call[p].at = "uploading"
    /\ Mapped(p) \/ (call' = Ends(p) /\ UNCHANGED uploaded)
    /\ UNCHANGED <<source, stored, assigned, pool, rule, records, articles, calls, changes>>

\* With a GIF server, that takes it, or answers with another content and the
\* call ends; without one the copy in the store is what articles show.
UploadRemote(p) ==
    /\ call[p].at = "uploading"
    /\ \/ Mapped(p)
       \/ call' = Ends(p) /\ UNCHANGED uploaded
       \/ call' = [call EXCEPT ![p].shown = call[p].gif, ![p].at = "ready"] /\ UNCHANGED uploaded
    /\ UNCHANGED <<source, stored, assigned, pool, rule, records, articles, calls, changes>>

\* publish() of a content that is published already answers from its record.
Replays(p) == call[p].op = "publish" /\ records[Id(p)] = "success"

Replay(p) ==
    /\ call[p].at = "ready" /\ Replays(p)
    /\ call' = Ends(p)
    /\ UNCHANGED <<source, durable, pool, rule, articles, calls, changes>>

(***************************************************************************)
(* The author.                                                             *)
(***************************************************************************)

Usage(a) == Cardinality({m \in Matches : assigned[m] = a})
LeastUsed == {a \in pool : \A b \in pool : Usage(a) <= Usage(b)}

\* The pool is asked although the match has its author.
ChosenAnew(p, m) == IF rule[p] # None THEN {rule[p]} ELSE LeastUsed

\* One transaction: the match's author if it has one, the competition's, or
\* one of the least used.
Chosen(p, m) ==
    IF assigned[m] # None THEN {assigned[m]}
    ELSE IF rule[p] # None THEN {rule[p]}
    ELSE LeastUsed

\* An update of a draft whose match has no author leaves the author alone.
Assign(p) ==
    /\ call[p].at = "ready" /\ ~Replays(p)
    /\ LET m == Match[call[p].event] IN
         IF call[p].op = "update" /\ assigned[m] = None
         THEN call' = At(p, "assigned") /\ UNCHANGED assigned
         ELSE IF Chosen(p, m) = {}
         THEN call' = Ends(p) /\ UNCHANGED assigned
         ELSE \E a \in Chosen(p, m) :
                /\ assigned' = [assigned EXCEPT ![m] = a]
                /\ call' = [call EXCEPT ![p].author = a, ![p].at = "assigned"]
    /\ UNCHANGED <<source, stored, uploaded, pool, rule, records, articles, calls, changes>>

(***************************************************************************)
(* The record and the platform.                                            *)
(***************************************************************************)

Recorded(p, status) ==
    IF call[p].op = "publish" THEN [records EXCEPT ![Id(p)] = status] ELSE records

SavePrepared(p) ==
    /\ call[p].at = "assigned"
    /\ records' = Recorded(p, "prepared")
    /\ call' = At(p, "prepared")
    /\ UNCHANGED <<source, stored, uploaded, assigned, pool, rule, articles, calls, changes>>

\* GIF and cover must be reachable at their public addresses.
VerifyMedia(p) ==
    /\ call[p].at = "prepared"
    /\ \/ records' = Recorded(p, "publishing") /\ call' = At(p, "sending")
       \/ records' = Recorded(p, "failed") /\ call' = Ends(p)
    /\ UNCHANGED <<source, stored, uploaded, assigned, pool, rule, articles, calls, changes>>

Article(p) == [event |-> call[p].event, gif |-> call[p].gif, shown |-> call[p].shown,
               author |-> call[p].author, by |-> call[p].op]

\* An update replaces the article of the event and keeps its author if it has
\* none to set.
Updated(p) ==
    {IF a.event # call[p].event THEN a
     ELSE [Article(p) EXCEPT !.author = IF @ = None THEN a.author ELSE @] : a \in articles}

\* create_article: the platform accepts, refuses, or accepts with an answer
\* that is lost on its way.
Send(p) ==
    /\ call[p].at = "sending"
    /\ \/ /\ articles' = IF call[p].op = "update" THEN Updated(p) ELSE articles \cup {Article(p)}
          /\ \/ call' = At(p, "answered") /\ UNCHANGED records
             \/ call' = Ends(p) /\ records' = Recorded(p, "failed")
       \/ UNCHANGED articles /\ call' = Ends(p) /\ records' = Recorded(p, "failed")
    /\ UNCHANGED <<source, stored, uploaded, assigned, pool, rule, calls, changes>>

SaveSuccess(p) ==
    /\ call[p].at = "answered"
    /\ records' = Recorded(p, "success")
    /\ call' = Ends(p)
    /\ UNCHANGED <<source, stored, uploaded, assigned, pool, rule, articles, calls, changes>>

(***************************************************************************)
(* The world around.                                                       *)
(***************************************************************************)

Change == changes < MaxChanges /\ changes' = changes + 1

\* A process dies in its call and comes back, perhaps with another rule.
Restart(p) ==
    /\ Change
    /\ call' = Ends(p)
    /\ \E r \in Rules : rule' = [rule EXCEPT ![p] = r]
    /\ UNCHANGED <<source, durable, pool, articles, calls>>

EncodeAgain(e) ==
    /\ Change
    /\ \E g \in Gifs : source' = [source EXCEPT ![e] = g]
    /\ UNCHANGED <<durable, pool, rule, articles, call, calls>>

ReplaceAccounts ==
    /\ Change
    /\ \E P \in SUBSET Accounts : pool' = P
    /\ UNCHANGED <<source, durable, rule, articles, call, calls>>

Init ==
    /\ source \in [Events -> Gifs]
    /\ stored = {} /\ articles = {}
    /\ uploaded = [e \in Events |-> None]
    /\ assigned = [m \in Matches |-> None]
    /\ pool = Accounts
    /\ rule = [p \in Processes |-> None]
    /\ records = [x \in Events \X Gifs |-> None]
    /\ call = [p \in Processes |-> NoCall]
    /\ calls = 0 /\ changes = 0

Step(p) ==
    \/ StoreGif(p) \/ MakeCover(p) \/ UploadImages(p) \/ UploadRemote(p) \/ Replay(p) \/ Assign(p)
    \/ SavePrepared(p) \/ VerifyMedia(p) \/ Send(p) \/ SaveSuccess(p)

Next ==
    \/ \E p \in Processes : Step(p) \/ Restart(p)
    \/ \E p \in Processes, e \in Events, op \in Operations : Begin(p, e, op)
    \/ \E e \in Events : EncodeAgain(e)
    \/ ReplaceAccounts

Spec == Init /\ [][Next]_vars
------------------------------------------------------------------------------
TypeOK ==
    /\ source \in [Events -> Gifs]
    /\ stored \subseteq Gifs
    /\ uploaded \in [Events -> Gifs \cup {None}]
    /\ assigned \in [Matches -> Accounts \cup {None}]
    /\ pool \subseteq Accounts
    /\ rule \in [Processes -> Rules]
    /\ records \in [Events \X Gifs -> {None, "prepared", "publishing", "failed", "success"}]
    /\ \A a \in articles : a.event \in Events /\ a.gif \in stored /\ a.by \in Operations
    /\ \A p \in Processes :
         /\ call[p].at \in {"idle", "reading", "stored", "uploading", "ready", "assigned", "prepared",
                            "sending", "answered"}
         /\ call[p].op \in Operations \cup {None}
    /\ calls \in 0..MaxCalls /\ changes \in 0..MaxChanges

(***************************************************************************)
(* A match speaks with one voice: all articles about it carry one author,  *)
(* although two processes may ask for it first at the same time, accounts  *)
(* are edited and a competition gets its own author in the middle of the   *)
(* match (_account_for_assignment: "a rule added mid-match does not split  *)
(* one match across two authors").                                         *)
(***************************************************************************)
OneAuthor ==
    \A a, b \in articles :
       Match[a.event] = Match[b.event] /\ a.author # None /\ b.author # None => a.author = b.author

(***************************************************************************)
(* An article shows the content its call read: neither the cached upload   *)
(* of an earlier encoding nor what the other process uploaded for the same *)
(* event meanwhile (_prepare_public_gif, uploaded_gif_for).                *)
(***************************************************************************)
ShownIsRead == \A a \in articles : a.shown = a.gif

(***************************************************************************)
(* Once publish() has recorded success for an event and a content, no call *)
(* takes that back or publishes it a second time, also after a restart.    *)
(***************************************************************************)
StaysPublished ==
    \A x \in Events \X Gifs : records[x] = "success" =>
        /\ records'[x] = "success"
        /\ \A a \in articles' \ articles : a.by # "publish" \/ <<a.event, a.gif>> # x
===============================================================================
