--------------------------- MODULE ArticleDelivery ---------------------------
(***************************************************************************)
(* The delivery queue of src/article_draft_queue.py: one SQLite row per    *)
(* task (match, event, kind), registered by several processes, claimed by  *)
(* a worker under a lease, and turned into an article of the publishing    *)
(* platform, which keeps what it was told whether or not the worker        *)
(* learns of it.                                                           *)
(*                                                                         *)
(* Kinds: "ocr" (ocr_window GIFs, which pass the publication gate and wait *)
(* for a player's name), "clip" (manual_clip, always a new article) and    *)
(* "edit" (manual_edit, re-sends an article that already exists).          *)
(*                                                                         *)
(* Times are kept as what the code compares them with: whether a lease has *)
(* lapsed, whether next_attempt_at_unix is reached, whether the person     *)
(* deadline is ahead or passed.  An artifact is the number of its encoding;*)
(* a lease token is the worker that drew it, which has one claim at a time.*)
(***************************************************************************)
EXTENDS Integers, Sequences, FiniteSets, TLC

CONSTANTS
    Tasks,          \* task keys of article_delivery_tasks
    Kind,           \* [Tasks -> {"ocr", "clip", "edit"}]
    Workers,        \* worker threads, one per process that claims
    WorkerKinds,    \* claim_artifact_kinds of a worker
    Enqueuers,      \* processes that register (event pipeline, maintenance, monitor)
    MaxArtifact,    \* bound on the encodings of a task's GIF
    Archived,       \* articles delivered before, which the edits send again
    Archive,        \* archive_id of each edit, 0 of the other tasks
    Trusted,        \* encodings that pass ocr_publication_eligibility
    RetryLimit,     \* Len(retry_delays_seconds)
    ManualMode,     \* manual_delivery_mode: "publish" or "draft"
    MaxMishaps      \* bound on crashes, lost answers and failed writes

NoOne == "no one"
NoArticle == 0
NoArtifact == 0
InFlight == {"creating", "creating_draft", "publishing"}
Terminal == {"published", "drafted"}
Manual(t) == Kind[t] # "ocr"

ASSUME DeliveryAssumption ==
    /\ Kind \in [Tasks -> {"ocr", "clip", "edit"}]
    /\ WorkerKinds \in [Workers -> SUBSET {"ocr", "clip", "edit"}]
    /\ MaxArtifact \in Nat /\ RetryLimit \in Nat /\ MaxMishaps \in Nat
    /\ Trusted \subseteq 1..MaxArtifact
    /\ ManualMode \in {"publish", "draft"}
    /\ NoOne \notin Workers
    /\ Archived \in Nat
    /\ Archive \in [Tasks -> 0..Archived]
    /\ \A t \in Tasks : Archive[t] # 0 <=> Kind[t] = "edit"
    /\ \A i \in 1..Archived : \E t \in Tasks : Archive[t] = i

VARIABLES
    row,        \* the table: one record per task, status "absent" without a row
    claim,      \* run_once of each worker: its copy of the row and its progress
    read,       \* enqueue of each process: what it read before its transaction
    source,     \* newest encoding on disk of each task's GIF, 0 before the first
    named,      \* tasks whose player the event API knows
    articles,   \* the platform: its articles in order of creation
    mishaps     \* crashes, lost answers and failed writes so far

vars == <<row, claim, read, source, named, articles, mishaps>>

Statuses == {"absent", "queued", "held", "waiting_person", "retry_wait",
             "failed"} \cup InFlight \cup Terminal

Row == [status : Statuses, gen : Nat, owner : Workers \cup {NoOne},
        lapsed : BOOLEAN, due : BOOLEAN, attempts : 0..RetryLimit + 1,
        person : BOOLEAN, eligible : BOOLEAN,
        deadline : {"none", "ahead", "passed"}, article : Nat,
        draftAt : BOOLEAN, artifact : 0..MaxArtifact, duplicate : BOOLEAN,
        reason : {"none", "person", "fallback", "manual"}]

Claim == [step : {"claimed", "held", "staging", "wait", "planned",
                  "calling", "answered"},
          task : Tasks, gen : Nat, attempts : 0..RetryLimit + 1,
          passed : BOOLEAN, artifact : 0..MaxArtifact, archive : Nat,
          mode : {"publish", "draft"},
          reason : {"none", "person", "fallback", "manual"},
          outcome : {"none", "ok", "duplicate", "rejected", "retriable", "auth"},
          article : Nat]

Read == [task : Tasks, person : BOOLEAN, eligible : BOOLEAN,
         artifact : 0..MaxArtifact]

Idle == [step |-> "idle"]
NoRead == [artifact |-> -1]

Article == [task : Tasks, artifact : 0..MaxArtifact, public : BOOLEAN]

Absent == [status |-> "absent", gen |-> 0, owner |-> NoOne, lapsed |-> FALSE,
           due |-> TRUE, attempts |-> 0, person |-> FALSE, eligible |-> FALSE,
           deadline |-> "none", article |-> NoArticle, draftAt |-> FALSE,
           artifact |-> NoArtifact, duplicate |-> FALSE, reason |-> "none"]

TypeOK ==
    /\ row \in [Tasks -> Row]
    /\ claim \in [Workers -> Claim \cup {Idle}]
    /\ read \in [Enqueuers -> Read \cup {NoRead}]
    /\ source \in [Tasks -> 0..MaxArtifact]
    /\ named \in SUBSET Tasks
    /\ articles \in Seq(Article)
    /\ mishaps \in 0..MaxMishaps

-----------------------------------------------------------------------------
(***************************************************************************)
(* The world outside: encodings and names.                                 *)
(***************************************************************************)

(* A task's GIF is encoded for the first time, or again.                   *)
Encode(t) ==
    /\ source[t] < MaxArtifact
    /\ source' = [source EXCEPT ![t] = @ + 1]
    /\ UNCHANGED <<row, claim, read, named, articles, mishaps>>

(* The event API fills in the player's name.                               *)
NameArrives(t) ==
    /\ Kind[t] = "ocr"
    /\ named' = named \cup {t}
    /\ t \notin named
    /\ UNCHANGED <<row, claim, read, source, articles, mishaps>>

-----------------------------------------------------------------------------
(***************************************************************************)
(* Registration: enqueue reads the event and the file before it opens its  *)
(* transaction, so both can be old when the row is written.                *)
(***************************************************************************)

(* enqueue up to the transaction: a terminal task returns at once; the     *)
(* event may still lack a name the API has, and the file may not be        *)
(* readable (source_error) even though it was encoded.                     *)
ReadSource(e, t) ==
    /\ read[e] = NoRead
    /\ source[t] > 0
    /\ row[t].status \notin Terminal
    /\ \E p \in BOOLEAN, a \in {NoArtifact, source[t]} :
          /\ p => t \in named
          /\ read' = [read EXCEPT ![e] =
                        [task |-> t, person |-> p, artifact |-> a,
                         eligible |-> Manual(t) \/ source[t] \in Trusted]]
    /\ UNCHANGED <<row, claim, source, named, articles, mishaps>>

(* The status of a row whose artifact is new.                              *)
ArrivalStatus(s) ==
    IF s.artifact = NoArtifact THEN "failed"
    ELSE IF s.eligible THEN "queued" ELSE "held"

InsertRow(t, s) ==
    /\ row[t].status = "absent"
    /\ row' = [row EXCEPT ![t] =
                 [Absent EXCEPT !.status = ArrivalStatus(s), !.gen = 1,
                                !.person = s.person, !.eligible = s.eligible,
                                !.article = Archive[t], !.artifact = s.artifact]]

(* _refresh_unchanged_task: the gate is applied again, and a name wakes a  *)
(* waiting row; failed and retry_wait keep their schedule.                 *)
RefreshUnchanged(t, s) ==
    /\ row[t].status \notin Terminal \cup {"absent"}
    /\ s.artifact # NoArtifact
    /\ row[t].artifact = s.artifact
    /\ row' = [row EXCEPT
         ![t].person = s.person,
         ![t].eligible = s.eligible,
         ![t].status = IF @ = "held" /\ s.eligible THEN "queued"
                       ELSE IF @ \in {"queued", "waiting_person"} /\ ~s.eligible
                       THEN "held" ELSE @,
         ![t].due = IF row[t].status \in {"failed", "retry_wait"} THEN @
                    ELSE \/ @
                         \/ ~s.eligible
                         \/ row[t].status = "waiting_person" /\ s.person]

(* The last branch of enqueue when the content is the same under another   *)
(* signature, its staged copy was lost, or the file could not be read:     *)
(* only the event and the verdict are written.                             *)
RewriteMetadata(t, s) ==
    /\ row[t].status \notin Terminal \cup {"absent"}
    /\ s.artifact \in {NoArtifact, row[t].artifact}
    /\ row' = [row EXCEPT ![t].person = s.person, ![t].eligible = s.eligible]

(* A variant that trusts the first look at the table and does not check    *)
(* again that the task is still open, which no action uses.                *)
NewArtifactUnchecked(t, s) ==
    /\ row[t].status # "absent"
    /\ s.artifact \notin {NoArtifact, row[t].artifact}
    /\ row' = [row EXCEPT ![t] =
         [@ EXCEPT !.status = ArrivalStatus(s),
                   !.gen = row[t].gen + 1,
                   !.owner = NoOne, !.lapsed = FALSE, !.due = TRUE,
                   !.attempts = 0, !.artifact = s.artifact]]

(* A new artifact starts a new generation: whoever works on the old one    *)
(* loses its claim; the article id is kept, the rest of its delivery is not.*)
NewArtifact(t, s) ==
    /\ row[t].status \notin Terminal \cup {"absent"}
    /\ s.artifact \notin {NoArtifact, row[t].artifact}
    /\ row' = [row EXCEPT ![t] =
         [@ EXCEPT !.status = ArrivalStatus(s),
                   !.gen = row[t].gen + 1,
                   !.owner = NoOne, !.lapsed = FALSE, !.due = TRUE,
                   !.attempts = 0, !.person = s.person, !.eligible = s.eligible,
                   !.deadline = "none", !.draftAt = FALSE,
                   !.artifact = s.artifact, !.duplicate = FALSE,
                   !.reason = "none"]]

(* The transaction finds the task terminal and leaves it.                  *)
LeaveTerminal(t) == row[t].status \in Terminal /\ row' = row

Register(e) ==
    LET s == read[e] IN
    /\ s # NoRead
    /\ \/ InsertRow(s.task, s)
       \/ RefreshUnchanged(s.task, s)
       \/ RewriteMetadata(s.task, s)
       \/ NewArtifact(s.task, s)
       \/ LeaveTerminal(s.task)
    /\ read' = [read EXCEPT ![e] = NoRead]
    /\ UNCHANGED <<claim, source, named, articles, mishaps>>

(* refresh_event: the name is merged into the row, and wakes it only while *)
(* it waits.                                                               *)
RefreshEvent(t) ==
    /\ row[t].status \notin Terminal \cup {"absent"}
    /\ t \in named
    /\ row' = [row EXCEPT ![t].person = TRUE,
                          ![t].due = @ \/ row[t].status = "waiting_person"]
    /\ UNCHANGED <<claim, read, source, named, articles, mishaps>>

(* retry: the operator's button.                                           *)
Retry(t) ==
    /\ row[t].status \in {"failed", "retry_wait"}
    /\ row' = [row EXCEPT ![t].status = "queued", ![t].due = TRUE]
    /\ UNCHANGED <<claim, read, source, named, articles, mishaps>>

-----------------------------------------------------------------------------
(***************************************************************************)
(* The worker: run_once, one step per transaction or platform call.        *)
(***************************************************************************)

(* The claim still owns its row: generation, token and status agree.  Every*)
(* write of run_once carries this condition in its WHERE clause.           *)
Owned(w) ==
    LET r == row[claim[w].task] IN
    /\ r.gen = claim[w].gen
    /\ r.owner = w
    /\ r.status \in InFlight

(* A variant that never takes an expired lease over; no action uses it.    *)
ClaimableUnclaimed(t) ==
    \/ row[t].status = "queued"
    \/ row[t].status \in {"retry_wait", "waiting_person"} /\ row[t].due

Claimable(t) ==
    \/ row[t].status = "queued"
    \/ row[t].status \in {"retry_wait", "waiting_person"} /\ row[t].due
    \/ row[t].status \in InFlight /\ row[t].lapsed

(* ORDER BY of _claim_due; ties by time are left open.                     *)
ClaimRank(t) ==
    CASE row[t].status \in InFlight -> 0
      [] row[t].status = "waiting_person" -> 1
      [] row[t].status = "queued" -> 2
      [] OTHER -> 3

Candidates(w) == {t \in Tasks : Kind[t] \in WorkerKinds[w] /\ Claimable(t)}

(* attempt_count, capped one past the delays: larger counts behave alike.  *)
NextAttempt(t) == IF row[t].attempts > RetryLimit THEN row[t].attempts
                  ELSE row[t].attempts + 1

(* A variant that takes any deadline for a passed one; no action uses it.  *)
DeadlineSet(t) == row[t].deadline # "none"

DeadlinePassed(t) == row[t].deadline = "passed"

(* claimed_at is fixed here: every later comparison with the deadline uses *)
(* it, however long the delivery takes.                                    *)
ClaimDue(w) ==
    /\ claim[w] = Idle
    /\ \E t \in Candidates(w) :
         /\ \A u \in Candidates(w) : ClaimRank(t) <= ClaimRank(u)
         /\ row' = [row EXCEPT ![t] =
                      [@ EXCEPT !.status = "creating", !.owner = w,
                                !.lapsed = FALSE, !.due = TRUE,
                                !.attempts = NextAttempt(t)]]
         /\ claim' = [claim EXCEPT ![w] =
               [step |-> "claimed", task |-> t, gen |-> row[t].gen,
                attempts |-> NextAttempt(t), passed |-> DeadlinePassed(t),
                artifact |-> row[t].artifact, archive |-> NoArticle,
                mode |-> "publish", reason |-> "none", outcome |-> "none",
                article |-> NoArticle]]
    /\ UNCHANGED <<read, source, named, articles, mishaps>>

Drop(w) == claim' = [claim EXCEPT ![w] = Idle]

(* The claim was lost when run_once looked again: it stops, and the failure*)
(* it may record finds no row of its own.                                  *)
Abandon(w) ==
    /\ claim[w].step \in {"claimed", "staging", "planned"}
    /\ ~Owned(w)
    /\ Drop(w)
    /\ UNCHANGED <<row, read, source, named, articles, mishaps>>

(* _reload_claim_payload and the gate of an OCR task.                      *)
Inspect(w) ==
    /\ claim[w].step = "claimed"
    /\ Owned(w)
    /\ LET t == claim[w].task IN
       claim' = [claim EXCEPT ![w].step =
                   IF Manual(t) \/ row[t].eligible THEN "staging" ELSE "held"]
    /\ UNCHANGED <<row, read, source, named, articles, mishaps>>

(* _hold_claim.                                                            *)
HoldClaim(w) ==
    /\ claim[w].step = "held"
    /\ row' = IF Owned(w)
              THEN [row EXCEPT ![claim[w].task] =
                      [@ EXCEPT !.status = "held", !.due = TRUE,
                                !.owner = NoOne, !.lapsed = FALSE]]
              ELSE row
    /\ Drop(w)
    /\ UNCHANGED <<read, source, named, articles, mishaps>>

(* _stage_source finds neither the staged copy nor a usable source.        *)
StageFails(w) ==
    /\ claim[w].step = "staging"
    /\ claim' = [claim EXCEPT ![w].step = "answered",
                              ![w].outcome = "rejected"]
    /\ UNCHANGED <<row, read, source, named, articles, mishaps>>

(* What run_once will ask of the platform, from the row as reloaded.       *)
Plan(w, step, mode, archive, reason) ==
    [claim[w] EXCEPT !.step = step, !.mode = mode, !.archive = archive,
                     !.reason = reason,
                     !.artifact = IF @ = NoArtifact THEN source[claim[w].task]
                                  ELSE @]

(* A variant that sends an edit without its article; no action uses it.    *)
ManualPlanAfresh(w) ==
    Plan(w, "planned", ManualMode, NoArticle, "manual")

ManualPlan(w) ==
    LET t == claim[w].task IN
    Plan(w, "planned", ManualMode,
         IF Kind[t] = "edit" THEN row[t].article ELSE NoArticle, "manual")

(* The branches of run_once for an OCR task.  A row that knows an article  *)
(* but no draft time first updates it as a draft while no name is known.   *)
OcrPlan(w, known) ==
    LET r == row[claim[w].task]
        why == IF known THEN "person" ELSE "fallback"
        ahead == ~known /\ ~claim[w].passed
    IN
    CASE r.article = NoArticle /\ ahead ->
            Plan(w, "wait", "publish", NoArticle, "none")
      [] r.article # NoArticle /\ ~r.draftAt /\ ~known ->
            Plan(w, "planned", "draft", r.article, "none")
      [] r.article # NoArticle /\ r.draftAt /\ ahead /\ r.deadline # "none" ->
            Plan(w, "wait", "publish", r.article, "none")
      [] OTHER -> Plan(w, "planned", "publish", r.article, why)

(* latest_event_loader is asked only for a row with an article or a started*)
(* wait; it may fail, and what it knows is merged into the row.            *)
Decide(w) ==
    LET t == claim[w].task
        r == row[t]
        consult == r.article # NoArticle \/ (~r.person /\ r.deadline # "none")
    IN
    /\ claim[w].step = "staging"
    /\ Owned(w)
    /\ claim[w].artifact # NoArtifact \/ source[t] # NoArtifact
    /\ \E answer \in BOOLEAN :
         LET known == r.person \/ (consult /\ answer /\ t \in named) IN
         /\ row' = [row EXCEPT ![t].person = IF Manual(t) THEN @ ELSE known,
                               ![t].artifact = IF @ = NoArtifact
                                               THEN source[t] ELSE @]
         /\ claim' = [claim EXCEPT ![w] =
                        IF Manual(t) THEN ManualPlan(w) ELSE OcrPlan(w, known)]
    /\ UNCHANGED <<read, source, named, articles, mishaps>>

(* The row's wait has begun: COALESCE keeps its deadline.                  *)
Waiting(w) == row[claim[w].task].deadline # "none"

(* _return_to_person_wait: the first wait fixes the deadline.              *)
ReturnToPersonWait(w) ==
    /\ claim[w].step = "wait"
    /\ row' = IF Owned(w)
              THEN [row EXCEPT ![claim[w].task] =
                      [@ EXCEPT !.status = "waiting_person", !.due = FALSE,
                                !.owner = NoOne, !.lapsed = FALSE,
                                !.deadline = IF Waiting(w)
                                             THEN row[claim[w].task].deadline
                                             ELSE "ahead"]]
              ELSE row
    /\ Drop(w)
    /\ UNCHANGED <<read, source, named, articles, mishaps>>

SetClaimPhase(w) ==
    /\ claim[w].step = "planned"
    /\ Owned(w)
    /\ row' = [row EXCEPT ![claim[w].task].status =
                 IF claim[w].mode = "publish" THEN "publishing"
                 ELSE "creating_draft"]
    /\ claim' = [claim EXCEPT ![w].step = "calling"]
    /\ UNCHANGED <<read, source, named, articles, mishaps>>

-----------------------------------------------------------------------------
(***************************************************************************)
(* The platform, through create_or_update_article.                         *)
(***************************************************************************)

(* A variant whose upload cache ignores that the GIF of an article changed;*)
(* no action uses it.                                                      *)
SentFromCache(w) ==
    [task |-> claim[w].task,
     artifact |-> IF claim[w].archive = NoArticle THEN claim[w].artifact
                  ELSE articles[claim[w].archive].artifact,
     public |-> claim[w].mode = "publish"]

Sent(w) == [task |-> claim[w].task, artifact |-> claim[w].artifact,
            public |-> claim[w].mode = "publish"]

(* The platform carries a request out: a new article, or the one named.    *)
Applied(w) == IF claim[w].archive = NoArticle THEN Append(articles, Sent(w))
              ELSE [articles EXCEPT ![claim[w].archive] = Sent(w)]

AppliedId(w) == IF claim[w].archive = NoArticle THEN Len(articles) + 1
                ELSE claim[w].archive

Answered(w, outcome, id) ==
    claim' = [claim EXCEPT ![w].step = "answered", ![w].outcome = outcome,
                           ![w].article = id]

CallSucceeds(w) ==
    /\ claim[w].step = "calling"
    /\ articles' = Applied(w)
    /\ Answered(w, "ok", AppliedId(w))
    /\ UNCHANGED <<row, read, source, named, mishaps>>

(* Code 2: the platform already has this article and changes nothing.      *)
CallDuplicate(w) ==
    /\ claim[w].step = "calling"
    /\ claim[w].archive = NoArticle
    /\ \E i \in DOMAIN articles :
         /\ articles[i].task = claim[w].task
         /\ articles[i].public = Sent(w).public
         /\ Answered(w, "duplicate", i)
    /\ UNCHANGED <<row, read, source, named, articles, mishaps>>

(* The platform refuses, or is not reached.                                *)
CallFails(w) ==
    /\ claim[w].step = "calling"
    /\ \E outcome \in {"rejected", "retriable", "auth"} :
          Answered(w, outcome, NoArticle)
    /\ UNCHANGED <<row, read, source, named, articles, mishaps>>

(* The platform carries the request out and the answer is lost: a timeout, *)
(* which the client reports as retriable.                                  *)
AnswerLost(w) ==
    /\ claim[w].step = "calling"
    /\ mishaps < MaxMishaps
    /\ mishaps' = mishaps + 1
    /\ articles' = Applied(w)
    /\ Answered(w, "retriable", NoArticle)
    /\ UNCHANGED <<row, read, source, named>>

Successful(w) == claim[w].outcome \in {"ok", "duplicate"}

SettledStatus(w) == IF claim[w].mode = "publish" THEN "published" ELSE "drafted"

(* _record_published and _record_manual_drafted.                           *)
RecordDelivered(w) ==
    /\ claim[w].mode = "publish" \/ Manual(claim[w].task)
    /\ row' = [row EXCEPT ![claim[w].task] =
                 [@ EXCEPT !.status = SettledStatus(w), !.due = TRUE,
                           !.owner = NoOne, !.lapsed = FALSE,
                           !.article = claim[w].article,
                           !.artifact = claim[w].artifact,
                           !.duplicate = claim[w].outcome = "duplicate",
                           !.reason = claim[w].reason]]

(* _record_draft_created: the wait for a name starts, or starts again.     *)
RecordDraftCreated(w) ==
    /\ claim[w].mode = "draft" /\ ~Manual(claim[w].task)
    /\ row' = [row EXCEPT ![claim[w].task] =
                 [@ EXCEPT !.status = "waiting_person",
                           !.due = row[claim[w].task].person,
                           !.owner = NoOne, !.lapsed = FALSE,
                           !.article = claim[w].article,
                           !.artifact = claim[w].artifact,
                           !.duplicate = claim[w].outcome = "duplicate",
                           !.draftAt = TRUE, !.deadline = "ahead"]]

(* A variant that loses the article of a stale claim; no action uses it.   *)
StaleArticleLost(w) == row' = row

(* _record_stale_article_id: a later generation, or another owner of this  *)
(* one, learns the article it does not know yet.                           *)
RecordStaleArticle(w) ==
    LET r == row[claim[w].task] IN
    row' = IF /\ r.article = NoArticle
              /\ \/ r.gen > claim[w].gen
                 \/ r.gen = claim[w].gen /\ r.owner # w
           THEN [row EXCEPT ![claim[w].task].article = claim[w].article]
           ELSE row

RecordSuccess(w) ==
    /\ claim[w].step = "answered"
    /\ Successful(w)
    /\ IF Owned(w) THEN RecordDelivered(w) \/ RecordDraftCreated(w)
       ELSE RecordStaleArticle(w)
    /\ Drop(w)
    /\ UNCHANGED <<read, source, named, articles, mishaps>>

(* _record_failure: lost authorization waits for ever, a retriable failure *)
(* as long as there are delays left.                                       *)
RetryLater(w) ==
    \/ claim[w].outcome = "auth"
    \/ claim[w].outcome = "retriable" /\ claim[w].attempts <= RetryLimit

RecordFailure(w) ==
    /\ claim[w].step = "answered"
    /\ ~Successful(w)
    /\ row' = IF Owned(w)
              THEN [row EXCEPT ![claim[w].task] =
                      [@ EXCEPT !.status = IF RetryLater(w) THEN "retry_wait"
                                           ELSE "failed",
                                !.due = ~RetryLater(w),
                                !.owner = NoOne, !.lapsed = FALSE]]
              ELSE row
    /\ Drop(w)
    /\ UNCHANGED <<read, source, named, articles, mishaps>>

(* A delivery recorded inside run_once's try block turns a SQLite error    *)
(* into a retriable failure of its own.                                    *)
RecordedInTry(w) ==
    \/ Manual(claim[w].task)
    \/ claim[w].reason = "fallback" /\ claim[w].archive = NoArticle

(* The write of a successful answer fails; outside the try block the error *)
(* ends run_once and the row stays in flight until its lease lapses.       *)
RecordErrors(w) ==
    /\ claim[w].step = "answered"
    /\ Successful(w)
    /\ mishaps < MaxMishaps
    /\ mishaps' = mishaps + 1
    /\ IF RecordedInTry(w) THEN Answered(w, "retriable", NoArticle)
       ELSE Drop(w)
    /\ UNCHANGED <<row, read, source, named, articles>>

(* The process dies, at any point of run_once.                             *)
Crash(w) ==
    /\ claim[w] # Idle
    /\ mishaps < MaxMishaps
    /\ mishaps' = mishaps + 1
    /\ Drop(w)
    /\ UNCHANGED <<row, read, source, named, articles>>

-----------------------------------------------------------------------------
(***************************************************************************)
(* Time.                                                                   *)
(***************************************************************************)

LeaseLapses(t) ==
    /\ row[t].status \in InFlight /\ ~row[t].lapsed
    /\ row' = [row EXCEPT ![t].lapsed = TRUE]
    /\ UNCHANGED <<claim, read, source, named, articles, mishaps>>

AttemptDue(t) ==
    /\ row[t].status \in {"retry_wait", "waiting_person"} /\ ~row[t].due
    /\ row' = [row EXCEPT ![t].due = TRUE]
    /\ UNCHANGED <<claim, read, source, named, articles, mishaps>>

(* next_attempt_at_unix of a waiting row is never past its deadline.       *)
DeadlinePasses(t) ==
    /\ row[t].deadline = "ahead" /\ row[t].status \notin Terminal
    /\ row' = [row EXCEPT ![t].deadline = "passed",
                          ![t].due = @ \/ row[t].status = "waiting_person"]
    /\ UNCHANGED <<claim, read, source, named, articles, mishaps>>

-----------------------------------------------------------------------------
Init ==
    /\ row = [t \in Tasks |-> Absent]
    /\ claim = [w \in Workers |-> Idle]
    /\ read = [e \in Enqueuers |-> NoRead]
    /\ source = [t \in Tasks |-> 0]
    /\ named = {}
    /\ articles = [i \in 1..Archived |->
                     [task |-> CHOOSE t \in Tasks : Archive[t] = i,
                      artifact |-> NoArtifact, public |-> ManualMode = "publish"]]
    /\ mishaps = 0

WorkerStep(w) ==
    \/ ClaimDue(w)
    \/ Abandon(w) \/ Inspect(w) \/ HoldClaim(w)
    \/ StageFails(w) \/ Decide(w)
    \/ ReturnToPersonWait(w) \/ SetClaimPhase(w)
    \/ CallSucceeds(w) \/ CallDuplicate(w) \/ CallFails(w)
    \/ RecordSuccess(w) \/ RecordFailure(w)

Mishap(w) == AnswerLost(w) \/ RecordErrors(w) \/ Crash(w)

Time(t) == LeaseLapses(t) \/ AttemptDue(t) \/ DeadlinePasses(t)

Next ==
    \/ \E t \in Tasks : Encode(t) \/ NameArrives(t) \/ RefreshEvent(t)
                          \/ Retry(t) \/ Time(t)
    \/ \E e \in Enqueuers : Register(e) \/ \E t \in Tasks : ReadSource(e, t)
    \/ \E w \in Workers : WorkerStep(w) \/ Mishap(w)

Spec == Init /\ [][Next]_vars

(* The worker thread loops, time passes, and a platform that is asked again*)
(* and again carries a request out at last.                                *)
Fairness ==
    /\ \A w \in Workers : WF_vars(WorkerStep(w)) /\ SF_vars(CallSucceeds(w))
    /\ \A t \in Tasks : WF_vars(LeaseLapses(t)) /\ WF_vars(AttemptDue(t))
                          /\ WF_vars(DeadlinePasses(t))

FairSpec == Spec /\ Fairness

-----------------------------------------------------------------------------
(***************************************************************************)
(* Properties.                                                             *)
(***************************************************************************)

ArticlesOf(t) == {i \in DOMAIN articles : articles[i].task = t}

(* Every article beyond the first of an OCR task, beyond the first of each *)
(* generation of a clip, is explained by a crash, a lost answer or a failed*)
(* write; an edit never creates one.  (run_once passes archive_id, and     *)
(* _record_stale_article_id hands an old generation's article on.)         *)
ArticlesExplained ==
    \A t \in Tasks :
        Cardinality(ArticlesOf(t)) <=
            CASE Kind[t] = "edit" -> 1
              [] Kind[t] = "ocr" -> 1 + mishaps
              [] OTHER -> row[t].gen + mishaps

(* A published row tells the truth: unless the platform answered           *)
(* "duplicate", the article it names is public and shows the artifact of   *)
(* the row, although encodings are replaced and answers come late.         *)
PublishedIsCurrent ==
    \A t \in Tasks :
        row[t].status = "published" /\ ~row[t].duplicate =>
            /\ row[t].article \in DOMAIN articles
            /\ articles[row[t].article] =
                 [task |-> t, artifact |-> row[t].artifact, public |-> TRUE]

(* An article is published under the team's name only after the whole wait *)
(* for a player's name (person_wait_seconds).                              *)
FallbackOnlyAfterDeadline ==
    \A t \in Tasks :
        row[t].status = "published" /\ row[t].reason = "fallback" =>
            row[t].deadline = "passed"

(* A row that is published or drafted is final: no registration, event     *)
(* refresh, retry, claim or late answer changes what it says.              *)
TerminalForever ==
    [][\A t \in Tasks : row[t].status \in Terminal => row'[t] = row[t]]_vars

(* The article of an OCR or edit task is never exchanged for another, over *)
(* all generations: later deliveries update the one that exists.           *)
ArticleKept ==
    [][\A t \in Tasks : Kind[t] # "clip" /\ row[t].article # NoArticle =>
            row'[t].article = row[t].article]_vars

(* A task that waits for a name is eventually published, or has failed, or *)
(* is held because its clip lost its verdict.                              *)
WaiterServed ==
    \A t \in Tasks :
        row[t].status = "waiting_person" ~>
            row[t].status \in {"published", "failed", "held"}

(* No row stays claimed for ever: what a dead worker held is delivered     *)
(* again, given up or put off.                                             *)
InFlightLeaves ==
    \A t \in Tasks : []<>(row[t].status \notin InFlight)

(* A comment of the code, which the model does not keep:                   *)

(* "only legacy rows with article_id keep the old draft-update path"       *)
(* (run_once): no article of a new OCR task is ever a draft.               *)
NoDraftOfNewTask ==
    \A i \in DOMAIN articles :
        Kind[articles[i].task] = "ocr" => articles[i].public
=============================================================================
