------------------------ MODULE ArticleDeliveryProofs ------------------------
(***************************************************************************)
(* Proofs about ArticleDelivery, for every set of tasks, workers and       *)
(* registering processes, every number of encodings, retries and mishaps.  *)
(***************************************************************************)
EXTENDS ArticleDelivery, SequenceTheorems, FiniteSetTheorems, TLAPS

\* A worker that is past idle holds a claim.
LEMMA Busy ==
  ASSUME TypeOK, NEW w \in Workers, claim[w].step # "idle"
  PROVE  /\ claim[w] \in Claim
         /\ claim[w].task \in Tasks
         /\ row[claim[w].task] \in Row
  BY DEF TypeOK, Idle, Claim

\* A registering process that has read holds a snapshot.
LEMMA HasRead ==
  ASSUME TypeOK, NEW e \in Enqueuers, read[e] # NoRead
  PROVE  read[e] \in Read /\ read[e].task \in Tasks
  BY DEF TypeOK, NoRead, Read

\* The row that enqueue inserts starts from a well-typed one.
LEMMA AbsentType == Absent \in Row
<1>1. 0 \in 0..RetryLimit + 1 /\ 0 \in 0..MaxArtifact /\ 0 \in Nat
  BY DeliveryAssumption
<1>. QED
  BY <1>1 DEF Absent, Row, Statuses, NoArticle, NoArtifact

\* Registration leaves the table a table.
LEMMA RegisterType ==
  ASSUME TypeOK, NEW e \in Enqueuers, Register(e)
  PROVE  row' \in [Tasks -> Row]
<1> DEFINE s == read[e]
           t == s.task
<1>1. s \in Read /\ t \in Tasks
  BY HasRead DEF Register
<1>2. row \in [Tasks -> Row] /\ row[t] \in Row /\ ArrivalStatus(s) \in Statuses
  BY <1>1 DEF TypeOK, ArrivalStatus, Statuses
<1> DEFINE r == row[t]
<1>3. CASE InsertRow(t, s)
  <2> DEFINE new == [Absent EXCEPT !.status = ArrivalStatus(s), !.gen = 1,
                                   !.person = s.person, !.eligible = s.eligible,
                                   !.article = Archive[t], !.artifact = s.artifact]
  <2>1. /\ s.person \in BOOLEAN /\ s.eligible \in BOOLEAN
        /\ s.artifact \in 0..MaxArtifact /\ Archive[t] \in Nat
    BY <1>1, DeliveryAssumption DEF Read
  <2>2. new \in Row
    BY <1>2, <2>1, AbsentType DEF Row
  <2>. QED
    BY <1>1, <1>2, <1>3, <2>2 DEF InsertRow
<1>4. CASE RefreshUnchanged(t, s)
  <2>1. s.person \in BOOLEAN /\ s.eligible \in BOOLEAN
    BY <1>1 DEF Read
  <2>2. \A status \in Statuses, due \in BOOLEAN :
          [r EXCEPT !.person = s.person, !.eligible = s.eligible,
                    !.status = status, !.due = due] \in Row
    BY <1>2, <2>1 DEF Row
  <2> DEFINE status == IF r.status = "held" /\ s.eligible THEN "queued"
                       ELSE IF r.status \in {"queued", "waiting_person"} /\ ~s.eligible
                       THEN "held" ELSE r.status
             due == IF r.status \in {"failed", "retry_wait"} THEN r.due
                    ELSE \/ r.due
                         \/ ~s.eligible
                         \/ r.status = "waiting_person" /\ s.person
             new == [r EXCEPT !.person = s.person, !.eligible = s.eligible,
                              !.status = status, !.due = due]
  <2>3. r.status \in Statuses /\ r.due \in BOOLEAN
    BY <1>2 DEF Row
  <2>4. status \in Statuses
    BY <2>3 DEF Statuses
  <2>5. due \in BOOLEAN
    BY <2>1, <2>3
  <2>6. new \in Row
    <3> HIDE DEF status, due
    <3>. QED
      BY <2>2, <2>4, <2>5
  <2>7. row' = [row EXCEPT ![t] = new]
    BY <1>1, <1>2, <1>4 DEF RefreshUnchanged, Row
  <2> HIDE DEF new
  <2>. QED
    BY <1>1, <1>2, <2>6, <2>7
<1>5. CASE RewriteMetadata(t, s)
  BY <1>1, <1>2, <1>5 DEF RewriteMetadata, Row, Read
<1>6. CASE NewArtifact(t, s)
  <2> DEFINE new == [r EXCEPT !.status = ArrivalStatus(s), !.gen = r.gen + 1,
                   !.owner = NoOne, !.lapsed = FALSE, !.due = TRUE,
                   !.attempts = 0, !.person = s.person, !.eligible = s.eligible,
                   !.deadline = "none", !.draftAt = FALSE,
                   !.artifact = s.artifact, !.duplicate = FALSE,
                   !.reason = "none"]
  <2>1. /\ s.person \in BOOLEAN /\ s.eligible \in BOOLEAN
        /\ s.artifact \in 0..MaxArtifact /\ 0 \in 0..RetryLimit + 1
    BY <1>1, DeliveryAssumption DEF Read
  <2>2. r.gen + 1 \in Nat
    BY <1>2 DEF Row
  <2>3. new \in Row
    BY <1>2, <2>1, <2>2 DEF Row
  <2>4. row' = [row EXCEPT ![t] = new]
    BY <1>6 DEF NewArtifact
  <2> HIDE DEF new
  <2>. QED
    BY <1>1, <1>2, <2>3, <2>4
<1>7. CASE LeaveTerminal(t)
  BY <1>2, <1>7 DEF LeaveTerminal
<1>. QED
  BY <1>3, <1>4, <1>5, <1>6, <1>7 DEF Register

\* What the worker decides is a claim, and the row stays a row.
LEMMA DecideType ==
  ASSUME TypeOK, NEW w \in Workers, Decide(w)
  PROVE  claim' \in [Workers -> Claim \cup {Idle}] /\ row' \in [Tasks -> Row]
<1> DEFINE t == claim[w].task
<1>1. claim[w] \in Claim /\ t \in Tasks /\ row[t] \in Row
  BY Busy DEF Decide
<1>2. \A step \in {"wait", "planned"}, mode \in {"publish", "draft"},
         archive \in Nat, reason \in {"none", "person", "fallback", "manual"} :
         Plan(w, step, mode, archive, reason) \in Claim
  <2> DEFINE a == IF claim[w].artifact = NoArtifact THEN source[t]
                  ELSE claim[w].artifact
  <2>1. a \in 0..MaxArtifact
    BY <1>1 DEF TypeOK, Claim
  <2>2. TAKE step \in {"wait", "planned"}, mode \in {"publish", "draft"},
             archive \in Nat, reason \in {"none", "person", "fallback", "manual"}
  <2>3. Plan(w, step, mode, archive, reason) =
          [claim[w] EXCEPT !.step = step, !.mode = mode, !.archive = archive,
                           !.reason = reason, !.artifact = a]
    BY DEF Plan
  <2> HIDE DEF a
  <2>. QED
    BY <1>1, <2>1, <2>3 DEF Claim
<1>3. ManualPlan(w) \in Claim
  BY <1>1, <1>2, DeliveryAssumption DEF ManualPlan, Row, NoArticle
<1>4. ASSUME NEW known \in BOOLEAN PROVE OcrPlan(w, known) \in Claim
  <2>1. row[t].article \in Nat /\ NoArticle \in Nat
    BY <1>1 DEF Row, NoArticle
  <2>. QED
    BY <1>2, <2>1 DEF OcrPlan
<1>5. PICK known \in BOOLEAN :
        /\ row' = [row EXCEPT ![t].person = IF Manual(t) THEN @ ELSE known,
                              ![t].artifact = IF @ = NoArtifact
                                              THEN source[t] ELSE @]
        /\ claim' = [claim EXCEPT ![w] =
                       IF Manual(t) THEN ManualPlan(w) ELSE OcrPlan(w, known)]
  <2>1. row[t].person \in BOOLEAN
    BY <1>1 DEF Row
  <2>. QED
    BY <2>1 DEF Decide
<1>6. claim' \in [Workers -> Claim \cup {Idle}]
  BY <1>3, <1>4, <1>5 DEF TypeOK
<1>7. row' \in [Tasks -> Row]
  BY <1>1, <1>5 DEF TypeOK, Row
<1>. QED
  BY <1>6, <1>7

\* The platform's articles stay articles.
LEMMA AppliedType ==
  ASSUME TypeOK, NEW w \in Workers, claim[w].step = "calling"
  PROVE  Applied(w) \in Seq(Article) /\ AppliedId(w) \in Nat \ {0}
<1>1. claim[w] \in Claim /\ Sent(w) \in Article
  BY Busy DEF Sent, Claim, Article
<1>2. articles \in Seq(Article) /\ Len(articles) \in Nat
  BY DEF TypeOK
<1>3. Append(articles, Sent(w)) \in Seq(Article)
  BY <1>1, <1>2
<1>4. [articles EXCEPT ![claim[w].archive] = Sent(w)] \in Seq(Article)
  <2>1. CASE claim[w].archive \in 1..Len(articles)
    BY <1>1, <1>2, <2>1, ExceptSeq
  <2>2. CASE claim[w].archive \notin 1..Len(articles)
    <3>1. [articles EXCEPT ![claim[w].archive] = Sent(w)] = articles
      BY <1>2, <2>2
    <3>. QED
      BY <1>2, <3>1
  <2>. QED
    BY <2>1, <2>2
<1>. QED
  BY <1>1, <1>2, <1>3, <1>4 DEF Applied, AppliedId, Claim, NoArticle

\* Type correctness: the table, the claims and the platform stay well formed,
\* whatever is registered, delivered, lost and taken over.
THEOREM TypeCorrect == Spec => []TypeOK
<1>1. Init => TypeOK
  <2> SUFFICES ASSUME Init PROVE TypeOK
    OBVIOUS
  <2>1. \A i \in 1..Archived :
          [task |-> CHOOSE t \in Tasks : Archive[t] = i,
           artifact |-> NoArtifact, public |-> ManualMode = "publish"] \in Article
    <3> TAKE i \in 1..Archived
    <3>1. (CHOOSE t \in Tasks : Archive[t] = i) \in Tasks
      BY DeliveryAssumption
    <3>2. NoArtifact \in 0..MaxArtifact
      BY DeliveryAssumption DEF NoArtifact
    <3>. QED
      BY <3>1, <3>2 DEF Article
  <2>2. articles \in Seq(Article)
    BY <2>1, DeliveryAssumption, IsASeq DEF Init
  <2>. QED
    BY <2>2, AbsentType, DeliveryAssumption DEF Init, TypeOK
<1>2. TypeOK /\ [Next]_vars => TypeOK'
  <2> SUFFICES ASSUME TypeOK, [Next]_vars PROVE TypeOK'
    OBVIOUS
  <2>0. /\ \A w \in Workers : Drop(w) => claim' \in [Workers -> Claim \cup {Idle}]
        /\ row \in [Tasks -> Row] /\ claim \in [Workers -> Claim \cup {Idle}]
    BY DEF TypeOK, Drop
  <2>1. ASSUME NEW t \in Tasks, Encode(t) PROVE TypeOK'
    BY <2>1, DeliveryAssumption DEF Encode, TypeOK
  <2>2. ASSUME NEW t \in Tasks, NameArrives(t) PROVE TypeOK'
    BY <2>2 DEF NameArrives, TypeOK
  <2>3. ASSUME NEW t \in Tasks, RefreshEvent(t) PROVE TypeOK'
    <3>2. row[t] \in Row /\ row[t].due \in BOOLEAN
      BY <2>0 DEF Row
    <3>3. [row[t] EXCEPT !.person = TRUE,
                         !.due = row[t].due \/ row[t].status = "waiting_person"] \in Row
      BY <3>2 DEF Row
    <3>1. row' \in [Tasks -> Row]
      BY <2>0, <2>3, <3>3 DEF RefreshEvent
    <3>. QED
      BY <2>3, <3>1 DEF RefreshEvent, TypeOK
  <2>4. ASSUME NEW t \in Tasks, Retry(t) PROVE TypeOK'
    <3>2. row[t] \in Row
      BY <2>0
    <3>3. [row[t] EXCEPT !.status = "queued", !.due = TRUE] \in Row
      BY <3>2 DEF Row, Statuses
    <3>1. row' \in [Tasks -> Row]
      BY <2>0, <2>4, <3>3 DEF Retry
    <3>. QED
      BY <2>4, <3>1 DEF Retry, TypeOK
  <2>5. ASSUME NEW t \in Tasks, Time(t) PROVE TypeOK'
    <3>2. row[t] \in Row /\ row[t].due \in BOOLEAN
      BY <2>0 DEF Row
    <3>3. /\ [row[t] EXCEPT !.lapsed = TRUE] \in Row
          /\ [row[t] EXCEPT !.due = TRUE] \in Row
          /\ [row[t] EXCEPT !.deadline = "passed",
                            !.due = row[t].due \/ row[t].status = "waiting_person"]
             \in Row
      BY <3>2 DEF Row
    <3>1. row' \in [Tasks -> Row]
      BY <2>0, <2>5, <3>3 DEF Time, LeaseLapses, AttemptDue, DeadlinePasses
    <3>. QED
      BY <2>5, <3>1 DEF Time, LeaseLapses, AttemptDue, DeadlinePasses, TypeOK
  <2>6. ASSUME NEW e \in Enqueuers, Register(e) PROVE TypeOK'
    BY <2>6, RegisterType DEF Register, TypeOK
  <2>7. ASSUME NEW e \in Enqueuers, NEW t \in Tasks, ReadSource(e, t) PROVE TypeOK'
    <3>1. read' \in [Enqueuers -> Read \cup {NoRead}]
      <4>1. PICK p \in BOOLEAN, a \in {NoArtifact, source[t]} :
              read' = [read EXCEPT ![e] =
                         [task |-> t, person |-> p, artifact |-> a,
                          eligible |-> Manual(t) \/ source[t] \in Trusted]]
        BY <2>7 DEF ReadSource
      <4>2. p \in BOOLEAN /\ a \in 0..MaxArtifact
        BY DeliveryAssumption DEF TypeOK, NoArtifact
      <4>3. [task |-> t, person |-> p, artifact |-> a,
             eligible |-> Manual(t) \/ source[t] \in Trusted] \in Read
        BY <4>2 DEF Read, Manual
      <4>. QED
        BY <4>1, <4>3 DEF TypeOK
    <3>. QED
      BY <2>7, <3>1 DEF ReadSource, TypeOK
  <2>8. ASSUME NEW w \in Workers, ClaimDue(w) PROVE TypeOK'
    <3>1. PICK t \in Tasks :
            /\ row' = [row EXCEPT ![t] =
                         [@ EXCEPT !.status = "creating", !.owner = w,
                                   !.lapsed = FALSE, !.due = TRUE,
                                   !.attempts = NextAttempt(t)]]
            /\ claim' = [claim EXCEPT ![w] =
                  [step |-> "claimed", task |-> t, gen |-> row[t].gen,
                   attempts |-> NextAttempt(t), passed |-> DeadlinePassed(t),
                   artifact |-> row[t].artifact, archive |-> NoArticle,
                   mode |-> "publish", reason |-> "none", outcome |-> "none",
                   article |-> NoArticle]]
      BY <2>8 DEF ClaimDue, Candidates
    <3>2. row[t] \in Row
      BY <2>0
    <3>3. NextAttempt(t) \in 0..RetryLimit + 1 /\ DeadlinePassed(t) \in BOOLEAN
      BY <3>2, DeliveryAssumption DEF Row, NextAttempt, DeadlinePassed
    <3>4. [row[t] EXCEPT !.status = "creating", !.owner = w, !.lapsed = FALSE,
                         !.due = TRUE, !.attempts = NextAttempt(t)] \in Row
      BY <3>2, <3>3 DEF Row, Statuses, InFlight
    <3>5. [step |-> "claimed", task |-> t, gen |-> row[t].gen,
           attempts |-> NextAttempt(t), passed |-> DeadlinePassed(t),
           artifact |-> row[t].artifact, archive |-> NoArticle,
           mode |-> "publish", reason |-> "none", outcome |-> "none",
           article |-> NoArticle] \in Claim
      BY <3>2, <3>3 DEF Row, Claim, NoArticle
    <3>6. row' \in [Tasks -> Row]
      BY <2>0, <3>1, <3>4
    <3>7. claim' \in [Workers -> Claim \cup {Idle}]
      BY <2>0, <3>1, <3>5
    <3>. QED
      BY <2>8, <3>6, <3>7 DEF ClaimDue, TypeOK
  <2>9. ASSUME NEW w \in Workers, Abandon(w) PROVE TypeOK'
    BY <2>0, <2>9 DEF Abandon, TypeOK
  <2>10. ASSUME NEW w \in Workers, Inspect(w) PROVE TypeOK'
    <3>1. claim[w] \in Claim
      BY <2>10, Busy DEF Inspect
    <3>2. claim' \in [Workers -> Claim \cup {Idle}]
      BY <2>0, <2>10, <3>1 DEF Inspect, Claim
    <3>. QED
      BY <2>10, <3>2 DEF Inspect, TypeOK
  <2>11. ASSUME NEW w \in Workers, HoldClaim(w) PROVE TypeOK'
    <3>2. claim[w].task \in Tasks /\ row[claim[w].task] \in Row
      BY <2>11, Busy DEF HoldClaim
    <3>3. [row[claim[w].task] EXCEPT !.status = "held", !.due = TRUE,
                                     !.owner = NoOne, !.lapsed = FALSE] \in Row
      BY <3>2 DEF Row, Statuses
    <3>1. row' \in [Tasks -> Row]
      BY <2>0, <2>11, <3>3 DEF HoldClaim
    <3>. QED
      BY <2>0, <2>11, <3>1 DEF HoldClaim, TypeOK
  <2>12. ASSUME NEW w \in Workers, StageFails(w) PROVE TypeOK'
    <3>1. claim[w] \in Claim
      BY <2>12, Busy DEF StageFails
    <3>2. claim' \in [Workers -> Claim \cup {Idle}]
      BY <2>0, <2>12, <3>1 DEF StageFails, Claim
    <3>. QED
      BY <2>12, <3>2 DEF StageFails, TypeOK
  <2>13. ASSUME NEW w \in Workers, Decide(w) PROVE TypeOK'
    BY <2>13, DecideType DEF Decide, TypeOK
  <2>14. ASSUME NEW w \in Workers, ReturnToPersonWait(w) PROVE TypeOK'
    <3>1. row[claim[w].task] \in Row /\ claim[w].task \in Tasks
      BY <2>14, Busy DEF ReturnToPersonWait
    <3> DEFINE deadline == IF Waiting(w) THEN row[claim[w].task].deadline
                           ELSE "ahead"
    <3>2. deadline \in {"none", "ahead", "passed"}
      BY <3>1 DEF Row
    <3> HIDE DEF deadline
    <3>3. [row[claim[w].task] EXCEPT
             !.status = "waiting_person", !.due = FALSE, !.owner = NoOne,
             !.lapsed = FALSE, !.deadline = deadline] \in Row
      BY <3>1, <3>2 DEF Row, Statuses
    <3>4. row' \in [Tasks -> Row]
      BY <2>0, <2>14, <3>1, <3>3 DEF ReturnToPersonWait, deadline
    <3>. QED
      BY <2>0, <2>14, <3>4 DEF ReturnToPersonWait, TypeOK
  <2>15. ASSUME NEW w \in Workers, SetClaimPhase(w) PROVE TypeOK'
    <3>1. claim[w] \in Claim /\ row[claim[w].task] \in Row
      BY <2>15, Busy DEF SetClaimPhase
    <3>2. row' \in [Tasks -> Row]
      BY <2>0, <2>15, <3>1 DEF SetClaimPhase, Row, Statuses, InFlight
    <3>3. claim' \in [Workers -> Claim \cup {Idle}]
      BY <2>0, <2>15, <3>1 DEF SetClaimPhase, Claim
    <3>. QED
      BY <2>15, <3>2, <3>3 DEF SetClaimPhase, TypeOK
  <2>16. ASSUME NEW w \in Workers, NEW id \in Nat,
                NEW outcome \in {"ok", "duplicate", "rejected", "retriable", "auth"},
                claim[w].step # "idle", Answered(w, outcome, id)
         PROVE  claim' \in [Workers -> Claim \cup {Idle}]
    <3>1. claim[w] \in Claim
      BY <2>16, Busy
    <3>. QED
      BY <2>0, <2>16, <3>1 DEF Answered, Claim
  <2>17. ASSUME NEW w \in Workers,
                CallSucceeds(w) \/ CallDuplicate(w) \/ CallFails(w) \/ AnswerLost(w)
         PROVE  TypeOK'
    <3>1. claim[w].step = "calling" /\ claim[w].step # "idle"
      BY <2>17 DEF CallSucceeds, CallDuplicate, CallFails, AnswerLost
    <3>2. Applied(w) \in Seq(Article) /\ AppliedId(w) \in Nat
      BY <3>1, AppliedType
    <3>3. /\ articles \in Seq(Article)
          /\ \A i \in DOMAIN articles : i \in Nat
          /\ NoArticle \in Nat
      BY DEF TypeOK, NoArticle
    <3>4. articles' \in Seq(Article)
      BY <2>17, <3>2, <3>3 DEF CallSucceeds, CallDuplicate, CallFails, AnswerLost
    <3>5. claim' \in [Workers -> Claim \cup {Idle}]
      BY <2>16, <2>17, <3>1, <3>2, <3>3
      DEF CallSucceeds, CallDuplicate, CallFails, AnswerLost
    <3>6. mishaps' \in 0..MaxMishaps
      BY <2>17, DeliveryAssumption
      DEF CallSucceeds, CallDuplicate, CallFails, AnswerLost, TypeOK
    <3>. QED
      BY <2>17, <3>4, <3>5, <3>6
      DEF CallSucceeds, CallDuplicate, CallFails, AnswerLost, TypeOK
  <2>18. ASSUME NEW w \in Workers, RecordSuccess(w) PROVE TypeOK'
    <3>1. /\ claim[w] \in Claim /\ claim[w].task \in Tasks
          /\ row[claim[w].task] \in Row
      BY <2>18, Busy DEF RecordSuccess
    <3>2. CASE RecordDelivered(w)
      <4>1. SettledStatus(w) \in Statuses
        BY DEF SettledStatus, Statuses, Terminal
      <4>3. /\ claim[w].article \in Nat /\ claim[w].artifact \in 0..MaxArtifact
            /\ claim[w].reason \in {"none", "person", "fallback", "manual"}
        BY <3>1 DEF Claim
      <4>4. [row[claim[w].task] EXCEPT
               !.status = SettledStatus(w), !.due = TRUE, !.owner = NoOne,
               !.lapsed = FALSE, !.article = claim[w].article,
               !.artifact = claim[w].artifact,
               !.duplicate = claim[w].outcome = "duplicate",
               !.reason = claim[w].reason] \in Row
        BY <3>1, <4>1, <4>3 DEF Row
      <4>2. row' \in [Tasks -> Row]
        BY <2>0, <3>1, <3>2, <4>4 DEF RecordDelivered
      <4>. QED
        BY <2>0, <2>18, <4>2 DEF RecordSuccess, TypeOK
    <3>3. CASE RecordDraftCreated(w)
      <4>2. /\ claim[w].article \in Nat /\ claim[w].artifact \in 0..MaxArtifact
            /\ row[claim[w].task].person \in BOOLEAN
            /\ "waiting_person" \in Statuses
        BY <3>1 DEF Claim, Row, Statuses
      <4>3. [row[claim[w].task] EXCEPT
               !.status = "waiting_person", !.due = row[claim[w].task].person,
               !.owner = NoOne, !.lapsed = FALSE, !.article = claim[w].article,
               !.artifact = claim[w].artifact,
               !.duplicate = claim[w].outcome = "duplicate",
               !.draftAt = TRUE, !.deadline = "ahead"] \in Row
        BY <3>1, <4>2 DEF Row
      <4>1. row' \in [Tasks -> Row]
        BY <2>0, <3>1, <3>3, <4>3 DEF RecordDraftCreated
      <4>. QED
        BY <2>0, <2>18, <4>1 DEF RecordSuccess, TypeOK
    <3>4. CASE RecordStaleArticle(w)
      <4>1. row' \in [Tasks -> Row]
        BY <2>0, <3>1, <3>4 DEF RecordStaleArticle, Row, Claim
      <4>. QED
        BY <2>0, <2>18, <4>1 DEF RecordSuccess, TypeOK
    <3>. QED
      BY <2>18, <3>2, <3>3, <3>4 DEF RecordSuccess
  <2>19. ASSUME NEW w \in Workers, RecordFailure(w) PROVE TypeOK'
    <3>1. row[claim[w].task] \in Row /\ RetryLater(w) \in BOOLEAN
      BY <2>19, Busy DEF RecordFailure, RetryLater
    <3>2. row' \in [Tasks -> Row]
      BY <2>0, <2>19, <3>1 DEF RecordFailure, Row, Statuses
    <3>. QED
      BY <2>0, <2>19, <3>2 DEF RecordFailure, TypeOK
  <2>20. ASSUME NEW w \in Workers, RecordErrors(w) PROVE TypeOK'
    <3>1. claim' \in [Workers -> Claim \cup {Idle}]
      BY <2>0, <2>16, <2>20 DEF RecordErrors, NoArticle
    <3>2. mishaps' \in 0..MaxMishaps
      BY <2>20, DeliveryAssumption DEF RecordErrors, TypeOK
    <3>. QED
      BY <2>20, <3>1, <3>2 DEF RecordErrors, TypeOK
  <2>21. ASSUME NEW w \in Workers, Crash(w) PROVE TypeOK'
    <3>1. mishaps' \in 0..MaxMishaps
      BY <2>21, DeliveryAssumption DEF Crash, TypeOK
    <3>. QED
      BY <2>0, <2>21, <3>1 DEF Crash, TypeOK
  <2>22. CASE UNCHANGED vars
    BY <2>22 DEF vars, TypeOK
  <2>. QED
    BY <2>1, <2>2, <2>3, <2>4, <2>5, <2>6, <2>7, <2>8, <2>9, <2>10, <2>11, <2>12,
       <2>13, <2>14, <2>15, <2>17, <2>18, <2>19, <2>20, <2>21, <2>22
    DEF Next, WorkerStep, Mishap
<1>. QED
  BY <1>1, <1>2, PTL DEF Spec

\* What makes a settled row final: it names its article, so that the COALESCE
\* of _record_stale_article_id cannot write to it, and a successful answer
\* always names one.
SettledNamesArticle ==
    /\ \A t \in Tasks :
          row[t].status \in Terminal => row[t].article # NoArticle
    /\ \A w \in Workers :
          claim[w].step = "answered" /\ Successful(w) =>
              claim[w].article # NoArticle

\* No status is both in flight and terminal.
LEMMA Disjoint == InFlight \cap Terminal = {}
  BY DEF InFlight, Terminal

\* A step of the registration side or of time leaves terminal rows alone and
\* makes no row terminal.
LEMMA OutsideKeepsTerminal ==
  ASSUME TypeOK,
         \/ \E t \in Tasks : \/ Encode(t) \/ NameArrives(t) \/ RefreshEvent(t)
                              \/ Retry(t) \/ Time(t)
         \/ \E e \in Enqueuers : Register(e) \/ \E t \in Tasks : ReadSource(e, t)
  PROVE  /\ claim' = claim
         /\ \A t \in Tasks :
              /\ row[t].status \in Terminal => row'[t] = row[t]
              /\ row'[t].status \in Terminal => row[t].status \in Terminal
<1>1. row \in [Tasks -> Row]
  BY DEF TypeOK
<1>2. ASSUME NEW t \in Tasks, Encode(t) \/ NameArrives(t)
      PROVE  claim' = claim /\ row' = row
  BY <1>2 DEF Encode, NameArrives
<1>3. ASSUME NEW u \in Tasks, NEW t \in Tasks,
             RefreshEvent(u) \/ Retry(u) \/ Time(u)
      PROVE  /\ claim' = claim
             /\ row[t].status \in Terminal => row'[t] = row[t]
             /\ row'[t].status \in Terminal => row[t].status \in Terminal
  <2>1. CASE RefreshEvent(u)
    BY <1>1, <2>1 DEF RefreshEvent, Row
  <2>2. CASE Retry(u)
    BY <1>1, <2>2 DEF Retry, Row, Terminal
  <2>3. CASE Time(u)
    <3>1. CASE LeaseLapses(u)
      BY <1>1, <3>1, Disjoint DEF LeaseLapses, Row
    <3>2. CASE AttemptDue(u)
      BY <1>1, <3>2 DEF AttemptDue, Row, Terminal
    <3>3. CASE DeadlinePasses(u)
      BY <1>1, <3>3 DEF DeadlinePasses, Row
    <3>. QED
      BY <2>3, <3>1, <3>2, <3>3 DEF Time
  <2>. QED
    BY <1>3, <2>1, <2>2, <2>3
<1>4. ASSUME NEW e \in Enqueuers, NEW t \in Tasks, Register(e)
      PROVE  /\ row[t].status \in Terminal => row'[t] = row[t]
             /\ row'[t].status \in Terminal => row[t].status \in Terminal
  <2> DEFINE s == read[e]
             u == s.task
  <2>1. claim' = claim /\ u \in Tasks /\ row[u] \in Row
    BY <1>1, <1>4, HasRead DEF Register
  <2>2. ArrivalStatus(s) \notin Terminal
    BY DEF ArrivalStatus, Terminal
  <2>3. CASE InsertRow(u, s)
    BY <1>1, <2>1, <2>2, <2>3 DEF InsertRow, Absent, Terminal
  <2>4. CASE RefreshUnchanged(u, s)
    <3>1. row'[u].status \notin Terminal
      BY <1>1, <2>1, <2>4 DEF RefreshUnchanged, Row, Terminal
    <3>2. t # u => row'[t] = row[t]
      BY <1>1, <2>1, <2>4 DEF RefreshUnchanged
    <3>. QED
      BY <2>1, <2>4, <3>1, <3>2 DEF RefreshUnchanged
  <2>5. CASE RewriteMetadata(u, s)
    BY <1>1, <2>1, <2>5 DEF RewriteMetadata, Row
  <2>6. CASE NewArtifact(u, s)
    BY <1>1, <2>1, <2>2, <2>6 DEF NewArtifact, Row
  <2>7. CASE LeaveTerminal(u)
    BY <2>1, <2>7 DEF LeaveTerminal
  <2>. QED
    BY <1>4, <2>3, <2>4, <2>5, <2>6, <2>7 DEF Register
<1>5. ASSUME NEW e \in Enqueuers, NEW t \in Tasks, ReadSource(e, t)
      PROVE  claim' = claim /\ row' = row
  BY <1>5 DEF ReadSource
<1>6. claim' = claim
  <2>1. \A e \in Enqueuers : Register(e) => claim' = claim
    BY DEF Register
  <2>2. \A u \in Tasks : RefreshEvent(u) \/ Retry(u) \/ Time(u) => claim' = claim
    BY DEF RefreshEvent, Retry, Time, LeaseLapses, AttemptDue, DeadlinePasses
  <2>. QED
    BY <1>2, <1>5, <2>1, <2>2
<1>7. ASSUME NEW t \in Tasks
      PROVE  /\ row[t].status \in Terminal => row'[t] = row[t]
             /\ row'[t].status \in Terminal => row[t].status \in Terminal
  BY <1>2, <1>3, <1>4, <1>5
<1>. QED
  BY <1>6, <1>7

\* A step of a worker up to the platform's answer leaves terminal rows alone,
\* and what it makes terminal names an article.
LEMMA WorkerKeepsTerminal ==
  ASSUME TypeOK, SettledNamesArticle, NEW w \in Workers, WorkerStep(w) \/ Mishap(w)
  PROVE  /\ \A t \in Tasks :
              /\ row[t].status \in Terminal => row'[t] = row[t]
              /\ row'[t].status \in Terminal /\ row[t].status \notin Terminal =>
                   row'[t].article # NoArticle
         /\ \A v \in Workers \ {w} : claim'[v] = claim[v]
         /\ claim'[w].step = "answered" /\ claim'[w].outcome \in {"ok", "duplicate"} =>
              claim'[w].article # NoArticle
<1> DEFINE c == claim[w]
           u == c.task
<1>1. /\ row \in [Tasks -> Row] /\ claim \in [Workers -> Claim \cup {Idle}]
      /\ c.step # "idle" => c \in Claim /\ u \in Tasks /\ row[u] \in Row
      /\ Idle.step = "idle"
  BY Busy DEF TypeOK, Idle
<1>2. CASE ClaimDue(w)
  <2>1. PICK t \in Tasks :
          /\ Claimable(t)
          /\ row' = [row EXCEPT ![t] =
                       [@ EXCEPT !.status = "creating", !.owner = w,
                                 !.lapsed = FALSE, !.due = TRUE,
                                 !.attempts = NextAttempt(t)]]
          /\ claim' = [claim EXCEPT ![w] =
                [step |-> "claimed", task |-> t, gen |-> row[t].gen,
                 attempts |-> NextAttempt(t), passed |-> DeadlinePassed(t),
                 artifact |-> row[t].artifact, archive |-> NoArticle,
                 mode |-> "publish", reason |-> "none", outcome |-> "none",
                 article |-> NoArticle]]
    BY <1>2 DEF ClaimDue, Candidates
  <2>2. row[t].status \notin Terminal
    BY <2>1 DEF Claimable, InFlight, Terminal
  <2>3. row'[t].status \notin Terminal
    BY <1>1, <2>1 DEF Terminal, Row
  <2>. QED
    BY <1>1, <2>1, <2>2, <2>3
<1>3. CASE Abandon(w) \/ Crash(w)
  BY <1>1, <1>3 DEF Abandon, Crash, Drop
<1>4. CASE Inspect(w) \/ StageFails(w)
  BY <1>1, <1>4 DEF Inspect, StageFails, Claim
<1>5. CASE HoldClaim(w)
  <2>1. u \in Tasks /\ row[u] \in Row
    BY <1>1, <1>5 DEF HoldClaim
  <2>2. \A t \in Tasks : row'[t] = row[t] \/ row[t].status \in InFlight
    BY <1>1, <1>5, <2>1 DEF HoldClaim, Owned
  <2>3. \A t \in Tasks : row'[t] = row[t] \/ row'[t].status \notin Terminal
    BY <1>1, <1>5, <2>1 DEF HoldClaim, Row, Terminal
  <2>. QED
    BY <1>1, <1>5, <2>2, <2>3, Disjoint DEF HoldClaim, Drop
<1>6. CASE Decide(w)
  <2>1. c.step = "staging" /\ u \in Tasks /\ row[u] \in Row /\ c \in Claim
    BY <1>1, <1>6 DEF Decide
  <2>2. row[u].status \in InFlight
    BY <1>6 DEF Decide, Owned
  <2>3. \A t \in Tasks : row'[t].status = row[t].status
    BY <1>1, <1>6, <2>1 DEF Decide, Row
  <2>4. \A t \in Tasks : t # u => row'[t] = row[t]
    BY <1>1, <1>6, <2>1 DEF Decide
  <2>5. claim'[w].step \in {"wait", "planned"} /\ \A v \in Workers \ {w} : claim'[v] = claim[v]
    BY <1>1, <1>6, <2>1 DEF Decide, ManualPlan, OcrPlan, Plan, Claim
  <2>. QED
    BY <2>2, <2>3, <2>4, <2>5, Disjoint
<1>7. CASE ReturnToPersonWait(w)
  <2>1. u \in Tasks /\ row[u] \in Row
    BY <1>1, <1>7 DEF ReturnToPersonWait
  <2>2. \A t \in Tasks : row'[t] = row[t] \/ row[t].status \in InFlight
    BY <1>1, <1>7, <2>1 DEF ReturnToPersonWait, Owned
  <2>3. \A t \in Tasks : row'[t] = row[t] \/ row'[t].status \notin Terminal
    BY <1>1, <1>7, <2>1 DEF ReturnToPersonWait, Row, Terminal
  <2>. QED
    BY <1>1, <1>7, <2>2, <2>3, Disjoint DEF ReturnToPersonWait, Drop
<1>8. CASE SetClaimPhase(w)
  <2>1. u \in Tasks /\ row[u] \in Row /\ c \in Claim
    BY <1>1, <1>8 DEF SetClaimPhase
  <2>2. \A t \in Tasks : row'[t] = row[t] \/ row[t].status \in InFlight
    BY <1>1, <1>8, <2>1 DEF SetClaimPhase, Owned
  <2>3. \A t \in Tasks : row'[t] = row[t] \/ row'[t].status \notin Terminal
    BY <1>1, <1>8, <2>1 DEF SetClaimPhase, Row, Terminal
  <2>4. claim'[w].step = "calling" /\ \A v \in Workers \ {w} : claim'[v] = claim[v]
    BY <1>1, <1>8, <2>1 DEF SetClaimPhase, Claim
  <2>. QED
    BY <2>2, <2>3, <2>4, Disjoint
<1>9. CASE CallSucceeds(w) \/ CallDuplicate(w) \/ CallFails(w) \/ AnswerLost(w)
  <2>1. row' = row /\ c.step = "calling" /\ c \in Claim
    BY <1>1, <1>9 DEF CallSucceeds, CallDuplicate, CallFails, AnswerLost
  <2>2. AppliedId(w) # NoArticle /\ \A i \in DOMAIN articles : i # NoArticle
    BY <2>1, AppliedType DEF NoArticle, TypeOK
  <2>3. PICK outcome, id :
          /\ Answered(w, outcome, id)
          /\ outcome \in {"ok", "duplicate"} => id # NoArticle
    BY <1>9, <2>2 DEF CallSucceeds, CallDuplicate, CallFails, AnswerLost
  <2>4. /\ claim'[w].outcome = outcome /\ claim'[w].article = id
        /\ \A v \in Workers \ {w} : claim'[v] = claim[v]
    BY <1>1, <2>1, <2>3 DEF Answered, Claim
  <2>. QED
    BY <2>1, <2>3, <2>4
<1>10. CASE RecordSuccess(w)
  <2>1. u \in Tasks /\ row[u] \in Row /\ c \in Claim
    BY <1>1, <1>10 DEF RecordSuccess
  <2>2. c.article # NoArticle
    BY <1>10 DEF RecordSuccess, SettledNamesArticle
  <2>3. claim' = [claim EXCEPT ![w] = Idle]
    BY <1>10 DEF RecordSuccess, Drop
  <2>4. CASE Owned(w) /\ RecordDelivered(w)
    <3>1. row[u].status \in InFlight
      BY <2>4 DEF Owned
    <3>2. row'[u].article = c.article /\ \A t \in Tasks : t # u => row'[t] = row[t]
      BY <1>1, <2>1, <2>4 DEF RecordDelivered, Row
    <3>. QED
      BY <1>1, <2>2, <2>3, <3>1, <3>2, Disjoint
  <2>5. CASE Owned(w) /\ RecordDraftCreated(w)
    <3>1. row[u].status \in InFlight
      BY <2>5 DEF Owned
    <3>2. row'[u].article = c.article /\ \A t \in Tasks : t # u => row'[t] = row[t]
      BY <1>1, <2>1, <2>5 DEF RecordDraftCreated, Row
    <3>. QED
      BY <1>1, <2>2, <2>3, <3>1, <3>2, Disjoint
  <2>6. CASE RecordStaleArticle(w)
    <3>1. row[u].status \in Terminal => row'[u] = row[u]
      BY <2>1, <2>6 DEF RecordStaleArticle, SettledNamesArticle
    <3>2. row'[u].status = row[u].status /\ \A t \in Tasks : t # u => row'[t] = row[t]
      BY <1>1, <2>1, <2>6 DEF RecordStaleArticle, Row
    <3>. QED
      BY <1>1, <2>3, <3>1, <3>2
  <2>. QED
    BY <1>10, <2>4, <2>5, <2>6 DEF RecordSuccess
<1>11. CASE RecordFailure(w)
  <2>1. u \in Tasks /\ row[u] \in Row
    BY <1>1, <1>11 DEF RecordFailure
  <2>2. \A t \in Tasks : row'[t] = row[t] \/ row[t].status \in InFlight
    BY <1>1, <1>11, <2>1 DEF RecordFailure, Owned
  <2>3. \A t \in Tasks : row'[t] = row[t] \/ row'[t].status \notin Terminal
    BY <1>1, <1>11, <2>1 DEF RecordFailure, Row, Terminal
  <2>. QED
    BY <1>1, <1>11, <2>2, <2>3, Disjoint DEF RecordFailure, Drop
<1>12. CASE RecordErrors(w)
  <2>1. c \in Claim
    BY <1>1, <1>12 DEF RecordErrors
  <2>. QED
    BY <1>1, <1>12, <2>1 DEF RecordErrors, Answered, Drop, Claim
<1>. QED
  BY <1>2, <1>3, <1>4, <1>5, <1>6, <1>7, <1>8, <1>9, <1>10, <1>11, <1>12
  DEF WorkerStep, Mishap

\* A published or drafted row is final, for any number of workers that take
\* each other's leases over and any number of mishaps.
THEOREM TerminalForeverHolds == Spec => TerminalForever
<1>1. Init => SettledNamesArticle
  BY DEF Init, SettledNamesArticle, Absent, Idle, Terminal
<1>2. ASSUME TypeOK, SettledNamesArticle, [Next]_vars
      PROVE  /\ SettledNamesArticle'
             /\ \A t \in Tasks : row[t].status \in Terminal => row'[t] = row[t]
  <2>1. CASE UNCHANGED vars
    BY <1>2, <2>1 DEF vars, SettledNamesArticle, Successful
  <2>2. ASSUME NEW w \in Workers, WorkerStep(w) \/ Mishap(w)
        PROVE  /\ SettledNamesArticle'
               /\ \A t \in Tasks : row[t].status \in Terminal => row'[t] = row[t]
    BY <1>2, <2>2, WorkerKeepsTerminal DEF SettledNamesArticle, Successful
  <2>3. CASE \/ \E t \in Tasks : \/ Encode(t) \/ NameArrives(t) \/ RefreshEvent(t)
                                  \/ Retry(t) \/ Time(t)
             \/ \E e \in Enqueuers : Register(e) \/ \E t \in Tasks : ReadSource(e, t)
    BY <1>2, <2>3, OutsideKeepsTerminal DEF SettledNamesArticle, Successful
  <2>. QED
    BY <1>2, <2>1, <2>2, <2>3 DEF Next
<1>3. Spec => []TypeOK
  BY TypeCorrect
<1>. QED
  BY <1>1, <1>2, <1>3, PTL DEF Spec, TerminalForever

\* Why nothing is published under the team's name too early: a claim that
\* remembers a passed deadline owns a row whose deadline is passed, and only
\* such a claim plans the fallback.
DeadlineInv ==
    /\ \A t \in Tasks : row[t].draftAt => row[t].deadline # "none"
    /\ \A w \in Workers :
          claim[w].step # "idle" /\ Owned(w) =>
              /\ claim[w].passed => row[claim[w].task].deadline = "passed"
              /\ claim[w].reason = "fallback" => claim[w].passed
    /\ FallbackOnlyAfterDeadline

\* What a step may do to a row without disturbing DeadlineInv: it hands the
\* row to nobody, and does not take a passed deadline from an owner.
RowKeeps(t) ==
    /\ row'[t].draftAt => row'[t].deadline # "none"
    /\ row'[t].owner # NoOne /\ row'[t].status \in InFlight =>
          /\ row[t].status \in InFlight
          /\ row'[t].owner = row[t].owner /\ row'[t].gen = row[t].gen
          /\ row[t].deadline = "passed" => row'[t].deadline = "passed"
    /\ row'[t].status = "published" /\ row'[t].reason = "fallback" =>
          row'[t].deadline = "passed"

\* What a step may do to a claim: drop it, or keep what it claimed and plan
\* the fallback only after the deadline.
ClaimKeeps(w) ==
    claim'[w].step # "idle" =>
        /\ claim[w].step # "idle"
        /\ claim'[w].task = claim[w].task /\ claim'[w].gen = claim[w].gen
        /\ claim'[w].passed = claim[w].passed
        /\ claim'[w].reason = "fallback" =>
              claim[w].reason = "fallback" \/ claim[w].passed

\* Steps that keep every row and every claim preserve the invariant.
LEMMA KeepsDeadlines ==
  ASSUME TypeOK, DeadlineInv, \A t \in Tasks : RowKeeps(t),
         \A w \in Workers : ClaimKeeps(w)
  PROVE  DeadlineInv'
<1>1. ASSUME NEW w \in Workers, claim'[w].step # "idle", Owned(w)'
      PROVE  /\ claim'[w].passed => row'[claim'[w].task].deadline = "passed"
             /\ claim'[w].reason = "fallback" => claim'[w].passed
  <2> DEFINE t == claim[w].task
  <2>1. /\ claim[w].step # "idle" /\ claim'[w].task = t
        /\ claim'[w].gen = claim[w].gen /\ claim'[w].passed = claim[w].passed
        /\ claim'[w].reason = "fallback" =>
              claim[w].reason = "fallback" \/ claim[w].passed
    BY <1>1 DEF ClaimKeeps
  <2>2. t \in Tasks
    BY <2>1, Busy
  <2>3. /\ row'[t].gen = claim[w].gen /\ row'[t].owner = w
        /\ row'[t].status \in InFlight
    BY <1>1, <2>1 DEF Owned
  <2>4. w # NoOne
    BY DeliveryAssumption
  <2>5. Owned(w) /\ (row[t].deadline = "passed" => row'[t].deadline = "passed")
    BY <2>2, <2>3, <2>4 DEF RowKeeps, Owned
  <2>. QED
    BY <2>1, <2>5 DEF DeadlineInv
<1>2. \A t \in Tasks : row'[t].draftAt => row'[t].deadline # "none"
  BY DEF RowKeeps
<1>3. FallbackOnlyAfterDeadline'
  BY DEF RowKeeps, FallbackOnlyAfterDeadline
<1>. QED
  BY <1>1, <1>2, <1>3 DEF DeadlineInv

\* A row that a step leaves alone is kept.
LEMMA SameRow ==
  ASSUME DeadlineInv, NEW t \in Tasks, row'[t] = row[t]
  PROVE  RowKeeps(t)
  BY DEF RowKeeps, DeadlineInv, FallbackOnlyAfterDeadline

\* The registration side and time keep every row.
LEMMA OutsideKeepsRows ==
  ASSUME TypeOK, DeadlineInv, NEW t \in Tasks,
         \/ \E u \in Tasks : \/ Encode(u) \/ NameArrives(u) \/ RefreshEvent(u)
                              \/ Retry(u) \/ Time(u)
         \/ \E e \in Enqueuers : Register(e) \/ \E u \in Tasks : ReadSource(e, u)
  PROVE  RowKeeps(t)
<1>1. row \in [Tasks -> Row] /\ (row[t].draftAt => row[t].deadline # "none")
  BY DEF TypeOK, DeadlineInv
<1>2. row[t].status = "published" /\ row[t].reason = "fallback" =>
        row[t].deadline = "passed"
  BY DEF DeadlineInv, FallbackOnlyAfterDeadline
<1>3. ASSUME NEW u \in Tasks, Encode(u) \/ NameArrives(u)
      PROVE  RowKeeps(t)
  BY <1>3, SameRow DEF Encode, NameArrives
<1>4. ASSUME NEW u \in Tasks, RefreshEvent(u) \/ Retry(u)
      PROVE  RowKeeps(t)
  BY <1>1, <1>2, <1>4 DEF RefreshEvent, Retry, RowKeeps, Row, InFlight
<1>5. ASSUME NEW u \in Tasks, Time(u)
      PROVE  RowKeeps(t)
  BY <1>1, <1>2, <1>5 DEF Time, LeaseLapses, AttemptDue, DeadlinePasses,
                          RowKeeps, Row, Terminal
<1>6. ASSUME NEW e \in Enqueuers, Register(e)
      PROVE  RowKeeps(t)
  <2> DEFINE s == read[e]
             u == s.task
  <2>1. u \in Tasks /\ row[u] \in Row
    BY <1>1, <1>6, HasRead DEF Register
  <2>2. CASE t # u
    <3>1. row'[t] = row[t]
      BY <1>1, <1>6, <2>1, <2>2
         DEF Register, InsertRow, RefreshUnchanged, RewriteMetadata, NewArtifact,
             LeaveTerminal
    <3>. QED
      BY <3>1, SameRow
  <2>3. CASE t = u
    <3>1. ArrivalStatus(s) \notin Terminal
      BY DEF ArrivalStatus, Terminal
    <3>2. CASE InsertRow(u, s)
      BY <1>1, <2>1, <2>3, <3>1, <3>2 DEF InsertRow, Absent, RowKeeps, Terminal
    <3>3. CASE RefreshUnchanged(u, s)
      BY <1>1, <2>1, <2>3, <3>3
         DEF RefreshUnchanged, RowKeeps, Row, Terminal, InFlight
    <3>4. CASE RewriteMetadata(u, s)
      BY <1>1, <2>1, <2>3, <3>4 DEF RewriteMetadata, RowKeeps, Row, Terminal
    <3>5. CASE NewArtifact(u, s)
      BY <1>1, <2>1, <2>3, <3>1, <3>5 DEF NewArtifact, RowKeeps, Row, Terminal
    <3>6. CASE LeaveTerminal(u)
      BY <3>6, SameRow DEF LeaveTerminal
    <3>. QED
      BY <1>6, <3>2, <3>3, <3>4, <3>5, <3>6 DEF Register
  <2>. QED
    BY <2>2, <2>3
<1>7. ASSUME NEW e \in Enqueuers, NEW u \in Tasks, ReadSource(e, u)
      PROVE  RowKeeps(t)
  BY <1>7, SameRow DEF ReadSource
<1>. QED
  BY <1>3, <1>4, <1>5, <1>6, <1>7

\* Every worker step but the claim itself keeps every row and every claim.
LEMMA WorkerKeeps ==
  ASSUME TypeOK, DeadlineInv, NEW w \in Workers,
         WorkerStep(w) \/ Mishap(w), ~ClaimDue(w)
  PROVE  (\A t \in Tasks : RowKeeps(t)) /\ \A v \in Workers : ClaimKeeps(v)
<1> DEFINE c == claim[w]
           u == c.task
<1>1. /\ row \in [Tasks -> Row] /\ claim \in [Workers -> Claim \cup {Idle}]
      /\ c.step # "idle" => c \in Claim /\ u \in Tasks /\ row[u] \in Row
      /\ Idle.step = "idle"
  BY Busy DEF TypeOK, Idle
<1>2. \A t \in Tasks : row'[t] = row[t] => RowKeeps(t)
  BY SameRow
<1>3. ASSUME claim' = [claim EXCEPT ![w] = Idle]
      PROVE  \A v \in Workers : ClaimKeeps(v)
  BY <1>1, <1>3 DEF ClaimKeeps
<1>4. Owned(w) /\ c.step # "idle" =>
        /\ row[u].gen = c.gen /\ row[u].owner = w /\ row[u].status \in InFlight
        /\ c.passed => row[u].deadline = "passed"
        /\ c.reason = "fallback" => c.passed
        /\ row[u].draftAt => row[u].deadline # "none"
  BY <1>1 DEF Owned, DeadlineInv
<1>5. CASE Abandon(w) \/ Crash(w)
  BY <1>2, <1>3, <1>5 DEF Abandon, Crash, Drop
<1>6. CASE Inspect(w) \/ StageFails(w)
  <2>1. row' = row /\ c.step # "idle"
    BY <1>6 DEF Inspect, StageFails
  <2>2. \A v \in Workers : ClaimKeeps(v)
    BY <1>1, <1>6, <2>1 DEF Inspect, StageFails, ClaimKeeps, Claim
  <2>. QED
    BY <1>2, <2>1, <2>2
<1>7. CASE HoldClaim(w)
  <2>1. c.step # "idle" /\ u \in Tasks /\ row[u] \in Row
    BY <1>1, <1>7 DEF HoldClaim
  <2>2. \A t \in Tasks : t # u => row'[t] = row[t]
    BY <1>1, <1>7, <2>1 DEF HoldClaim
  <2>3. row'[u] = row[u] \/ RowKeeps(u)
    BY <1>1, <1>4, <1>7, <2>1 DEF HoldClaim, RowKeeps, Row
  <2>. QED
    BY <1>2, <1>3, <1>7, <2>2, <2>3 DEF HoldClaim, Drop
<1>8. CASE Decide(w)
  <2>1. c.step = "staging" /\ u \in Tasks /\ row[u] \in Row /\ c \in Claim
    BY <1>1, <1>8 DEF Decide
  <2>2. Owned(w)
    BY <1>8 DEF Decide
  <2>3. \A t \in Tasks : t # u => row'[t] = row[t]
    BY <1>1, <1>8, <2>1 DEF Decide
  <2>4. /\ row'[u].status = row[u].status /\ row'[u].owner = row[u].owner
        /\ row'[u].gen = row[u].gen /\ row'[u].deadline = row[u].deadline
        /\ row'[u].draftAt = row[u].draftAt /\ row'[u].reason = row[u].reason
    BY <1>1, <1>8, <2>1 DEF Decide, Row
  <2>5. RowKeeps(u)
    BY <1>4, <2>1, <2>2, <2>4 DEF RowKeeps, InFlight
  <2>6. PICK known \in BOOLEAN :
          claim' = [claim EXCEPT ![w] =
                      IF Manual(u) THEN ManualPlan(w) ELSE OcrPlan(w, known)]
    BY <1>8 DEF Decide, Manual
  <2>7. ASSUME NEW step, NEW mode, NEW archive, NEW reason
        PROVE  /\ Plan(w, step, mode, archive, reason).task = u
               /\ Plan(w, step, mode, archive, reason).gen = c.gen
               /\ Plan(w, step, mode, archive, reason).passed = c.passed
               /\ Plan(w, step, mode, archive, reason).reason = reason
    BY <2>1 DEF Plan, Claim
  <2>8. /\ ManualPlan(w).task = u /\ ManualPlan(w).gen = c.gen
        /\ ManualPlan(w).passed = c.passed /\ ManualPlan(w).reason = "manual"
    BY <2>7 DEF ManualPlan
  <2>9. /\ OcrPlan(w, known).task = u /\ OcrPlan(w, known).gen = c.gen
        /\ OcrPlan(w, known).passed = c.passed
        /\ OcrPlan(w, known).reason = "fallback" => c.passed
    <3>1. row[u].draftAt => row[u].deadline # "none"
      BY <1>4, <2>1, <2>2
    <3> HIDE DEF u, c
    <3>2. row[u].draftAt \in BOOLEAN /\ c.passed \in BOOLEAN /\ claim[w] = c /\ c.task = u
      BY <2>1 DEF Row, Claim, c, u
    <3>. QED
      BY <2>7, <3>1, <3>2 DEF OcrPlan
  <2>10. /\ claim'[w].task = u /\ claim'[w].gen = c.gen
         /\ claim'[w].passed = c.passed
         /\ claim'[w].reason = "fallback" => c.passed
         /\ \A v \in Workers \ {w} : claim'[v] = claim[v]
    <3> HIDE DEF u, c
    <3>. QED
      BY <1>1, <2>6, <2>8, <2>9
  <2>11. \A v \in Workers : ClaimKeeps(v)
    BY <2>1, <2>10 DEF ClaimKeeps
  <2>. QED
    BY <1>2, <2>3, <2>5, <2>11
<1>9. CASE ReturnToPersonWait(w)
  <2>1. c.step # "idle" /\ u \in Tasks /\ row[u] \in Row
    BY <1>1, <1>9 DEF ReturnToPersonWait
  <2>2. \A t \in Tasks : t # u => row'[t] = row[t]
    BY <1>1, <1>9, <2>1 DEF ReturnToPersonWait
  <2>3. row'[u] = row[u] \/ RowKeeps(u)
    BY <1>1, <1>4, <1>9, <2>1 DEF ReturnToPersonWait, RowKeeps, Row, Waiting
  <2>. QED
    BY <1>2, <1>3, <1>9, <2>2, <2>3 DEF ReturnToPersonWait, Drop
<1>10. CASE SetClaimPhase(w)
  <2>1. c.step # "idle" /\ u \in Tasks /\ row[u] \in Row /\ c \in Claim
    BY <1>1, <1>10 DEF SetClaimPhase
  <2>2. \A t \in Tasks : t # u => row'[t] = row[t]
    BY <1>1, <1>10, <2>1 DEF SetClaimPhase
  <2>3. RowKeeps(u)
    BY <1>1, <1>4, <1>10, <2>1 DEF SetClaimPhase, RowKeeps, Row
  <2>4. \A v \in Workers : ClaimKeeps(v)
    BY <1>1, <1>10, <2>1 DEF SetClaimPhase, ClaimKeeps, Claim
  <2>. QED
    BY <1>2, <2>2, <2>3, <2>4
<1>11. CASE CallSucceeds(w) \/ CallDuplicate(w) \/ CallFails(w) \/ AnswerLost(w)
  <2>1. row' = row /\ c.step # "idle" /\ c \in Claim
    BY <1>1, <1>11 DEF CallSucceeds, CallDuplicate, CallFails, AnswerLost
  <2>2. PICK outcome, id : Answered(w, outcome, id)
    BY <1>11 DEF CallSucceeds, CallDuplicate, CallFails, AnswerLost
  <2>3. \A v \in Workers : ClaimKeeps(v)
    BY <1>1, <2>1, <2>2 DEF Answered, ClaimKeeps, Claim
  <2>. QED
    BY <1>2, <2>1, <2>3
<1>12. CASE RecordSuccess(w)
  <2>1. c.step # "idle" /\ u \in Tasks /\ row[u] \in Row /\ c \in Claim
    BY <1>1, <1>12 DEF RecordSuccess
  <2>2. CASE Owned(w) /\ RecordDelivered(w)
    <3>1. \A t \in Tasks : t # u => row'[t] = row[t]
      BY <1>1, <2>1, <2>2 DEF RecordDelivered
    <3>2. /\ row'[u].status \notin InFlight /\ row'[u].reason = c.reason
          /\ row'[u].deadline = row[u].deadline /\ row'[u].draftAt = row[u].draftAt
      BY <1>1, <2>1, <2>2 DEF RecordDelivered, SettledStatus, Row, InFlight
    <3>3. RowKeeps(u)
      BY <1>4, <2>1, <2>2, <3>2 DEF RowKeeps
    <3>. QED
      BY <1>2, <1>3, <1>12, <3>1, <3>3 DEF RecordSuccess, Drop
  <2>3. CASE Owned(w) /\ RecordDraftCreated(w)
    <3>1. \A t \in Tasks : t # u => row'[t] = row[t]
      BY <1>1, <2>1, <2>3 DEF RecordDraftCreated
    <3>2. row'[u].owner = NoOne /\ row'[u].deadline = "ahead"
          /\ row'[u].status = "waiting_person"
      BY <1>1, <2>1, <2>3 DEF RecordDraftCreated, Row
    <3>3. RowKeeps(u)
      BY <3>2 DEF RowKeeps
    <3>. QED
      BY <1>2, <1>3, <1>12, <3>1, <3>3 DEF RecordSuccess, Drop
  <2>4. CASE RecordStaleArticle(w)
    <3>1. \A t \in Tasks : t # u => row'[t] = row[t]
      BY <1>1, <2>1, <2>4 DEF RecordStaleArticle
    <3>2. row'[u] = row[u] \/ row'[u] = [row[u] EXCEPT !.article = c.article]
      BY <1>1, <2>1, <2>4 DEF RecordStaleArticle
    <3>3. row'[u] = row[u] \/ RowKeeps(u)
      BY <2>1, <3>2 DEF RowKeeps, Row, DeadlineInv, FallbackOnlyAfterDeadline
    <3>. QED
      BY <1>2, <1>3, <1>12, <3>1, <3>3 DEF RecordSuccess, Drop
  <2>. QED
    BY <1>12, <2>2, <2>3, <2>4 DEF RecordSuccess
<1>13. CASE RecordFailure(w)
  <2>1. c.step # "idle" /\ u \in Tasks /\ row[u] \in Row
    BY <1>1, <1>13 DEF RecordFailure
  <2>2. \A t \in Tasks : t # u => row'[t] = row[t]
    BY <1>1, <1>13, <2>1 DEF RecordFailure
  <2>3. row'[u] = row[u] \/ RowKeeps(u)
    BY <1>1, <1>4, <1>13, <2>1 DEF RecordFailure, RowKeeps, Row
  <2>. QED
    BY <1>2, <1>3, <1>13, <2>2, <2>3 DEF RecordFailure, Drop
<1>14. CASE RecordErrors(w)
  <2>1. row' = row /\ c.step # "idle" /\ c \in Claim
    BY <1>1, <1>14 DEF RecordErrors
  <2>2. \A v \in Workers : ClaimKeeps(v)
    BY <1>1, <1>14, <2>1 DEF RecordErrors, Answered, Drop, ClaimKeeps, Claim
  <2>. QED
    BY <1>2, <2>1, <2>2
<1>. QED
  BY <1>5, <1>6, <1>7, <1>8, <1>9, <1>10, <1>11, <1>12, <1>13, <1>14
  DEF WorkerStep, Mishap

\* The claim fixes its comparison with the deadline while it becomes the owner.
LEMMA ClaimDueKeepsDeadlines ==
  ASSUME TypeOK, DeadlineInv, NEW w \in Workers, ClaimDue(w)
  PROVE  DeadlineInv'
<1>1. row \in [Tasks -> Row] /\ claim \in [Workers -> Claim \cup {Idle}]
  BY DEF TypeOK
<1>2. PICK t \in Tasks :
        /\ row' = [row EXCEPT ![t] =
                     [@ EXCEPT !.status = "creating", !.owner = w,
                               !.lapsed = FALSE, !.due = TRUE,
                               !.attempts = NextAttempt(t)]]
        /\ claim' = [claim EXCEPT ![w] =
              [step |-> "claimed", task |-> t, gen |-> row[t].gen,
               attempts |-> NextAttempt(t), passed |-> DeadlinePassed(t),
               artifact |-> row[t].artifact, archive |-> NoArticle,
               mode |-> "publish", reason |-> "none", outcome |-> "none",
               article |-> NoArticle]]
  BY DEF ClaimDue, Candidates
<1>3. /\ row'[t].owner = w /\ row'[t].status = "creating"
      /\ row'[t].deadline = row[t].deadline /\ row'[t].draftAt = row[t].draftAt
      /\ \A u \in Tasks : u # t => row'[u] = row[u]
  BY <1>1, <1>2 DEF Row
<1>4. /\ claim'[w].task = t /\ claim'[w].reason = "none"
      /\ claim'[w].passed = (row[t].deadline = "passed")
      /\ \A v \in Workers : v # w => claim'[v] = claim[v]
  BY <1>1, <1>2 DEF DeadlinePassed
<1>5. ASSUME NEW v \in Workers, claim'[v].step # "idle", Owned(v)'
      PROVE  /\ claim'[v].passed => row'[claim'[v].task].deadline = "passed"
             /\ claim'[v].reason = "fallback" => claim'[v].passed
  <2>1. CASE v = w
    BY <1>3, <1>4, <2>1
  <2>2. CASE v # w
    <3>1. claim'[v] = claim[v] /\ claim[v].task \in Tasks
      BY <1>4, <1>5, <2>2, Busy
    <3>2. row'[claim[v].task].owner = v
      BY <1>5, <3>1 DEF Owned
    <3>3. row'[claim[v].task] = row[claim[v].task]
      BY <1>3, <2>2, <3>1, <3>2
    <3>. QED
      BY <1>5, <3>1, <3>3 DEF DeadlineInv, Owned
  <2>. QED
    BY <2>1, <2>2
<1>6. \A u \in Tasks : row'[u].draftAt => row'[u].deadline # "none"
  BY <1>3 DEF DeadlineInv
<1>7. FallbackOnlyAfterDeadline'
  BY <1>3 DEF DeadlineInv, FallbackOnlyAfterDeadline
<1>. QED
  BY <1>5, <1>6, <1>7 DEF DeadlineInv

\* No article carries the team's name instead of the player's before the whole
\* wait is over, whatever claims are taken over and whatever generations come.
THEOREM FallbackOnlyAfterDeadlineHolds == Spec => []FallbackOnlyAfterDeadline
<1>1. Init => DeadlineInv
  BY DEF Init, DeadlineInv, FallbackOnlyAfterDeadline, Absent, Idle
<1>2. TypeOK /\ DeadlineInv /\ [Next]_vars => DeadlineInv'
  <2> SUFFICES ASSUME TypeOK, DeadlineInv, [Next]_vars
               PROVE  DeadlineInv'
    OBVIOUS
  <2>1. CASE UNCHANGED vars
    BY <2>1 DEF vars, DeadlineInv, FallbackOnlyAfterDeadline, Owned
  <2>2. ASSUME NEW w \in Workers, WorkerStep(w) \/ Mishap(w)
        PROVE  DeadlineInv'
    BY <2>2, ClaimDueKeepsDeadlines, WorkerKeeps, KeepsDeadlines
  <2>3. CASE \/ \E t \in Tasks : \/ Encode(t) \/ NameArrives(t) \/ RefreshEvent(t)
                                  \/ Retry(t) \/ Time(t)
             \/ \E e \in Enqueuers : Register(e) \/ \E t \in Tasks : ReadSource(e, t)
    <3>1. \A w \in Workers : ClaimKeeps(w)
      BY <2>3, OutsideKeepsTerminal DEF ClaimKeeps
    <3>2. \A t \in Tasks : RowKeeps(t)
      BY <2>3, OutsideKeepsRows
    <3>. QED
      BY <3>1, <3>2, KeepsDeadlines
  <2>. QED
    BY <2>1, <2>2, <2>3 DEF Next
<1>3. DeadlineInv => FallbackOnlyAfterDeadline
  BY DEF DeadlineInv
<1>. QED
  BY <1>1, <1>2, <1>3, TypeCorrect, PTL DEF Spec

-----------------------------------------------------------------------------
(***************************************************************************)
(* Which article a claim names, and how many there are.                    *)
(***************************************************************************)

\* One process claims each kind: the dashboard's worker OCR tasks, the monitor's
\* clips and edits (claim_artifact_kinds).  A second worker of a kind could take a
\* lapsed lease over while the first one still waits for the platform.
OneWorkerPerKind ==
    \A v, w \in Workers : v # w => WorkerKinds[v] \cap WorkerKinds[w] = {}

\* No two edits of one article, the later of which would replace the earlier.
OneEditPerArticle ==
    \A t, u \in Tasks : Kind[t] = "edit" /\ Archive[t] = Archive[u] => t = u

Open(t) == row[t].status \notin Terminal \cup {"absent"}
Owns(w, t) ==
    row[t].gen = claim[w].gen /\ row[t].owner = w /\ row[t].status \in InFlight

Works(w, t) == claim[w].step # "idle" /\ claim[w].task = t
HasArticle(w) == claim[w].step = "answered" /\ Successful(w)

\* Article i is one that task t may name: the one an edit was made for, or one
\* that the task created.
Names(t, i) ==
    /\ i \in DOMAIN articles
    /\ IF Kind[t] = "edit" THEN i = Archive[t] ELSE articles[i].task = t

ArticlesPlaced ==
    /\ Archived <= Len(articles)
    /\ \A i \in DOMAIN articles :
          IF i <= Archived THEN Archive[articles[i].task] = i
          ELSE Kind[articles[i].task] # "edit"

RowOK(t) ==
    /\ row[t].status = "absent" => row[t] = Absent
    /\ row[t].status # "absent" =>
          row[t].gen > 0 /\ (Kind[t] = "edit" => row[t].article = Archive[t])
    /\ row[t].article # NoArticle => Names(t, row[t].article)

\* The task of a claim is open, and the claim is its owner unless a new
\* generation began; it sends the article that the row names, and has the answer
\* about that article.
ClaimOK(w, t) ==
    /\ Kind[t] \in WorkerKinds[w]
    /\ Open(t)
    /\ claim[w].gen > 0 /\ claim[w].gen <= row[t].gen
    /\ claim[w].gen = row[t].gen => Owns(w, t)
    /\ claim[w].step \in {"planned", "calling"} =>
          claim[w].archive = IF Kind[t] = "clip" THEN NoArticle ELSE row[t].article
    /\ HasArticle(w) =>
          /\ Names(t, claim[w].article)
          /\ Kind[t] # "clip" /\ row[t].article # NoArticle =>
                claim[w].article = row[t].article

NamesInv ==
    /\ ArticlesPlaced
    /\ \A t \in Tasks : RowOK(t)
    /\ \A w \in Workers, t \in Tasks : Works(w, t) => ClaimOK(w, t)

\* An answer that is not recorded yet.
Delivers(t) == \E w \in Workers : HasArticle(w) /\ Works(w, t)

Count(t) == Cardinality(ArticlesOf(t))

OcrCount(t) ==
    Count(t) <= mishaps + (IF row[t].article # NoArticle \/ Delivers(t) THEN 1 ELSE 0)

ClipCount(t) ==
    /\ Count(t) <= mishaps + row[t].gen
    /\ Open(t) /\ ~Delivers(t) => Count(t) < mishaps + row[t].gen
    /\ \A w \in Workers : Works(w, t) =>
          /\ Count(t) <= mishaps + claim[w].gen
          /\ ~HasArticle(w) => Count(t) < mishaps + claim[w].gen

CountInv == \A t \in Tasks :
    /\ Kind[t] = "ocr" => OcrCount(t)
    /\ Kind[t] = "clip" => ClipCount(t)

\* What is answered "ok" is on the platform as it was sent.
CurrentInv ==
    /\ PublishedIsCurrent
    /\ \A w \in Workers :
          HasArticle(w) /\ claim[w].outcome = "ok" => articles[claim[w].article] = Sent(w)

\* A step that does not record an article leaves a settled row alone and the
\* article of an open one; it may begin a generation.
RowGoes(t) ==
    \/ row'[t] = row[t]
    \/ /\ Open(t) /\ Open(t)'
       /\ row'[t].gen = row[t].gen /\ row'[t].article = row[t].article
    \/ /\ row[t].status \notin Terminal /\ Open(t)'
       /\ row'[t].gen = row[t].gen + 1
       /\ row'[t].article = IF row[t].status = "absent" THEN Archive[t] ELSE row[t].article

\* What such a step may do to a claim: none without an answer becomes one with.
NewClaim(w, t) ==
    /\ claim[w].step = "idle" /\ claim'[w].step = "claimed"
    /\ Kind[t] \in WorkerKinds[w] /\ Open(t)
    /\ claim'[w].gen = row[t].gen /\ row'[t].gen = row[t].gen
    /\ Owns(w, t)'

KeptClaim(w, t) ==
    /\ Works(w, t)
    /\ claim'[w].gen = claim[w].gen
    /\ Owns(w, t) /\ row'[t].gen = claim[w].gen => Owns(w, t)'
    /\ claim'[w].step \in {"planned", "calling"} =>
          \/ claim[w].step \in {"planned", "calling"} /\ claim'[w].archive = claim[w].archive
          \/ claim'[w].archive = IF Kind[t] = "clip" THEN NoArticle ELSE row[t].article
    /\ HasArticle(w)' => claim'[w] = claim[w]

ClaimGoes(w) == \A t \in Tasks : Works(w, t)' => NewClaim(w, t) \/ KeptClaim(w, t)

Quiet ==
    /\ articles' = articles
    /\ \A t \in Tasks : RowGoes(t)
    /\ \A w \in Workers : ClaimGoes(w)

-----------------------------------------------------------------------------
LEMMA StatusSets == InFlight \cap (Terminal \cup {"absent"}) = {} /\ "absent" \notin Terminal
BY DEF InFlight, Terminal

LEMMA Typed ==
    ASSUME TypeOK
    PROVE  /\ row \in [Tasks -> Row] /\ claim \in [Workers -> Claim \cup {Idle}]
           /\ \A t \in Tasks : row[t].gen \in Nat /\ row[t].article \in Nat
           /\ \A w \in Workers : claim[w].step # "idle" =>
                /\ claim[w] \in Claim /\ claim[w].task \in Tasks /\ claim[w].gen \in Nat
                /\ claim[w].article \in Nat /\ claim[w].archive \in Nat
           /\ Idle.step = "idle"
           /\ articles \in Seq(Article) /\ Len(articles) \in Nat
           /\ DOMAIN articles = 1..Len(articles)
           /\ \A i \in DOMAIN articles : articles[i] \in Article /\ articles[i].task \in Tasks
           /\ mishaps \in Nat
<1>1. row \in [Tasks -> Row] /\ claim \in [Workers -> Claim \cup {Idle}] /\ mishaps \in Nat
    BY DEF TypeOK
<1>2. \A t \in Tasks : row[t].gen \in Nat /\ row[t].article \in Nat
    BY <1>1 DEF Row
<1>3. \A w \in Workers : claim[w].step # "idle" =>
        /\ claim[w] \in Claim /\ claim[w].task \in Tasks /\ claim[w].gen \in Nat
        /\ claim[w].article \in Nat /\ claim[w].archive \in Nat
    BY Busy DEF Claim
<1>4. /\ articles \in Seq(Article) /\ Len(articles) \in Nat
      /\ DOMAIN articles = 1..Len(articles)
      /\ \A i \in DOMAIN articles : articles[i] \in Article
    BY DEF TypeOK
<1>5. \A i \in DOMAIN articles : articles[i].task \in Tasks
    BY <1>4 DEF Article
<1>. QED  BY <1>1, <1>2, <1>3, <1>4, <1>5 DEF Idle

\* The articles of a task are finitely many.
LEMMA CountNat ==
    ASSUME TypeOK, NEW t \in Tasks
    PROVE  ArticlesOf(t) \subseteq 1..Len(articles) /\ IsFiniteSet(ArticlesOf(t)) /\ Count(t) \in Nat
<1>1. ArticlesOf(t) \subseteq 1..Len(articles)  BY Typed DEF ArticlesOf
<1>2. IsFiniteSet(1..Len(articles))  BY Typed, FS_Interval
<1>. QED  BY <1>1, <1>2, FS_Subset, FS_CardinalityType DEF Count

\* Of two busy workers, each has a task of its own.
LEMMA Alone ==
    ASSUME OneWorkerPerKind, NamesInv, NEW t \in Tasks, NEW v \in Workers, NEW w \in Workers,
           Works(v, t), Works(w, t)
    PROVE  v = w
BY DEF OneWorkerPerKind, NamesInv, ClaimOK

\* A claim's own view of its row and the one of this section agree.
LEMMA OwnedOwns ==
    ASSUME NEW w \in Workers, NEW t \in Tasks, Works(w, t)
    PROVE  Owned(w) <=> Owns(w, t)
BY DEF Works, Owned, Owns

\* A quiet step leaves every article where its task's row and claims name it.
LEMMA QuietNames ==
    ASSUME TypeOK, TypeOK', NamesInv, Quiet
    PROVE  NamesInv'
<1>1. ArticlesPlaced'  BY DEF NamesInv, ArticlesPlaced, Quiet
<1>2. \A t \in Tasks : \A i : Names(t, i) => Names(t, i)'  BY DEF Names, Quiet
<1>3. ASSUME NEW t \in Tasks PROVE RowOK(t)'
    <2>1. RowOK(t) /\ RowGoes(t) /\ row[t].gen \in Nat  BY Typed DEF NamesInv, Quiet
    <2>2. CASE row'[t] = row[t]  BY <1>2, <2>1, <2>2 DEF RowOK
    <2>3. CASE Open(t) /\ Open(t)' /\ row'[t].gen = row[t].gen /\ row'[t].article = row[t].article
        BY <1>2, <2>1, <2>3 DEF RowOK, Open
    <2>4. CASE row[t].status = "absent" /\ Open(t)' /\ row'[t].gen = row[t].gen + 1
               /\ row'[t].article = Archive[t]
        <3>1. Archive[t] # NoArticle => Names(t, Archive[t])'
            BY Typed, DeliveryAssumption DEF Names, NamesInv, ArticlesPlaced, Quiet, NoArticle
        <3>. QED  BY <2>1, <2>4, <3>1 DEF RowOK, Open
    <2>5. CASE row[t].status # "absent" /\ Open(t)' /\ row'[t].gen = row[t].gen + 1
               /\ row'[t].article = row[t].article
        BY <1>2, <2>1, <2>5 DEF RowOK, Open
    <2>. QED  BY <2>1, <2>2, <2>3, <2>4, <2>5 DEF RowGoes
<1>4. ASSUME NEW w \in Workers, NEW t \in Tasks, Works(w, t)' PROVE ClaimOK(w, t)'
    <2>1. CASE NewClaim(w, t)
        <3>1. row[t].gen > 0 /\ row[t].gen \in Nat  BY <2>1, Typed DEF NewClaim, NamesInv, RowOK, Open
        <3>2. Open(t)'  BY <2>1, StatusSets DEF NewClaim, Owns, Open
        <3>. QED  BY <2>1, <3>1, <3>2 DEF NewClaim, ClaimOK, HasArticle
    <2>2. CASE KeptClaim(w, t)
        <3>1. claim[w].gen \in Nat /\ row[t].gen \in Nat  BY <2>2, Typed DEF KeptClaim, Works
        <3>2. ClaimOK(w, t) /\ RowGoes(t)  BY <2>2 DEF NamesInv, Quiet, KeptClaim
        <3>3. /\ Open(t)' /\ row'[t].article = row[t].article
              /\ row'[t].gen = row[t].gen \/ row'[t].gen = row[t].gen + 1
            BY <3>2 DEF ClaimOK, RowGoes, Open
        <3>4. /\ claim'[w].gen > 0 /\ claim'[w].gen <= row'[t].gen
              /\ claim'[w].gen = row'[t].gen => Owns(w, t)'
            BY <2>2, <3>1, <3>2, <3>3 DEF ClaimOK, KeptClaim
        <3>5. claim'[w].step \in {"planned", "calling"} =>
                claim'[w].archive = IF Kind[t] = "clip" THEN NoArticle ELSE row'[t].article
            BY <2>2, <3>2, <3>3 DEF ClaimOK, KeptClaim
        <3>6. HasArticle(w)' =>
                /\ Names(t, claim[w].article)'
                /\ Kind[t] # "clip" /\ row'[t].article # NoArticle =>
                      claim'[w].article = row'[t].article
            <4>. SUFFICES ASSUME HasArticle(w)'
                          PROVE  /\ Names(t, claim[w].article)'
                                 /\ Kind[t] # "clip" /\ row'[t].article # NoArticle =>
                                       claim'[w].article = row'[t].article
                OBVIOUS
            <4>1. claim'[w] = claim[w] /\ HasArticle(w)
                BY <2>2 DEF KeptClaim, HasArticle, Successful
            <4>. QED  BY <3>2, <3>3, <4>1 DEF ClaimOK, Names, Quiet
        <3>. QED  BY <3>2, <3>3, <3>4, <3>5, <3>6 DEF ClaimOK
    <2>. QED  BY <1>4, <2>1, <2>2 DEF Quiet, ClaimGoes
<1>. QED  BY <1>1, <1>3, <1>4 DEF NamesInv

\* Whether a task's answer waits to be recorded: quiet steps keep it waiting, if
\* they leave every answered claim alone.
LEMMA QuietDelivers ==
    ASSUME \A w \in Workers : HasArticle(w) => claim'[w] = claim[w],
           NEW t \in Tasks, Delivers(t)
    PROVE  Delivers(t)'
BY DEF Delivers, HasArticle, Works, Successful

\* The step neither creates an article nor loses an answer: the counts hold.
LEMMA QuietCounts ==
    ASSUME OneWorkerPerKind, TypeOK, TypeOK', NamesInv, CountInv, Quiet, mishaps' = mishaps,
           \A w \in Workers : HasArticle(w) => claim'[w] = claim[w]
    PROVE  CountInv'
<1> SUFFICES ASSUME NEW t \in Tasks
             PROVE  /\ Kind[t] = "ocr" => OcrCount(t)'
                    /\ Kind[t] = "clip" => ClipCount(t)'
    BY DEF CountInv
<1>1. Count(t)' = Count(t)  BY DEF Count, ArticlesOf, Quiet
<1>2. RowGoes(t) /\ RowOK(t) /\ row[t].gen \in Nat  BY Typed DEF Quiet, NamesInv
<1>3. Delivers(t) => Delivers(t)'  BY QuietDelivers
<1>4. ASSUME Kind[t] = "ocr" PROVE OcrCount(t)'
    <2>1. row[t].status = "absent" => row[t].article = NoArticle
        BY <1>2 DEF RowOK, Absent
    <2>2. row[t].article # NoArticle => row'[t].article # NoArticle
        BY <1>2, <2>1 DEF RowGoes, Open
    <2>3. CASE row'[t].article # NoArticle \/ Delivers(t)'
        <3>1. Count(t) <= mishaps + 1
            <4>1. OcrCount(t)  BY <1>4 DEF CountInv
            <4>2. CASE row[t].article # NoArticle \/ Delivers(t)  BY <4>1, <4>2 DEF OcrCount
            <4>3. CASE ~(row[t].article # NoArticle \/ Delivers(t))
                BY <4>1, <4>3, Typed, CountNat DEF OcrCount
            <4>. QED  BY <4>2, <4>3
        <3>. QED  BY <1>1, <2>3, <3>1 DEF OcrCount
    <2>4. CASE ~(row'[t].article # NoArticle \/ Delivers(t)')
        BY <1>1, <1>3, <1>4, <2>2, <2>4 DEF OcrCount, CountInv
    <2>. QED  BY <2>3, <2>4
<1>5. ASSUME Kind[t] = "clip" PROVE ClipCount(t)'
    <2>1. ClipCount(t) /\ mishaps \in Nat /\ Count(t) \in Nat
        BY <1>5, Typed, CountNat DEF CountInv
    <2>2. Count(t) <= mishaps + row'[t].gen /\ row'[t].gen \in Nat
        BY <1>2, <2>1 DEF ClipCount, RowGoes
    <2>3. ASSUME Open(t)', ~Delivers(t)' PROVE Count(t) < mishaps + row'[t].gen
        <3>1. ~Delivers(t)  BY <1>3, <2>3
        <3>. QED  BY <1>2, <2>1, <2>3, <3>1 DEF ClipCount, RowGoes, Open
    <2>4. ASSUME NEW w \in Workers, Works(w, t)'
          PROVE  /\ Count(t) <= mishaps + claim'[w].gen
                 /\ ~HasArticle(w)' => Count(t) < mishaps + claim'[w].gen
        <3>1. CASE KeptClaim(w, t)
            <4>1. HasArticle(w) => HasArticle(w)'  BY DEF HasArticle, Successful
            <4>. QED  BY <2>1, <3>1, <4>1 DEF ClipCount, KeptClaim
        <3>2. CASE NewClaim(w, t)
            <4>1. ~Delivers(t)
                <5>1. ASSUME NEW v \in Workers, HasArticle(v), Works(v, t) PROVE FALSE
                    <6>1. Kind[t] \in WorkerKinds[v] /\ v # w
                        BY <3>2, <5>1 DEF NamesInv, ClaimOK, NewClaim, Works
                    <6>. QED  BY <3>2, <6>1 DEF NewClaim, OneWorkerPerKind
                <5>. QED  BY <5>1 DEF Delivers
            <4>2. Count(t) < mishaps + row[t].gen
                BY <2>1, <3>2, <4>1 DEF ClipCount, NewClaim
            <4>. QED  BY <1>2, <2>1, <3>2, <4>2 DEF NewClaim
        <3>. QED  BY <2>4, <3>1, <3>2 DEF Quiet, ClaimGoes
    <2>. QED  BY <1>1, <2>2, <2>3, <2>4 DEF ClipCount
<1>. QED  BY <1>4, <1>5

\* A mishap pays for the article whose answer it loses.
LEMMA QuietMishap ==
    ASSUME TypeOK, TypeOK', NamesInv, CountInv, Quiet, mishaps' = mishaps + 1
    PROVE  CountInv'
<1> SUFFICES ASSUME NEW t \in Tasks
             PROVE  /\ Kind[t] = "ocr" => OcrCount(t)'
                    /\ Kind[t] = "clip" => ClipCount(t)'
    BY DEF CountInv
<1>1. Count(t)' = Count(t)  BY DEF Count, ArticlesOf, Quiet
<1>2. RowGoes(t) /\ row[t].gen \in Nat /\ mishaps \in Nat /\ Count(t) \in Nat
    BY Typed, CountNat DEF Quiet
<1>3. ASSUME Kind[t] = "ocr" PROVE OcrCount(t)'
    <2>1. Count(t) <= mishaps + 1  BY <1>2, <1>3 DEF OcrCount, CountInv
    <2>. QED  BY <1>1, <1>2, <2>1 DEF OcrCount
<1>4. ASSUME Kind[t] = "clip" PROVE ClipCount(t)'
    <2>1. Count(t) <= mishaps + row[t].gen  BY <1>4 DEF ClipCount, CountInv
    <2>2. row'[t].gen = row[t].gen \/ row'[t].gen = row[t].gen + 1  BY <1>2 DEF RowGoes
    <2>3. ASSUME NEW w \in Workers, Works(w, t)' PROVE Count(t) < mishaps + 1 + claim'[w].gen
        <3>1. CASE KeptClaim(w, t)
            <4>1. Count(t) <= mishaps + claim[w].gen /\ claim[w].gen \in Nat
                BY <1>4, <3>1, Typed DEF ClipCount, CountInv, KeptClaim, Works
            <4>. QED  BY <1>2, <3>1, <4>1 DEF KeptClaim
        <3>2. CASE NewClaim(w, t)  BY <1>2, <2>1, <3>2 DEF NewClaim
        <3>. QED  BY <2>3, <3>1, <3>2 DEF Quiet, ClaimGoes
    <2>4. \A w \in Workers : Works(w, t)' => claim'[w].gen \in Nat  BY Typed DEF Works, TypeOK, Claim, Idle
    <2>. QED  BY <1>1, <1>2, <2>1, <2>2, <2>3, <2>4 DEF ClipCount
<1>. QED  BY <1>3, <1>4

\* A quiet step makes no promise about an article.
LEMMA QuietCurrent ==
    ASSUME TypeOK', CurrentInv, Quiet
    PROVE  CurrentInv'
<1>1. ASSUME NEW t \in Tasks, row'[t].status = "published" PROVE row'[t] = row[t]
    BY <1>1 DEF Quiet, RowGoes, Open, Terminal
<1>2. PublishedIsCurrent'
    BY <1>1 DEF CurrentInv, PublishedIsCurrent, Quiet
<1>3. ASSUME NEW w \in Workers, HasArticle(w)', claim'[w].outcome = "ok"
      PROVE  articles'[claim'[w].article] = Sent(w)'
    <2>1. Works(w, claim[w].task)' /\ claim'[w].task \in Tasks
        BY <1>3 DEF HasArticle, Works, TypeOK, Claim, Idle
    <2>2. PICK t \in Tasks : t = claim'[w].task  BY <2>1
    <2>3. Works(w, t)'  BY <1>3, <2>2 DEF HasArticle, Works
    <2>4. claim'[w] = claim[w]  BY <1>3, <2>3 DEF Quiet, ClaimGoes, KeptClaim, NewClaim, HasArticle
    <2>. QED  BY <1>3, <2>4 DEF CurrentInv, Quiet, HasArticle, Successful, Sent
<1>. QED  BY <1>2, <1>3 DEF CurrentInv

-----------------------------------------------------------------------------
\* Registration, time and the world outside record no article, and no claim
\* loses its row but to a new generation.
LEMMA OutsideQuiet ==
    ASSUME TypeOK, NamesInv,
           \/ \E t \in Tasks : \/ Encode(t) \/ NameArrives(t) \/ RefreshEvent(t)
                                \/ Retry(t) \/ Time(t)
           \/ \E e \in Enqueuers : Register(e) \/ \E t \in Tasks : ReadSource(e, t)
    PROVE  Quiet /\ mishaps' = mishaps /\ claim' = claim
<1>. DEFINE Stays(t) == /\ RowGoes(t)
                        /\ row[t].status \in InFlight /\ row'[t].gen = row[t].gen =>
                              row'[t].status \in InFlight /\ row'[t].owner = row[t].owner
<1>1. row \in [Tasks -> Row]  BY Typed
<1>2. claim' = claim /\ articles' = articles /\ mishaps' = mishaps
    BY OutsideKeepsTerminal
       DEF Encode, NameArrives, RefreshEvent, Retry, Time, LeaseLapses, AttemptDue,
           DeadlinePasses, Register, ReadSource
<1>3. ASSUME NEW t \in Tasks, NEW u \in Tasks,
             \/ Encode(u) \/ NameArrives(u) \/ RefreshEvent(u) \/ Retry(u) \/ Time(u)
      PROVE  Stays(t)
    <2>1. CASE Encode(u) \/ NameArrives(u)  BY <2>1 DEF Encode, NameArrives, RowGoes
    <2>2. CASE RefreshEvent(u)  BY <1>1, <2>2 DEF RefreshEvent, RowGoes, Row, Open
    <2>3. CASE Retry(u)  BY <1>1, <2>3 DEF Retry, RowGoes, Row, Open, InFlight, Terminal
    <2>4. CASE LeaseLapses(u)
        BY <1>1, <2>4, StatusSets DEF LeaseLapses, RowGoes, Row, Open
    <2>5. CASE AttemptDue(u)
        BY <1>1, <2>5 DEF AttemptDue, RowGoes, Row, Open, InFlight, Terminal
    <2>6. CASE DeadlinePasses(u)
        <3>1. row[u] # Absent  BY <2>6 DEF DeadlinePasses, Absent
        <3>2. row[u].status # "absent"  BY <3>1 DEF NamesInv, RowOK
        <3>. QED  BY <1>1, <2>6, <3>2 DEF DeadlinePasses, RowGoes, Row, Open
    <2>. QED  BY <1>3, <2>1, <2>2, <2>3, <2>4, <2>5, <2>6 DEF Time
<1>4. ASSUME NEW t \in Tasks, NEW e \in Enqueuers, Register(e)
      PROVE  Stays(t)
    <2>. DEFINE s == read[e]
                u == s.task
    <2>1. u \in Tasks /\ row[u] \in Row  BY <1>1, <1>4, HasRead DEF Register
    <2>2. CASE t # u
        <3>1. row'[t] = row[t]
            BY <1>1, <1>4, <2>1, <2>2
               DEF Register, InsertRow, RefreshUnchanged, RewriteMetadata, NewArtifact,
                   LeaveTerminal
        <3>. QED  BY <3>1 DEF RowGoes
    <2>3. CASE t = u
        <3>1. ArrivalStatus(s) \notin Terminal \cup {"absent"} \cup InFlight
            BY DEF ArrivalStatus, Terminal, InFlight
        <3>2. CASE InsertRow(u, s)
            <4>1. row[u] = Absent  BY <2>1, <3>2 DEF InsertRow, NamesInv, RowOK
            <4>. QED
                BY <1>1, <2>1, <2>3, <3>1, <3>2, <4>1, StatusSets
                   DEF InsertRow, Absent, RowGoes, Open
        <3>3. CASE RefreshUnchanged(u, s)
            <4>. DEFINE status == IF row[u].status = "held" /\ s.eligible THEN "queued"
                                  ELSE IF /\ row[u].status \in {"queued", "waiting_person"}
                                          /\ ~s.eligible
                                  THEN "held" ELSE row[u].status
            <4>1. /\ row'[u].status = status
                  /\ row'[u].gen = row[u].gen /\ row'[u].article = row[u].article
                  /\ row'[u].owner = row[u].owner
                <5>1. PICK due : row' = [row EXCEPT
                        ![u].person = s.person, ![u].eligible = s.eligible,
                        ![u].status = status, ![u].due = due]
                    BY <3>3 DEF RefreshUnchanged
                <5>. HIDE DEF status
                <5>. QED  BY <1>1, <2>1, <5>1 DEF Row
            <4>2. /\ status \notin Terminal \cup {"absent"} /\ Open(u)
                  /\ row[u].status \in InFlight => status = row[u].status
                BY <3>3 DEF RefreshUnchanged, Open, Terminal, InFlight
            <4>. QED  BY <2>3, <4>1, <4>2 DEF RowGoes, Open
        <3>4. CASE RewriteMetadata(u, s)
            BY <1>1, <2>1, <2>3, <3>4 DEF RewriteMetadata, RowGoes, Row, Open
        <3>5. CASE NewArtifact(u, s)
            BY <1>1, <2>1, <2>3, <3>1, <3>5 DEF NewArtifact, RowGoes, Row, Open
        <3>6. CASE LeaveTerminal(u)  BY <3>6 DEF LeaveTerminal, RowGoes
        <3>. QED  BY <1>4, <3>2, <3>3, <3>4, <3>5, <3>6 DEF Register
    <2>. QED  BY <2>2, <2>3
<1>5. ASSUME NEW t \in Tasks, NEW e \in Enqueuers, NEW u \in Tasks, ReadSource(e, u)
      PROVE  Stays(t)
    BY <1>5 DEF ReadSource, RowGoes
<1>6. \A t \in Tasks : Stays(t)  BY <1>3, <1>4, <1>5
<1>7. ASSUME NEW w \in Workers, NEW t \in Tasks, Works(w, t)' PROVE KeptClaim(w, t)
    <2>1. Works(w, t) /\ claim'[w] = claim[w]  BY <1>2, <1>7 DEF Works
    <2>2. Owns(w, t) /\ row'[t].gen = claim[w].gen => Owns(w, t)'
        BY <1>6, <2>1 DEF Owns
    <2>. QED  BY <2>1, <2>2 DEF KeptClaim
<1>. QED  BY <1>2, <1>6, <1>7 DEF Quiet, ClaimGoes

\* A worker takes the row of a task nobody else works on.
LEMMA ClaimDueQuiet ==
    ASSUME OneWorkerPerKind, TypeOK, NamesInv, NEW w \in Workers, ClaimDue(w)
    PROVE  Quiet /\ mishaps' = mishaps /\ \A v \in Workers : HasArticle(v) => claim'[v] = claim[v]
<1>1. row \in [Tasks -> Row] /\ claim \in [Workers -> Claim \cup {Idle}] /\ Idle.step = "idle"
    BY Typed
<1>2. PICK u \in Tasks :
        /\ Kind[u] \in WorkerKinds[w] /\ Claimable(u)
        /\ row' = [row EXCEPT ![u] =
                     [@ EXCEPT !.status = "creating", !.owner = w,
                               !.lapsed = FALSE, !.due = TRUE,
                               !.attempts = NextAttempt(u)]]
        /\ claim' = [claim EXCEPT ![w] =
              [step |-> "claimed", task |-> u, gen |-> row[u].gen,
               attempts |-> NextAttempt(u), passed |-> DeadlinePassed(u),
               artifact |-> row[u].artifact, archive |-> NoArticle,
               mode |-> "publish", reason |-> "none", outcome |-> "none",
               article |-> NoArticle]]
    BY DEF ClaimDue, Candidates
<1>3. claim[w] = Idle /\ articles' = articles /\ mishaps' = mishaps  BY DEF ClaimDue
<1>4. /\ row'[u].owner = w /\ row'[u].status = "creating"
      /\ row'[u].gen = row[u].gen /\ row'[u].article = row[u].article
      /\ \A t \in Tasks : t # u => row'[t] = row[t]
    BY <1>1, <1>2 DEF Row
<1>5. /\ claim'[w].step = "claimed" /\ claim'[w].task = u /\ claim'[w].gen = row[u].gen
      /\ \A v \in Workers : v # w => claim'[v] = claim[v]
    BY <1>1, <1>2
<1>6. Open(u) /\ Open(u)'
    BY <1>2, <1>4, StatusSets DEF Claimable, Open, InFlight, Terminal
<1>7. \A t \in Tasks : RowGoes(t)  BY <1>4, <1>6 DEF RowGoes
<1>8. NewClaim(w, u)  BY <1>1, <1>2, <1>3, <1>4, <1>5, <1>6 DEF NewClaim, Owns, InFlight
<1>9. ASSUME NEW v \in Workers, NEW t \in Tasks, v # w, Works(v, t)' PROVE KeptClaim(v, t)
    <2>1. Works(v, t) /\ claim'[v] = claim[v]  BY <1>5, <1>9 DEF Works
    <2>2. t # u
        BY <1>2, <1>9, <2>1 DEF NamesInv, ClaimOK, OneWorkerPerKind
    <2>. QED  BY <1>4, <2>1, <2>2 DEF KeptClaim, Owns
<1>10. \A v \in Workers : ClaimGoes(v)
    BY <1>5, <1>8, <1>9 DEF ClaimGoes, Works
<1>11. \A v \in Workers : HasArticle(v) => claim'[v] = claim[v]
    BY <1>1, <1>3, <1>5 DEF HasArticle
<1>. QED  BY <1>3, <1>7, <1>10, <1>11 DEF Quiet

\* The frame of a step of one worker that keeps its task's article.
LEMMA OneStep ==
    ASSUME OneWorkerPerKind, TypeOK, NamesInv, NEW w \in Workers, NEW u \in Tasks, Works(w, u),
           articles' = articles, \A t \in Tasks : t # u => row'[t] = row[t], RowGoes(u),
           \A v \in Workers : v # w => claim'[v] = claim[v],
           \A t \in Tasks : Works(w, t)' => t = u /\ KeptClaim(w, u)
    PROVE  Quiet
<1>1. \A t \in Tasks : RowGoes(t)  BY DEF RowGoes
<1>2. ASSUME NEW v \in Workers, NEW t \in Tasks, v # w, Works(v, t)' PROVE KeptClaim(v, t)
    <2>1. Works(v, t) /\ claim'[v] = claim[v]  BY <1>2 DEF Works
    <2>2. t # u  BY <1>2, <2>1, Alone
    <2>. QED  BY <2>1, <2>2 DEF KeptClaim, Owns
<1>. QED  BY <1>1, <1>2 DEF Quiet, ClaimGoes

\* The steps of a claim up to the platform, and those that give it up.
LEMMA WorkerQuiet ==
    ASSUME OneWorkerPerKind, TypeOK, NamesInv, NEW w \in Workers,
           \/ Abandon(w) \/ Inspect(w) \/ HoldClaim(w) \/ StageFails(w) \/ Decide(w)
           \/ ReturnToPersonWait(w) \/ SetClaimPhase(w) \/ CallFails(w) \/ RecordFailure(w)
    PROVE  Quiet /\ mishaps' = mishaps /\ \A v \in Workers : HasArticle(v) => claim'[v] = claim[v]
<1>1. /\ row \in [Tasks -> Row] /\ claim \in [Workers -> Claim \cup {Idle}]
      /\ Idle.step = "idle"
    BY Typed
<1>2. claim[w].step # "idle" /\ ~HasArticle(w)
    BY DEF Abandon, Inspect, HoldClaim, StageFails, Decide, ReturnToPersonWait, SetClaimPhase,
           CallFails, RecordFailure, HasArticle
<1>3. PICK u \in Tasks : u = claim[w].task  BY <1>2, Typed
<1>4. Works(w, u) /\ claim[w] \in Claim /\ row[u] \in Row /\ (Owned(w) <=> Owns(w, u))
    BY <1>1, <1>2, <1>3, Typed, OwnedOwns DEF Works
<1>5. Open(u)  BY <1>4 DEF NamesInv, ClaimOK
<1>6. articles' = articles /\ mishaps' = mishaps
    BY DEF Abandon, Inspect, HoldClaim, StageFails, Decide, ReturnToPersonWait, SetClaimPhase,
           CallFails, RecordFailure
<1>7. ASSUME claim' = [claim EXCEPT ![w] = Idle]
      PROVE  /\ \A v \in Workers : v # w => claim'[v] = claim[v]
             /\ \A t \in Tasks : ~Works(w, t)'
    BY <1>1, <1>7 DEF Works
<1>8. ASSUME row' = row \/ \E r \in Row : row' = [row EXCEPT ![u] = r] /\ r.gen = row[u].gen
                             /\ r.article = row[u].article /\ r.status \notin Terminal \cup {"absent"}
      PROVE  RowGoes(u) /\ \A t \in Tasks : t # u => row'[t] = row[t]
    BY <1>1, <1>5, <1>8 DEF RowGoes, Open
<1>9. CASE Abandon(w)
    <2>1. row' = row  BY <1>9 DEF Abandon
    <2>. QED  BY <1>2, <1>4, <1>6, <1>7, <1>8, <1>9, <2>1, OneStep DEF Abandon, Drop
<1>10. CASE Inspect(w) \/ StageFails(w) \/ CallFails(w)
    <2>1. row' = row
        BY <1>10 DEF Inspect, StageFails, CallFails
    <2>2. /\ claim'[w].task = u /\ claim'[w].gen = claim[w].gen
          /\ claim'[w].step \notin {"planned", "calling"} /\ ~HasArticle(w)'
          /\ \A v \in Workers : v # w => claim'[v] = claim[v]
        BY <1>1, <1>3, <1>4, <1>10
           DEF Inspect, StageFails, CallFails, Answered, Claim, HasArticle, Successful
    <2>3. \A t \in Tasks : Works(w, t)' => t = u /\ KeptClaim(w, u)
        BY <1>4, <2>1, <2>2 DEF Works, KeptClaim, Owns
    <2>. QED  BY <1>2, <1>4, <1>6, <1>8, <2>1, <2>2, <2>3, OneStep
<1>11. CASE HoldClaim(w)
    <2>1. RowGoes(u) /\ \A t \in Tasks : t # u => row'[t] = row[t]
        <3>1. CASE ~Owned(w)
            <4>1. row' = row  BY <1>11, <3>1 DEF HoldClaim
            <4>. QED  BY <4>1 DEF RowGoes
        <3>2. CASE Owned(w)
            <4>1. PICK s \in {"held"}, d \in BOOLEAN :
                    row' = [row EXCEPT ![u] =
                      [@ EXCEPT !.status = s, !.due = d, !.owner = NoOne, !.lapsed = FALSE]]
                BY <1>3, <1>11, <3>2 DEF HoldClaim
            <4>2. /\ row'[u].status = s
                  /\ row'[u].gen = row[u].gen /\ row'[u].article = row[u].article
                  /\ \A t \in Tasks : t # u => row'[t] = row[t]
                BY <1>1, <1>4, <4>1 DEF Row
            <4>. QED  BY <1>5, <4>2 DEF RowGoes, Open, Terminal
        <3>. QED  BY <3>1, <3>2
    <2>. QED  BY <1>2, <1>4, <1>6, <1>7, <1>11, <2>1, OneStep DEF HoldClaim, Drop
<1>12. CASE ReturnToPersonWait(w)
    <2>1. RowGoes(u) /\ \A t \in Tasks : t # u => row'[t] = row[t]
        <3>1. CASE ~Owned(w)
            <4>1. row' = row  BY <1>12, <3>1 DEF ReturnToPersonWait
            <4>. QED  BY <4>1 DEF RowGoes
        <3>2. CASE Owned(w)
            <4>1. PICK s \in {"waiting_person"}, d \in BOOLEAN, e \in {"none", "ahead", "passed"} :
                    row' = [row EXCEPT ![u] =
                      [@ EXCEPT !.status = s, !.due = d, !.owner = NoOne, !.lapsed = FALSE, !.deadline = e]]
                BY <1>1, <1>3, <1>4, <1>12, <3>2 DEF ReturnToPersonWait, Row
            <4>2. /\ row'[u].status = s
                  /\ row'[u].gen = row[u].gen /\ row'[u].article = row[u].article
                  /\ \A t \in Tasks : t # u => row'[t] = row[t]
                BY <1>1, <1>4, <4>1 DEF Row
            <4>. QED  BY <1>5, <4>2 DEF RowGoes, Open, Terminal
        <3>. QED  BY <3>1, <3>2
    <2>. QED  BY <1>2, <1>4, <1>6, <1>7, <1>12, <2>1, OneStep DEF ReturnToPersonWait, Drop
<1>13. CASE RecordFailure(w)
    <2>1. RowGoes(u) /\ \A t \in Tasks : t # u => row'[t] = row[t]
        <3>1. CASE ~Owned(w)
            <4>1. row' = row  BY <1>13, <3>1 DEF RecordFailure
            <4>. QED  BY <4>1 DEF RowGoes
        <3>2. CASE Owned(w)
            <4>1. PICK s \in {"retry_wait", "failed"}, d \in BOOLEAN :
                    row' = [row EXCEPT ![u] =
                      [@ EXCEPT !.status = s, !.due = d, !.owner = NoOne, !.lapsed = FALSE]]
                BY <1>3, <1>13, <3>2 DEF RecordFailure
            <4>2. /\ row'[u].status = s
                  /\ row'[u].gen = row[u].gen /\ row'[u].article = row[u].article
                  /\ \A t \in Tasks : t # u => row'[t] = row[t]
                BY <1>1, <1>4, <4>1 DEF Row
            <4>. QED  BY <1>5, <4>2 DEF RowGoes, Open, Terminal
        <3>. QED  BY <3>1, <3>2
    <2>. QED  BY <1>2, <1>4, <1>6, <1>7, <1>13, <2>1, OneStep DEF RecordFailure, Drop
<1>14. CASE SetClaimPhase(w)
    <2>1. PICK s \in {"publishing", "creating_draft"} : row' = [row EXCEPT ![u].status = s]
        BY <1>3, <1>14 DEF SetClaimPhase
    <2>2. RowGoes(u) /\ \A t \in Tasks : t # u => row'[t] = row[t]
        BY <1>1, <1>4, <1>5, <2>1 DEF RowGoes, Open, Row, Terminal
    <2>3. row'[u].status \in InFlight /\ row'[u].owner = row[u].owner
        BY <1>1, <1>4, <2>1 DEF Row, InFlight
    <2>4. /\ claim'[w].task = u /\ claim'[w].gen = claim[w].gen
          /\ claim[w].step = "planned" /\ claim'[w].step = "calling"
          /\ claim'[w].archive = claim[w].archive
          /\ \A v \in Workers : v # w => claim'[v] = claim[v]
        BY <1>1, <1>3, <1>4, <1>14 DEF SetClaimPhase, Claim
    <2>5. \A t \in Tasks : Works(w, t)' => t = u /\ KeptClaim(w, u)
        BY <1>4, <2>3, <2>4 DEF Works, KeptClaim, Owns, HasArticle
    <2>. QED  BY <1>2, <1>4, <1>6, <2>2, <2>4, <2>5, OneStep
<1>15. CASE Decide(w)
    <2>1. PICK known \in BOOLEAN :
            /\ row' = [row EXCEPT ![u].person = IF Manual(u) THEN @ ELSE known,
                                  ![u].artifact = IF @ = NoArtifact THEN source[u] ELSE @]
            /\ claim' = [claim EXCEPT ![w] =
                          IF Manual(u) THEN ManualPlan(w) ELSE OcrPlan(w, known)]
        BY <1>3, <1>15 DEF Decide
    <2>2. /\ row'[u].status = row[u].status /\ row'[u].owner = row[u].owner
          /\ row'[u].gen = row[u].gen /\ row'[u].article = row[u].article
          /\ \A t \in Tasks : t # u => row'[t] = row[t]
        BY <1>1, <1>4, <2>1 DEF Row
    <2>3. ASSUME NEW step, NEW mode, NEW archive, NEW reason
          PROVE  /\ Plan(w, step, mode, archive, reason).task = u
                 /\ Plan(w, step, mode, archive, reason).gen = claim[w].gen
                 /\ Plan(w, step, mode, archive, reason).step = step
                 /\ Plan(w, step, mode, archive, reason).archive = archive
        BY <1>3, <1>4 DEF Plan, Claim
    <2>4. /\ Manual(u) <=> Kind[u] # "ocr"
          /\ Kind[u] \in {"ocr", "clip", "edit"}
        BY DeliveryAssumption DEF Manual
    <2>5. /\ ManualPlan(w).task = u /\ ManualPlan(w).gen = claim[w].gen
          /\ ManualPlan(w).step = "planned"
          /\ ManualPlan(w).archive = IF Kind[u] = "edit" THEN row[u].article ELSE NoArticle
        BY <1>3, <2>3 DEF ManualPlan
    <2>6. /\ OcrPlan(w, known).task = u /\ OcrPlan(w, known).gen = claim[w].gen
          /\ OcrPlan(w, known).step \in {"wait", "planned"}
          /\ OcrPlan(w, known).archive = row[u].article
        <3>1. OcrPlan(w, known) \in {Plan(w, "wait", "publish", NoArticle, "none"),
                                     Plan(w, "planned", "draft", row[u].article, "none"),
                                     Plan(w, "wait", "publish", row[u].article, "none"),
                                     Plan(w, "planned", "publish", row[u].article, "person"),
                                     Plan(w, "planned", "publish", row[u].article, "fallback")}
              /\ (OcrPlan(w, known) = Plan(w, "wait", "publish", NoArticle, "none")
                    => row[u].article = NoArticle)
            BY <1>3, <1>4, <2>3 DEF OcrPlan, Row, Claim
        <3>. QED  BY <2>3, <3>1
    <2>7. /\ claim'[w].task = u /\ claim'[w].gen = claim[w].gen
          /\ claim'[w].step \in {"wait", "planned"}
          /\ claim'[w].archive = IF Kind[u] = "clip" THEN NoArticle ELSE row[u].article
          /\ \A v \in Workers : v # w => claim'[v] = claim[v]
        BY <1>1, <2>1, <2>4, <2>5, <2>6
    <2>8. \A t \in Tasks : Works(w, t)' => t = u /\ KeptClaim(w, u)
        BY <1>4, <2>2, <2>7 DEF Works, KeptClaim, Owns, HasArticle
    <2>9. RowGoes(u)  BY <1>5, <2>2 DEF RowGoes, Open
    <2>. QED  BY <1>2, <1>4, <1>6, <2>2, <2>7, <2>8, <2>9, OneStep
<1>. QED
    BY <1>9, <1>10, <1>11, <1>12, <1>13, <1>14, <1>15

\* A failed write and the death of the process lose an answer at most.
LEMMA MishapQuiet ==
    ASSUME OneWorkerPerKind, TypeOK, NamesInv, NEW w \in Workers, RecordErrors(w) \/ Crash(w)
    PROVE  Quiet /\ mishaps' = mishaps + 1
<1>1. /\ row \in [Tasks -> Row] /\ claim \in [Workers -> Claim \cup {Idle}]
      /\ Idle.step = "idle"
    BY Typed
<1>2. /\ row' = row /\ articles' = articles /\ mishaps' = mishaps + 1
      /\ claim[w].step # "idle"
    BY <1>1, Typed DEF RecordErrors, Crash, TypeOK, Claim, Idle
<1>3. PICK u \in Tasks : u = claim[w].task  BY <1>2, Typed
<1>4. Works(w, u) /\ claim[w] \in Claim
    BY <1>1, <1>2, <1>3, Typed DEF Works
<1>5. /\ \A v \in Workers : v # w => claim'[v] = claim[v]
      /\ \/ claim'[w].step = "idle"
         \/ /\ claim'[w].task = u /\ claim'[w].gen = claim[w].gen
            /\ claim'[w].step = "answered" /\ ~HasArticle(w)'
    BY <1>1, <1>3, <1>4
       DEF RecordErrors, Crash, Drop, Answered, Claim, HasArticle, Successful
<1>6. \A t \in Tasks : Works(w, t)' => t = u /\ KeptClaim(w, u)
    BY <1>2, <1>4, <1>5 DEF Works, KeptClaim, Owns
<1>. QED  BY <1>2, <1>4, <1>5, <1>6, OneStep DEF RowGoes

-----------------------------------------------------------------------------
\* The request of a claim: a new article for a task that has none or a clip, the
\* article of the task otherwise.
LEMMA AppliedArticles ==
    ASSUME OneWorkerPerKind, TypeOK, NamesInv, NEW w \in Workers, NEW u \in Tasks, Works(w, u),
           claim[w].step = "calling", articles' = Applied(w)
    PROVE  /\ ArticlesPlaced'
           /\ \A t \in Tasks : \A i : Names(t, i) => Names(t, i)'
           /\ AppliedId(w) \in DOMAIN articles'
           /\ IF Kind[u] = "edit" THEN AppliedId(w) = Archive[u]
              ELSE articles'[AppliedId(w)].task = u
           /\ articles'[AppliedId(w)] = Sent(w)
           /\ AppliedId(w) # NoArticle
           /\ \A t \in Tasks : \A i : Names(t, i) /\ t # u /\ OneEditPerArticle => articles'[i] = articles[i]
           /\ Kind[u] # "clip" /\ row[u].article # NoArticle => AppliedId(w) = row[u].article
           /\ \A t \in Tasks : t # u /\ Kind[t] # "edit" => Count(t)' = Count(t)
           /\ Kind[u] # "edit" =>
                \/ Count(u)' = Count(u) /\ Kind[u] = "ocr" /\ row[u].article # NoArticle
                \/ Count(u)' = Count(u) + 1 /\ (Kind[u] = "ocr" => row[u].article = NoArticle)
<1>. DEFINE a == claim[w].archive
<1>1. /\ articles \in Seq(Article) /\ Len(articles) \in Nat /\ DOMAIN articles = 1..Len(articles)
      /\ \A i \in DOMAIN articles : articles[i].task \in Tasks
      /\ a \in Nat
    BY Typed DEF Works
<1>2. /\ Sent(w).task = u
      /\ a = IF Kind[u] = "clip" THEN NoArticle ELSE row[u].article
      /\ row[u].article # NoArticle => Names(u, row[u].article)
      /\ Kind[u] = "edit" => row[u].article = Archive[u] /\ Archive[u] # NoArticle
      /\ Kind[u] \in {"ocr", "clip", "edit"}
    <2>1. ClaimOK(w, u) /\ RowOK(u) /\ Sent(w).task = u  BY DEF NamesInv, Works, Sent
    <2>2. row[u].status # "absent"  BY <2>1 DEF ClaimOK, Open
    <2>. QED  BY <2>1, <2>2, DeliveryAssumption DEF ClaimOK, RowOK, NoArticle
<1>3. CASE a = NoArticle
    <2>1. /\ articles' = Append(articles, Sent(w)) /\ AppliedId(w) = Len(articles) + 1
          /\ Kind[u] # "edit" /\ (Kind[u] = "ocr" => row[u].article = NoArticle)
        BY <1>2, <1>3 DEF Applied, AppliedId
    <2>2. /\ Len(articles') = Len(articles) + 1 /\ DOMAIN articles' = 1..(Len(articles) + 1)
          /\ \A i \in 1..Len(articles) : articles'[i] = articles[i]
          /\ articles'[Len(articles) + 1] = Sent(w)
        BY <1>1, <2>1, AppendProperties
    <2>3. Archived <= Len(articles) /\ Archived \in Nat
        BY DeliveryAssumption DEF NamesInv, ArticlesPlaced
    <2>4. ArticlesPlaced'
        <3>1. ASSUME NEW i \in 1..(Len(articles) + 1)
              PROVE  IF i <= Archived THEN Archive[articles'[i].task] = i
                     ELSE Kind[articles'[i].task] # "edit"
            <4>1. CASE i = Len(articles) + 1  BY <1>1, <1>2, <2>1, <2>2, <2>3, <4>1
            <4>2. CASE i # Len(articles) + 1
                <5>1. i \in 1..Len(articles)  BY <1>1, <4>2
                <5>. QED  BY <1>1, <2>2, <5>1 DEF NamesInv, ArticlesPlaced
            <4>. QED  BY <4>1, <4>2
        <3>. QED  BY <1>1, <2>2, <2>3, <3>1 DEF ArticlesPlaced
    <2>5. \A t \in Tasks : \A i : Names(t, i) => Names(t, i)' /\ articles'[i] = articles[i]
        BY <1>1, <2>2 DEF Names
    <2>6. AppliedId(w) \in DOMAIN articles' /\ AppliedId(w) # NoArticle
        BY <1>1, <2>1, <2>2 DEF NoArticle
    <2>7. ASSUME NEW t \in Tasks, t # u PROVE Count(t)' = Count(t)
        <3>1. ArticlesOf(t)' = ArticlesOf(t)  BY <1>1, <1>2, <2>2, <2>7 DEF ArticlesOf
        <3>. QED  BY <3>1 DEF Count
    <2>8. Count(u)' = Count(u) + 1
        <3>1. ArticlesOf(u)' = ArticlesOf(u) \cup {Len(articles) + 1}
            BY <1>1, <1>2, <2>2 DEF ArticlesOf
        <3>2. Len(articles) + 1 \notin ArticlesOf(u)  BY <1>1 DEF ArticlesOf
        <3>. QED  BY <3>1, <3>2, CountNat, FS_AddElement DEF Count
    <2>. QED  BY <1>2, <1>3, <2>1, <2>2, <2>4, <2>5, <2>6, <2>7, <2>8
<1>4. CASE a # NoArticle
    <2>1. /\ articles' = [articles EXCEPT ![a] = Sent(w)] /\ AppliedId(w) = a
          /\ a = row[u].article /\ Kind[u] # "clip" /\ Names(u, a)
        BY <1>2, <1>4 DEF Applied, AppliedId
    <2>2. /\ a \in DOMAIN articles /\ Len(articles') = Len(articles) /\ DOMAIN articles' = DOMAIN articles
          /\ articles'[a] = Sent(w) /\ \A i \in DOMAIN articles : i # a => articles'[i] = articles[i]
        BY <1>1, <2>1 DEF Names
    <2>3. Kind[u] # "edit" => articles[a].task = u
        BY <2>1 DEF Names
    <2>4. Kind[u] = "edit" => a = Archive[u] /\ a <= Archived /\ Archive[articles[a].task] = a
                              /\ Kind[articles[a].task] = "edit"
        <3>1. SUFFICES ASSUME Kind[u] = "edit" PROVE a = Archive[u] /\ a <= Archived
                    /\ Archive[articles[a].task] = a /\ Kind[articles[a].task] = "edit"
            OBVIOUS
        <3>2. a = Archive[u] /\ a \in 1..Archived  BY <1>2, <2>1, <3>1, DeliveryAssumption DEF NoArticle
        <3>3. Archive[articles[a].task] = a  BY <2>2, <3>2 DEF NamesInv, ArticlesPlaced
        <3>. QED  BY <1>1, <2>2, <3>2, <3>3, DeliveryAssumption
    <2>5. ArticlesPlaced'
        BY <1>1, <1>2, <2>2, <2>3, <2>4 DEF NamesInv, ArticlesPlaced
    <2>6. ASSUME NEW t \in Tasks, NEW i, Names(t, i) PROVE Names(t, i)'
        <3>1. CASE i # a  BY <2>2, <2>6, <3>1 DEF Names
        <3>2. CASE i = a /\ Kind[t] = "edit"  BY <2>2, <2>6, <3>2 DEF Names
        <3>3. CASE i = a /\ Kind[t] # "edit"
            BY <1>2, <2>2, <2>3, <2>4, <2>6, <3>3 DEF Names
        <3>. QED  BY <3>1, <3>2, <3>3
    <2>7. ASSUME NEW t \in Tasks, NEW i, Names(t, i), t # u, OneEditPerArticle PROVE i # a
        <3>1. CASE Kind[t] = "edit" /\ Kind[u] = "edit"
            BY <2>4, <2>7, <3>1 DEF Names, OneEditPerArticle
        <3>2. CASE Kind[t] = "edit" /\ Kind[u] # "edit"
            <4>1. SUFFICES ASSUME i = a PROVE FALSE  OBVIOUS
            <4>2. a = Archive[t] /\ a \in 1..Archived
                BY <2>7, <3>2, <4>1, <1>4, DeliveryAssumption DEF Names, NoArticle
            <4>3. Archive[u] = a  BY <2>2, <2>3, <3>2, <4>2 DEF NamesInv, ArticlesPlaced
            <4>. QED  BY <1>4, <3>2, <4>3, DeliveryAssumption DEF NoArticle
        <3>3. CASE Kind[t] # "edit"
            BY <2>3, <2>4, <2>7, <3>3 DEF Names
        <3>. QED  BY <3>1, <3>2, <3>3
    <2>8. ASSUME NEW t \in Tasks, Kind[t] # "edit" PROVE Count(t)' = Count(t)
        <3>1. articles[a].task = t <=> articles'[a].task = t
            BY <1>2, <2>2, <2>3, <2>4, <2>8
        <3>2. ArticlesOf(t)' = ArticlesOf(t)  BY <2>2, <3>1 DEF ArticlesOf
        <3>. QED  BY <3>2 DEF Count
    <2>. QED  BY <1>1, <1>2, <1>4, <2>1, <2>2, <2>4, <2>5, <2>6, <2>7, <2>8 DEF Names
<1>. QED  BY <1>3, <1>4

\* What an answer leaves as it was, when it names an article of its task.
LEMMA AnswerNames ==
    ASSUME TypeOK, NamesInv, NEW w \in Workers, NEW u \in Tasks, Works(w, u),
           row' = row, \A v \in Workers : v # w => claim'[v] = claim[v],
           claim'[w].step = "answered", claim'[w].task = u, claim'[w].gen = claim[w].gen,
           ArticlesPlaced', \A t \in Tasks : \A i : Names(t, i) => Names(t, i)',
           NEW i, HasArticle(w)' => /\ claim'[w].article = i
                                    /\ i \in DOMAIN articles'
                                    /\ IF Kind[u] = "edit" THEN i = Archive[u]
                                       ELSE articles'[i].task = u
                                    /\ Kind[u] # "clip" /\ row[u].article # NoArticle =>
                                          i = row[u].article
    PROVE  NamesInv'
<1>1. ASSUME NEW t \in Tasks PROVE RowOK(t)'  BY DEF NamesInv, RowOK
<1>2. ASSUME NEW v \in Workers, NEW t \in Tasks, Works(v, t)' PROVE ClaimOK(v, t)'
    <2>1. CASE v # w
        <3>1. Works(v, t) /\ claim'[v] = claim[v]  BY <1>2, <2>1 DEF Works
        <3>2. ClaimOK(v, t)  BY <3>1 DEF NamesInv
        <3>3. HasArticle(v)' => HasArticle(v) /\ Names(t, claim[v].article)'
            <4>1. HasArticle(v)' => HasArticle(v)  BY <3>1 DEF HasArticle, Successful
            <4>. QED  BY <3>1, <3>2, <4>1 DEF ClaimOK, Names
        <3>. QED  BY <3>1, <3>2, <3>3 DEF ClaimOK, Open, Owns
    <2>2. CASE v = w
        <3>1. t = u /\ ClaimOK(w, u)  BY <1>2, <2>2 DEF Works, NamesInv
        <3>. QED  BY <2>2, <3>1 DEF ClaimOK, Open, Owns, Names
    <2>. QED  BY <2>1, <2>2
<1>. QED  BY <1>1, <1>2 DEF NamesInv

\* An answer moves no article of another task, and what is answered is there.
LEMMA AnswerCurrent ==
    ASSUME OneWorkerPerKind, TypeOK, NamesInv, CurrentInv, NEW w \in Workers, NEW u \in Tasks, Works(w, u),
           row' = row, \A v \in Workers : v # w => claim'[v] = claim[v],
           \A t \in Tasks : \A i : Names(t, i) /\ t # u => Names(t, i)' /\ articles'[i] = articles[i],
           HasArticle(w)' /\ claim'[w].outcome = "ok" => articles'[claim'[w].article] = Sent(w)'
    PROVE  CurrentInv'
<1>1. ASSUME NEW t \in Tasks, row[t].status = "published", ~row[t].duplicate
      PROVE  /\ row[t].article \in DOMAIN articles'
             /\ articles'[row[t].article] =
                    [task |-> t, artifact |-> row[t].artifact, public |-> TRUE]
    <2>1. t # u  BY <1>1 DEF NamesInv, ClaimOK, Open, Terminal
    <2>2. /\ row[t].article \in DOMAIN articles
          /\ articles[row[t].article] = [task |-> t, artifact |-> row[t].artifact, public |-> TRUE]
        BY <1>1 DEF CurrentInv, PublishedIsCurrent
    <2>3. Names(t, row[t].article)  BY <2>2, Typed DEF NamesInv, RowOK, NoArticle
    <2>4. Names(t, row[t].article)' /\ articles'[row[t].article] = articles[row[t].article]
        <3>1. PICK i : i = row[t].article  OBVIOUS
        <3>2. Names(t, i)' /\ articles'[i] = articles[i]  BY <2>1, <2>3, <3>1
        <3>. QED  BY <3>1, <3>2 DEF Names
    <2>. QED  BY <2>2, <2>4 DEF Names
<1>2. ASSUME NEW v \in Workers, v # w, HasArticle(v)', claim'[v].outcome = "ok"
      PROVE  articles'[claim'[v].article] = Sent(v)'
    <2>1. HasArticle(v) /\ claim'[v] = claim[v]  BY <1>2 DEF HasArticle, Successful
    <2>2. PICK t \in Tasks : Works(v, t)  BY <2>1, Typed DEF HasArticle, Works
    <2>3. t # u /\ Names(t, claim[v].article)  BY <1>2, <2>1, <2>2, Alone DEF NamesInv, ClaimOK
    <2>4. articles'[claim[v].article] = articles[claim[v].article]  BY <2>3
    <2>. QED  BY <1>2, <2>1, <2>4 DEF CurrentInv, Sent
<1>3. PublishedIsCurrent'  BY <1>1 DEF PublishedIsCurrent
<1>. QED  BY <1>2, <1>3 DEF CurrentInv

\* The platform carries a request out, and the worker may learn of it.
LEMMA CallKeeps ==
    ASSUME OneWorkerPerKind, TypeOK, TypeOK', NamesInv, CountInv, NEW w \in Workers,
           CallSucceeds(w) \/ AnswerLost(w)
    PROVE  NamesInv' /\ CountInv' /\ (OneEditPerArticle /\ CurrentInv => CurrentInv')
<1>1. claim \in [Workers -> Claim \cup {Idle}] /\ claim[w].step = "calling"
    BY Typed DEF CallSucceeds, AnswerLost
<1>2. PICK u \in Tasks : Works(w, u)  BY <1>1, Typed DEF Works
<1>3. claim[w] \in Claim /\ articles' = Applied(w) /\ row' = row
    BY <1>1, Typed DEF CallSucceeds, AnswerLost
<1>4. /\ \A v \in Workers : v # w => claim'[v] = claim[v]
      /\ claim'[w].step = "answered" /\ claim'[w].task = u /\ claim'[w].gen = claim[w].gen
      /\ claim'[w].archive = claim[w].archive /\ claim'[w].mode = claim[w].mode
      /\ claim'[w].artifact = claim[w].artifact
    BY <1>1, <1>2, <1>3 DEF CallSucceeds, AnswerLost, Answered, Claim, Works
<1>5. \/ /\ CallSucceeds(w) /\ claim'[w].outcome = "ok" /\ claim'[w].article = AppliedId(w)
         /\ mishaps' = mishaps /\ HasArticle(w)'
      \/ AnswerLost(w) /\ mishaps' = mishaps + 1 /\ ~HasArticle(w)'
    BY <1>1, <1>3 DEF CallSucceeds, AnswerLost, Answered, Claim, HasArticle, Successful
<1>6. /\ ArticlesPlaced'
      /\ \A t \in Tasks : \A i : Names(t, i) => Names(t, i)'
      /\ AppliedId(w) \in DOMAIN articles'
      /\ IF Kind[u] = "edit" THEN AppliedId(w) = Archive[u]
         ELSE articles'[AppliedId(w)].task = u
      /\ articles'[AppliedId(w)] = Sent(w)
      /\ OneEditPerArticle => \A t \in Tasks : \A i : Names(t, i) /\ t # u => articles'[i] = articles[i]
      /\ Kind[u] # "clip" /\ row[u].article # NoArticle => AppliedId(w) = row[u].article
      /\ \A t \in Tasks : t # u /\ Kind[t] # "edit" => Count(t)' = Count(t)
      /\ Kind[u] # "edit" =>
           \/ Count(u)' = Count(u) /\ Kind[u] = "ocr" /\ row[u].article # NoArticle
           \/ Count(u)' = Count(u) + 1 /\ (Kind[u] = "ocr" => row[u].article = NoArticle)
    BY <1>1, <1>2, <1>3, AppliedArticles
<1>7. NamesInv'  BY <1>2, <1>3, <1>4, <1>5, <1>6, AnswerNames
<1>8. OneEditPerArticle /\ CurrentInv => CurrentInv'
    <2>1. claim'[w].outcome = "ok" /\ HasArticle(w)' => articles'[claim'[w].article] = Sent(w)'
        BY <1>2, <1>4, <1>5, <1>6 DEF Sent, Works
    <2>. QED  BY <1>2, <1>3, <1>4, <1>6, <2>1, AnswerCurrent
<1>9. /\ mishaps \in Nat /\ \A t \in Tasks : Count(t) \in Nat /\ row[t].gen \in Nat
      /\ \A v \in Workers : claim[v].step # "idle" => claim[v].gen \in Nat
    BY Typed, CountNat
<1>10. ~Delivers(u) /\ ~HasArticle(w)
    <2>1. ~HasArticle(w)  BY <1>1 DEF HasArticle
    <2>. QED  BY <1>2, <2>1, Alone DEF Delivers
<1>11. ASSUME NEW t \in Tasks, t # u PROVE Delivers(t)' <=> Delivers(t)
    BY <1>2, <1>4, <1>11 DEF Delivers, HasArticle, Successful, Works
<1>12. HasArticle(w)' => Delivers(u)'
    BY <1>4 DEF Delivers, HasArticle, Works
<1>13. ASSUME NEW v \in Workers, NEW t \in Tasks, t # u, Works(v, t)'
       PROVE  Works(v, t) /\ claim'[v] = claim[v] /\ (HasArticle(v)' <=> HasArticle(v))
    BY <1>4, <1>13 DEF Works, HasArticle, Successful
<1>14. ASSUME NEW v \in Workers, Works(v, u)' PROVE v = w
    BY <1>2, <1>4, <1>14, Alone DEF Works
<1>15. ASSUME NEW t \in Tasks, t # u
       PROVE  /\ Kind[t] = "ocr" => OcrCount(t)'
              /\ Kind[t] = "clip" => ClipCount(t)'
    <2>1. Kind[t] = "ocr" => OcrCount(t)'
        BY <1>3, <1>5, <1>6, <1>9, <1>11, <1>15 DEF CountInv, OcrCount
    <2>2. ASSUME Kind[t] = "clip" PROVE ClipCount(t)'
        <3>1. ClipCount(t) /\ Count(t)' = Count(t) /\ (Delivers(t)' <=> Delivers(t))
            BY <1>6, <1>11, <1>15, <2>2 DEF CountInv
        <3>2. ASSUME NEW v \in Workers, Works(v, t)'
              PROVE  /\ Count(t)' <= mishaps' + claim'[v].gen
                     /\ ~HasArticle(v)' => Count(t)' < mishaps' + claim'[v].gen
            <4>1. Works(v, t) /\ claim'[v] = claim[v] /\ (HasArticle(v)' <=> HasArticle(v))
                BY <1>13, <1>15, <3>2
            <4>. QED  BY <1>5, <1>9, <3>1, <4>1 DEF ClipCount, Works
        <3>3. Count(t)' <= mishaps' + row'[t].gen
            BY <1>3, <1>5, <1>9, <3>1 DEF ClipCount
        <3>4. Open(t)' /\ ~Delivers(t)' => Count(t)' < mishaps' + row'[t].gen
            BY <1>3, <1>5, <1>9, <3>1 DEF ClipCount, Open
        <3>. QED  BY <3>2, <3>3, <3>4 DEF ClipCount
    <2>. QED  BY <2>1, <2>2
<1>16. Kind[u] = "ocr" => OcrCount(u)'
    BY <1>3, <1>5, <1>6, <1>9, <1>10, <1>12 DEF CountInv, OcrCount
<1>17. ASSUME Kind[u] = "clip" PROVE ClipCount(u)'
    <2>1. /\ ClipCount(u) /\ Count(u)' = Count(u) + 1 /\ claim[w].gen \in Nat
          /\ claim[w].gen <= row[u].gen
        BY <1>2, <1>6, <1>9, <1>17 DEF CountInv, NamesInv, ClaimOK, Works
    <2>2. Count(u) < mishaps + claim[w].gen  BY <1>2, <1>10, <2>1 DEF ClipCount
    <2>. QED  BY <1>3, <1>4, <1>5, <1>9, <1>12, <1>14, <2>1, <2>2 DEF ClipCount
<1>. QED  BY <1>7, <1>8, <1>15, <1>16, <1>17 DEF CountInv

\* The platform knows the article already: no new one, and no promise about it.
LEMMA DuplicateKeeps ==
    ASSUME OneWorkerPerKind, TypeOK, TypeOK', NamesInv, CountInv, NEW w \in Workers, CallDuplicate(w)
    PROVE  NamesInv' /\ CountInv' /\ (CurrentInv => CurrentInv')
<1>1. claim \in [Workers -> Claim \cup {Idle}] /\ claim[w].step = "calling"
    BY Typed DEF CallDuplicate
<1>2. PICK u \in Tasks : Works(w, u)  BY <1>1, Typed DEF Works
<1>3. /\ claim[w] \in Claim /\ articles' = articles /\ row' = row /\ mishaps' = mishaps
      /\ claim[w].archive = NoArticle
    BY <1>1, Typed DEF CallDuplicate
<1>4. PICK i \in DOMAIN articles : articles[i].task = u /\ Answered(w, "duplicate", i)
    BY <1>2 DEF CallDuplicate, Works
<1>5. /\ \A v \in Workers : v # w => claim'[v] = claim[v]
      /\ claim'[w].step = "answered" /\ claim'[w].task = u /\ claim'[w].gen = claim[w].gen
      /\ claim'[w].outcome = "duplicate" /\ claim'[w].article = i /\ HasArticle(w)'
    BY <1>1, <1>2, <1>3, <1>4 DEF Answered, Claim, Works, HasArticle, Successful
<1>6. /\ Kind[u] # "clip" => row[u].article = NoArticle
      /\ Kind[u] # "edit"
    <2>1. ClaimOK(w, u) /\ RowOK(u)  BY <1>2 DEF NamesInv
    <2>. QED  BY <1>1, <1>3, <2>1, DeliveryAssumption DEF ClaimOK, RowOK, Open, NoArticle
<1>7. ArticlesPlaced' /\ \A t \in Tasks : \A j : Names(t, j) => Names(t, j)'
    BY <1>3 DEF NamesInv, ArticlesPlaced, Names
<1>8. NamesInv'
    <2>1. /\ claim'[w].article = i
          /\ i \in DOMAIN articles'
          /\ IF Kind[u] = "edit" THEN i = Archive[u] ELSE articles'[i].task = u
          /\ Kind[u] # "clip" /\ row[u].article # NoArticle => i = row[u].article
        BY <1>3, <1>4, <1>5, <1>6
    <2>. QED  BY <1>2, <1>3, <1>5, <1>7, <2>1, AnswerNames
<1>9. CurrentInv => CurrentInv'
    <2>1. \A t \in Tasks : \A j : Names(t, j) /\ t # u => Names(t, j)' /\ articles'[j] = articles[j]
        BY <1>3, <1>7
    <2>2. ~(HasArticle(w)' /\ claim'[w].outcome = "ok")  BY <1>5
    <2>. QED  BY <1>2, <1>3, <1>5, <2>1, <2>2, AnswerCurrent
<1>10. ASSUME NEW t \in Tasks
       PROVE  /\ Kind[t] = "ocr" => OcrCount(t)'
              /\ Kind[t] = "clip" => ClipCount(t)'
    <2>1. Count(t)' = Count(t) /\ Count(t) \in Nat /\ mishaps \in Nat
        BY <1>3, Typed, CountNat DEF Count, ArticlesOf
    <2>2. Delivers(t) => Delivers(t)'
        <3>1. ~HasArticle(w)  BY <1>1 DEF HasArticle
        <3>2. ASSUME NEW v \in Workers, HasArticle(v), Works(v, t) PROVE (HasArticle(v) /\ Works(v, t))'
            BY <1>5, <3>1, <3>2 DEF HasArticle, Successful, Works
        <3>. QED  BY <3>2 DEF Delivers
    <2>3. ASSUME NEW v \in Workers, Works(v, t)'
          PROVE  /\ Works(v, t) /\ claim'[v].gen = claim[v].gen
                 /\ HasArticle(v)' \/ ~HasArticle(v)
        BY <1>1, <1>2, <1>5, <2>3 DEF Works, HasArticle, Successful
    <2>4. Kind[t] = "ocr" => OcrCount(t)'  BY <1>3, <2>1, <2>2 DEF CountInv, OcrCount
    <2>5. ASSUME Kind[t] = "clip" PROVE ClipCount(t)'
        <3>1. ClipCount(t)  BY <2>5 DEF CountInv
        <3>2. ASSUME NEW v \in Workers, Works(v, t)'
              PROVE  /\ Count(t)' <= mishaps' + claim'[v].gen
                     /\ ~HasArticle(v)' => Count(t)' < mishaps' + claim'[v].gen
            BY <1>3, <2>1, <2>3, <3>1, <3>2 DEF ClipCount
        <3>. QED  BY <1>3, <2>1, <2>2, <3>1, <3>2 DEF ClipCount, Open
    <2>. QED  BY <2>4, <2>5
<1>. QED  BY <1>8, <1>9, <1>10 DEF CountInv

\* What RecordSuccess does to the row of its task: an owner writes its article, and
\* settles the row or, for an OCR draft, leaves it open; a claim of an older
\* generation tells the row its article if it has none.
LEMMA RecordRow ==
    ASSUME OneWorkerPerKind, TypeOK, NamesInv, NEW w \in Workers, NEW u \in Tasks, Works(w, u),
           RecordSuccess(w)
    PROVE  /\ \A t \in Tasks : t # u => row'[t] = row[t]
           /\ row'[u].gen = row[u].gen /\ row'[u].status # "absent"
           /\ row'[u].article # NoArticle
           /\ row'[u].article = claim[w].article \/ row'[u].article = row[u].article
           /\ Kind[u] # "clip" /\ row[u].article # NoArticle => row'[u].article = row[u].article
           /\ Kind[u] = "clip" /\ Open(u)' => claim[w].gen < row[u].gen
           /\ row'[u].status = "published" =>
                /\ claim[w].mode = "publish" /\ row'[u].article = claim[w].article
                /\ row'[u].artifact = claim[w].artifact
                /\ row'[u].duplicate = (claim[w].outcome = "duplicate")
<1>1. /\ row \in [Tasks -> Row] /\ claim[w] \in Claim /\ claim[w].task = u
      /\ row[u].gen \in Nat /\ claim[w].gen \in Nat
    BY Typed DEF Works
<1>2. HasArticle(w) /\ ClaimOK(w, u)  BY DEF RecordSuccess, HasArticle, NamesInv
<1>3. /\ claim[w].article # NoArticle /\ row[u].status \notin Terminal \cup {"absent"}
      /\ Kind[u] # "clip" /\ row[u].article # NoArticle => claim[w].article = row[u].article
      /\ Kind[u] \in {"ocr", "clip", "edit"}
    BY <1>2, Typed, DeliveryAssumption DEF ClaimOK, Names, NoArticle, Open
<1>4. CASE Owned(w) /\ RecordDelivered(w)
    <2>1. /\ \A t \in Tasks : t # u => row'[t] = row[t]
          /\ row'[u].gen = row[u].gen /\ row'[u].status = SettledStatus(w)
          /\ row'[u].article = claim[w].article /\ row'[u].artifact = claim[w].artifact
          /\ row'[u].duplicate = (claim[w].outcome = "duplicate")
        BY <1>1, <1>4 DEF RecordDelivered, Row
    <2>. QED  BY <1>3, <2>1 DEF SettledStatus, Open, Terminal
<1>5. CASE Owned(w) /\ RecordDraftCreated(w)
    <2>1. /\ \A t \in Tasks : t # u => row'[t] = row[t]
          /\ row'[u].gen = row[u].gen /\ row'[u].status = "waiting_person"
          /\ row'[u].article = claim[w].article
        BY <1>1, <1>5 DEF RecordDraftCreated, Row
    <2>2. Kind[u] = "ocr"  BY <1>1, <1>5 DEF RecordDraftCreated, Manual
    <2>. QED  BY <1>3, <2>1, <2>2
<1>6. CASE ~Owned(w) /\ RecordStaleArticle(w)
    <2>1. claim[w].gen < row[u].gen  BY <1>1, <1>2, <1>6, OwnedOwns DEF ClaimOK
    <2>2. /\ \A t \in Tasks : t # u => row'[t] = row[t]
          /\ row'[u].gen = row[u].gen /\ row'[u].status = row[u].status
          /\ row'[u].article = IF row[u].article = NoArticle THEN claim[w].article ELSE row[u].article
        BY <1>1, <1>6, <2>1 DEF RecordStaleArticle, Row
    <2>. QED  BY <1>3, <2>1, <2>2 DEF Terminal
<1>. QED  BY <1>4, <1>5, <1>6 DEF RecordSuccess

\* The worker writes down what the platform answered.
LEMMA RecordKeeps ==
    ASSUME OneWorkerPerKind, TypeOK, TypeOK', NamesInv, CountInv, NEW w \in Workers, RecordSuccess(w)
    PROVE  NamesInv' /\ CountInv' /\ (CurrentInv => CurrentInv')
<1>1. /\ claim \in [Workers -> Claim \cup {Idle}] /\ HasArticle(w)
      /\ articles' = articles /\ mishaps' = mishaps /\ claim' = [claim EXCEPT ![w] = Idle]
      /\ Idle.step = "idle"
    BY Typed DEF RecordSuccess, HasArticle, Drop
<1>2. PICK u \in Tasks : Works(w, u)  BY <1>1, Typed DEF Works, HasArticle
<1>3. /\ \A t \in Tasks : t # u => row'[t] = row[t]
      /\ row'[u].gen = row[u].gen /\ row'[u].status # "absent"
      /\ row'[u].article # NoArticle
      /\ row'[u].article = claim[w].article \/ row'[u].article = row[u].article
      /\ Kind[u] # "clip" /\ row[u].article # NoArticle => row'[u].article = row[u].article
      /\ Kind[u] = "clip" /\ Open(u)' => claim[w].gen < row[u].gen
      /\ row'[u].status = "published" =>
           /\ claim[w].mode = "publish" /\ row'[u].article = claim[w].article
           /\ row'[u].artifact = claim[w].artifact
           /\ row'[u].duplicate = (claim[w].outcome = "duplicate")
    BY <1>2, RecordRow
<1>4. ASSUME NEW v \in Workers, NEW t \in Tasks, Works(v, t)'
      PROVE  /\ v # w /\ t # u /\ Works(v, t) /\ claim'[v] = claim[v]
             /\ (HasArticle(v)' <=> HasArticle(v))
    <2>1. v # w /\ claim'[v] = claim[v]  BY <1>1, <1>4 DEF Works
    <2>2. Works(v, t) /\ (HasArticle(v)' <=> HasArticle(v))
        BY <1>4, <2>1 DEF Works, HasArticle, Successful
    <2>. QED  BY <1>2, <2>1, <2>2, Alone
<1>5. \A t \in Tasks : \A i : Names(t, i) => Names(t, i)'  BY <1>1 DEF Names
<1>6. ASSUME NEW v \in Workers, NEW t \in Tasks, Works(v, t)' PROVE ClaimOK(v, t)'
    <2>1. /\ ClaimOK(v, t) /\ claim'[v] = claim[v] /\ row'[t] = row[t]
          /\ (HasArticle(v)' <=> HasArticle(v))
        BY <1>3, <1>4, <1>6 DEF NamesInv
    <2>. QED  BY <1>1, <2>1 DEF ClaimOK, Open, Owns, Names
<1>7. RowOK(u)'
    <2>1. RowOK(u) /\ ClaimOK(w, u)  BY <1>2 DEF NamesInv
    <2>2. row[u].gen > 0 /\ (Kind[u] = "edit" => row[u].article = Archive[u] /\ Archive[u] # NoArticle)
        BY <2>1, DeliveryAssumption DEF RowOK, ClaimOK, Open, NoArticle
    <2>3. Names(u, row'[u].article)
        BY <1>1, <1>3, <2>1 DEF RowOK, ClaimOK
    <2>. QED  BY <1>1, <1>3, <2>2, <2>3 DEF RowOK, Names
<1>8. ASSUME NEW t \in Tasks PROVE RowOK(t)'
    <2>1. CASE t = u  BY <1>7, <2>1
    <2>2. CASE t # u  BY <1>1, <1>3, <2>2 DEF NamesInv, RowOK, Names
    <2>. QED  BY <2>1, <2>2
<1>9. NamesInv'  BY <1>1, <1>6, <1>8 DEF NamesInv, ArticlesPlaced
<1>10. ASSUME NEW t \in Tasks
       PROVE  /\ Kind[t] = "ocr" => OcrCount(t)'
              /\ Kind[t] = "clip" => ClipCount(t)'
    <2>1. Count(t)' = Count(t) /\ Count(t) \in Nat /\ mishaps \in Nat /\ row[t].gen \in Nat
        BY <1>1, Typed, CountNat DEF Count, ArticlesOf
    <2>2. row'[t].gen = row[t].gen  BY <1>3
    <2>3. t # u => (Delivers(t)' <=> Delivers(t))
        BY <1>1, <1>2 DEF Delivers, HasArticle, Successful, Works
    <2>4. ASSUME Kind[t] = "ocr" PROVE OcrCount(t)'
        <3>1. OcrCount(t)  BY <2>4 DEF CountInv
        <3>2. CASE t = u
            <4>1. Count(t) <= mishaps + 1  BY <2>1, <3>1 DEF OcrCount
            <4>. QED  BY <1>1, <1>3, <2>1, <3>2, <4>1 DEF OcrCount
        <3>3. CASE t # u  BY <1>1, <1>3, <2>1, <2>3, <3>1, <3>3 DEF OcrCount
        <3>. QED  BY <3>2, <3>3
    <2>5. ASSUME Kind[t] = "clip" PROVE ClipCount(t)'
        <3>1. ClipCount(t)  BY <2>5 DEF CountInv
        <3>2. ASSUME NEW v \in Workers, Works(v, t)'
              PROVE  /\ Count(t)' <= mishaps' + claim'[v].gen
                     /\ ~HasArticle(v)' => Count(t)' < mishaps' + claim'[v].gen
            BY <1>1, <1>4, <2>1, <3>1, <3>2 DEF ClipCount
        <3>3. Open(t)' /\ ~Delivers(t)' => Count(t)' < mishaps' + row'[t].gen
            <4>1. CASE t = u
                <5>1. Count(t) <= mishaps + claim[w].gen /\ claim[w].gen \in Nat
                    BY <1>2, <3>1, <4>1, Typed DEF ClipCount, Works
                <5>. QED  BY <1>1, <1>3, <2>1, <2>2, <2>5, <4>1, <5>1
            <4>2. CASE t # u  BY <1>1, <1>3, <2>1, <2>2, <2>3, <3>1, <4>2 DEF ClipCount, Open
            <4>. QED  BY <4>1, <4>2
        <3>4. Count(t)' <= mishaps' + row'[t].gen  BY <1>1, <2>1, <2>2, <3>1 DEF ClipCount
        <3>. QED  BY <3>2, <3>3, <3>4 DEF ClipCount
    <2>. QED  BY <2>4, <2>5
<1>11. ASSUME CurrentInv PROVE CurrentInv'
    <2>1. ASSUME NEW v \in Workers, HasArticle(v)', claim'[v].outcome = "ok"
          PROVE  articles'[claim'[v].article] = Sent(v)'
        <3>1. v # w  BY <1>1, <2>1 DEF HasArticle
        <3>2. claim'[v] = claim[v]  BY <1>1, <3>1
        <3>. QED  BY <1>1, <1>11, <2>1, <3>2 DEF CurrentInv, HasArticle, Successful, Sent
    <2>2. ASSUME NEW t \in Tasks, row'[t].status = "published", ~row'[t].duplicate
          PROVE  /\ row'[t].article \in DOMAIN articles'
                 /\ articles'[row'[t].article] =
                        [task |-> t, artifact |-> row'[t].artifact, public |-> TRUE]
        <3>1. CASE t # u
            BY <1>1, <1>3, <1>11, <2>2, <3>1 DEF CurrentInv, PublishedIsCurrent
        <3>2. CASE t = u
            <4>1. claim[w].outcome = "ok"
                BY <1>1, <1>3, <2>2, <3>2 DEF HasArticle, Successful
            <4>2. articles[claim[w].article] = Sent(w)  BY <1>1, <1>11, <4>1 DEF CurrentInv
            <4>3. claim[w].article \in DOMAIN articles
                BY <1>1, <1>2 DEF NamesInv, ClaimOK, Names
            <4>. QED  BY <1>1, <1>2, <1>3, <2>2, <3>2, <4>2, <4>3 DEF Sent, Works
        <3>. QED  BY <3>1, <3>2
    <2>. QED  BY <2>1, <2>2 DEF CurrentInv, PublishedIsCurrent
<1>. QED  BY <1>9, <1>10, <1>11 DEF CountInv

-----------------------------------------------------------------------------
LEMMA StepKeeps ==
    ASSUME OneWorkerPerKind, TypeOK, TypeOK', NamesInv, CountInv, [Next]_vars
    PROVE  /\ NamesInv' /\ CountInv'
           /\ OneEditPerArticle /\ CurrentInv => CurrentInv'
           /\ \A t \in Tasks : Kind[t] # "clip" /\ row[t].article # NoArticle =>
                 row'[t].article = row[t].article
<1>1. ASSUME Quiet, \/ mishaps' = mishaps /\ \A w \in Workers : HasArticle(w) => claim'[w] = claim[w]
                    \/ mishaps' = mishaps + 1
      PROVE  /\ NamesInv' /\ CountInv' /\ (CurrentInv => CurrentInv')
             /\ \A t \in Tasks : row[t].article # NoArticle => row'[t].article = row[t].article
    <2>1. NamesInv' /\ CountInv' /\ (CurrentInv => CurrentInv')
        BY <1>1, QuietNames, QuietCounts, QuietMishap, QuietCurrent
    <2>2. \A t \in Tasks : row[t].status = "absent" => row[t].article = NoArticle
        BY DEF NamesInv, RowOK, Absent
    <2>. QED  BY <1>1, <2>1, <2>2 DEF Quiet, RowGoes
<1>2. CASE UNCHANGED vars
    <2>1. Quiet
        BY <1>2 DEF vars, Quiet, RowGoes, ClaimGoes, KeptClaim, Works, Owns, HasArticle, Successful
    <2>. QED  BY <1>1, <1>2, <2>1 DEF vars
<1>3. CASE \/ \E t \in Tasks : \/ Encode(t) \/ NameArrives(t) \/ RefreshEvent(t)
                                \/ Retry(t) \/ Time(t)
           \/ \E e \in Enqueuers : Register(e) \/ \E t \in Tasks : ReadSource(e, t)
    BY <1>1, <1>3, OutsideQuiet
<1>4. ASSUME NEW w \in Workers, WorkerStep(w) \/ Mishap(w)
      PROVE  /\ NamesInv' /\ CountInv'
             /\ OneEditPerArticle /\ CurrentInv => CurrentInv'
             /\ \A t \in Tasks : Kind[t] # "clip" /\ row[t].article # NoArticle =>
                   row'[t].article = row[t].article
    <2>1. CASE ClaimDue(w)  BY <1>1, <2>1, ClaimDueQuiet
    <2>2. CASE \/ Abandon(w) \/ Inspect(w) \/ HoldClaim(w) \/ StageFails(w) \/ Decide(w)
               \/ ReturnToPersonWait(w) \/ SetClaimPhase(w) \/ CallFails(w) \/ RecordFailure(w)
        BY <1>1, <2>2, WorkerQuiet
    <2>3. CASE RecordErrors(w) \/ Crash(w)  BY <1>1, <2>3, MishapQuiet
    <2>4. CASE CallSucceeds(w) \/ AnswerLost(w)
        <3>1. row' = row  BY <2>4 DEF CallSucceeds, AnswerLost
        <3>. QED  BY <2>4, <3>1, CallKeeps
    <2>5. CASE CallDuplicate(w)
        <3>1. row' = row  BY <2>5 DEF CallDuplicate
        <3>. QED  BY <2>5, <3>1, DuplicateKeeps
    <2>6. CASE RecordSuccess(w)
        <3>1. PICK u \in Tasks : Works(w, u)  BY <2>6, Typed DEF RecordSuccess, Works
        <3>2. \A t \in Tasks : Kind[t] # "clip" /\ row[t].article # NoArticle =>
                 row'[t].article = row[t].article
            BY <2>6, <3>1, RecordRow
        <3>. QED  BY <2>6, <3>2, RecordKeeps
    <2>. QED
        BY <1>4, <2>1, <2>2, <2>3, <2>4, <2>5, <2>6 DEF WorkerStep, Mishap
<1>. QED  BY <1>2, <1>3, <1>4 DEF Next

\* In the beginning there are the edits' articles, one each, and nothing else.
LEMMA InitKeeps ==
    ASSUME Init
    PROVE  NamesInv /\ CountInv /\ CurrentInv
<1>1. /\ DOMAIN articles = 1..Archived /\ Len(articles) = Archived /\ Archived \in Nat
      /\ \A i \in 1..Archived : articles[i].task \in Tasks /\ Archive[articles[i].task] = i
    BY DeliveryAssumption DEF Init
<1>2. \A t \in Tasks : row[t] = Absent  BY DEF Init
<1>3. \A w \in Workers : claim[w].step = "idle"  BY DEF Init, Idle
<1>4. NamesInv
    <2>1. ArticlesPlaced  BY <1>1 DEF ArticlesPlaced
    <2>2. Absent.status = "absent" /\ Absent.article = NoArticle  BY DEF Absent
    <2>4. \A t \in Tasks : RowOK(t)  BY <1>2, <2>2 DEF RowOK
    <2>3. \A w \in Workers, t \in Tasks : ~Works(w, t)  BY <1>3 DEF Works
    <2>. QED  BY <2>1, <2>3, <2>4 DEF NamesInv
<1>5. ASSUME NEW t \in Tasks, Kind[t] # "edit" PROVE Count(t) = 0
    <2>1. ArticlesOf(t) = {}  BY <1>1, <1>5, DeliveryAssumption DEF ArticlesOf
    <2>. QED  BY <2>1, FS_EmptySet DEF Count
<1>6. mishaps = 0 /\ \A t \in Tasks : row[t].gen = 0 /\ row[t].article = NoArticle /\ ~Open(t)
    BY <1>2 DEF Init, Absent, Open
<1>7. CountInv
    BY <1>3, <1>5, <1>6 DEF CountInv, OcrCount, ClipCount, Works
<1>8. CurrentInv
    BY <1>2, <1>3 DEF CurrentInv, PublishedIsCurrent, HasArticle, Absent
<1>. QED  BY <1>4, <1>7, <1>8

\* However many generations, claims, crashes and lost answers: every article beyond
\* the first of an OCR task, or of each generation of a clip, is paid for by a
\* mishap, and no edit creates one.
THEOREM ArticlesExplainedHolds ==
    ASSUME OneWorkerPerKind
    PROVE  Spec => []ArticlesExplained
<1>1. Init => NamesInv /\ CountInv  BY InitKeeps
<1>2. TypeOK /\ TypeOK' /\ NamesInv /\ CountInv /\ [Next]_vars => NamesInv' /\ CountInv'
    BY StepKeeps
<1>3. TypeOK /\ NamesInv /\ CountInv => ArticlesExplained
    <2>. SUFFICES ASSUME TypeOK, NamesInv, CountInv, NEW t \in Tasks
                  PROVE  Count(t) <= CASE Kind[t] = "edit" -> 1
                                       [] Kind[t] = "ocr" -> 1 + mishaps
                                       [] OTHER -> row[t].gen + mishaps
        BY DEF ArticlesExplained, Count
    <2>1. Count(t) \in Nat /\ mishaps \in Nat /\ row[t].gen \in Nat  BY Typed, CountNat
    <2>2. CASE Kind[t] = "edit"
        <3>1. ArticlesOf(t) \subseteq {Archive[t]}
            BY <2>2, Typed DEF ArticlesOf, NamesInv, ArticlesPlaced
        <3>2. IsFiniteSet({Archive[t]}) /\ Cardinality({Archive[t]}) = 1  BY FS_Singleton
        <3>. QED  BY <2>1, <2>2, <3>1, <3>2, FS_Subset DEF Count
    <2>3. CASE Kind[t] = "ocr"  BY <2>1, <2>3 DEF CountInv, OcrCount
    <2>4. CASE Kind[t] = "clip"  BY <2>1, <2>4 DEF CountInv, ClipCount
    <2>. QED  BY <2>2, <2>3, <2>4, DeliveryAssumption
<1>. QED  BY <1>1, <1>2, <1>3, TypeCorrect, PTL DEF Spec

\* Once the row of an OCR or edit task names an article, no later delivery, of any
\* generation, exchanges it for another.
THEOREM ArticleKeptHolds ==
    ASSUME OneWorkerPerKind
    PROVE  Spec => ArticleKept
<1>1. Init => NamesInv /\ CountInv  BY InitKeeps
<1>2. TypeOK /\ TypeOK' /\ NamesInv /\ CountInv /\ [Next]_vars => NamesInv' /\ CountInv'
    BY StepKeeps
<1>3. TypeOK /\ TypeOK' /\ NamesInv /\ CountInv /\ [Next]_vars =>
        [\A t \in Tasks : Kind[t] # "clip" /\ row[t].article # NoArticle =>
            row'[t].article = row[t].article]_vars
    BY StepKeeps
<1>. QED  BY <1>1, <1>2, <1>3, TypeCorrect, PTL DEF Spec, ArticleKept

\* A published row tells the truth about the platform: the article it names is
\* public and shows the row's own artifact, unless the platform called it a
\* duplicate.
THEOREM PublishedIsCurrentHolds ==
    ASSUME OneWorkerPerKind, OneEditPerArticle
    PROVE  Spec => []PublishedIsCurrent
<1>1. Init => NamesInv /\ CountInv /\ CurrentInv  BY InitKeeps
<1>2. TypeOK /\ TypeOK' /\ NamesInv /\ CountInv /\ CurrentInv /\ [Next]_vars =>
        NamesInv' /\ CountInv' /\ CurrentInv'
    BY StepKeeps
<1>3. CurrentInv => PublishedIsCurrent  BY DEF CurrentInv
<1>. QED  BY <1>1, <1>2, <1>3, TypeCorrect, PTL DEF Spec
=============================================================================
