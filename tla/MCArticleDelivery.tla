--------------------------- MODULE MCArticleDelivery -------------------------
(***************************************************************************)
(* Instances of ArticleDelivery: an OCR task of the dashboard's worker,    *)
(* and, with variables of their own, a clip and an edit of the monitor's.  *)
(* A behaviour follows one of the two, as focus says.                      *)
(***************************************************************************)
EXTENDS ArticleDelivery

CONSTANTS
    goal, clip, edit, dashboard, monitor,
    HandTasks, HandKind, HandWorkers, HandKinds,    \* the monitor's queue
    HandArchived, HandArchive, HandRetries, HandMode

OcrKind == [t \in {goal} |-> "ocr"]
ArchiveOf == [t \in {goal} |-> 0]
ClaimsOcr == [w \in {dashboard} |-> {"ocr"}]
MCTasks == {goal}
MCWorkers == {dashboard}

MCHandTasks == {clip, edit}
ClipOrEdit == [t \in {clip, edit} |-> IF t = clip THEN "clip" ELSE "edit"]
MCHandWorkers == {monitor}
ClaimsManual == [w \in {monitor} |-> {"clip", "edit"}]
HandArchiveOf == [t \in {clip, edit} |-> IF t = edit THEN 1 ELSE 0]

VARIABLES focus, mRow, mClaim, mRead, mSource, mNamed, mArticles, mMishaps

ByHand == INSTANCE ArticleDeliveryProofs WITH
    Tasks <- HandTasks, Kind <- HandKind, Workers <- HandWorkers, WorkerKinds <- HandKinds,
    Enqueuers <- {"monitor"}, Archived <- HandArchived, Archive <- HandArchive,
    RetryLimit <- HandRetries, ManualMode <- HandMode,
    row <- mRow, claim <- mClaim, read <- mRead, source <- mSource, named <- mNamed,
    articles <- mArticles, mishaps <- mMishaps

ASSUME HandAssumption == ByHand!DeliveryAssumption

mVars == <<mRow, mClaim, mRead, mSource, mNamed, mArticles, mMishaps>>
MCVars == <<focus, vars, mVars>>
MCInit == focus \in {"ocr", "manual"} /\ Init /\ ByHand!Init
MCNext ==
    \/ focus = "ocr" /\ Next /\ UNCHANGED <<focus, mVars>>
    \/ focus = "manual" /\ ByHand!Next /\ UNCHANGED <<focus, vars>>
MCSpec == MCInit /\ [][MCNext]_MCVars

\* Every article of a clip beyond the first of each generation is explained by a
\* crash, a lost answer or a failed write, an edit creates none, what was delivered
\* is never touched again, and no task of either kind loses the article it has
\* (run_once with archive_id, enqueue_clip, _record_stale_article_id).
ArticlesStay ==
    /\ ArticleKept
    /\ [](focus = "manual" => ByHand!ArticlesExplained)
    /\ ByHand!TerminalForever /\ ByHand!ArticleKept
=============================================================================
