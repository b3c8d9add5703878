---------------------------- MODULE DeliveryProofs ----------------------------
(***************************************************************************)
(* What MCArticleDelivery checks of the two queues together, for every     *)
(* value of their constants: a behaviour that follows one queue leaves the *)
(* other at rest, so that it is a behaviour of each.                       *)
(***************************************************************************)
EXTENDS MCArticleDelivery, ArticleDeliveryProofs

\* The dashboard's queue, and the monitor's.
LEMMA QueueBehaves == MCSpec => Spec
<1>1. MCInit => Init
  BY DEF MCInit
<1>2. [MCNext]_MCVars => [Next]_vars
  BY DEF MCNext, MCVars
<1>. QED
  BY <1>1, <1>2, PTL DEF MCSpec, Spec

LEMMA HandBehaves == MCSpec => ByHand!Spec
<1>1. MCInit => ByHand!Init
  BY DEF MCInit
<1>2. [MCNext]_MCVars => [ByHand!Next]_ByHand!vars
  BY DEF MCNext, MCVars, mVars, ByHand!vars
<1>. QED
  BY <1>1, <1>2, PTL DEF MCSpec, ByHand!Spec

\* No task of either queue loses the article it has; every article of a clip beyond
\* the first of each generation is paid for by a mishap, an edit creates none, and
\* what the monitor delivered is never touched again, for any tasks and mishaps and
\* one worker per kind (run_once with archive_id, enqueue_clip).
THEOREM ArticlesStayHolds ==
  ASSUME OneWorkerPerKind, ByHand!OneWorkerPerKind
  PROVE  MCSpec => ArticlesStay
<1>1. Spec => ArticleKept
  BY ArticleKeptHolds
<1>2. ByHand!Spec => []ByHand!ArticlesExplained
  BY HandAssumption, ByHand!ArticlesExplainedHolds
<1>3. ByHand!Spec => ByHand!TerminalForever
  BY HandAssumption, ByHand!TerminalForeverHolds
<1>4. ByHand!Spec => ByHand!ArticleKept
  BY HandAssumption, ByHand!ArticleKeptHolds
<1>. QED
  BY <1>1, <1>2, <1>3, <1>4, QueueBehaves, HandBehaves, PTL DEF ArticlesStay
=============================================================================
