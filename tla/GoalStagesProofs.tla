--------------------------- MODULE GoalStagesProofs ---------------------------
(***************************************************************************)
(* Proofs about the goals of two feeds and about the answer on a window's  *)
(* video, for every value of their constants.                              *)
(***************************************************************************)
EXTENDS GoalStages, Sequences, FiniteSetTheorems, WellFoundedInduction, TLAPS

-----------------------------------------------------------------------------
(* What an answer about a window claims, for any stream, any pruning and any       *)
(* request.                                                                        *)
(*                                                                                 *)
(* The components of the selected segments are runs more than the gap tolerance    *)
(* apart that show every quarter between their ends.  A segment that arrives comes *)
(* after all others, so that it either makes the last run longer or is a run of    *)
(* its own: no head, no gap and no other end changes.  The answer is then compared *)
(* case by case.                                                                   *)

Segment == [start : Nat, end : Nat]

\* The segments of a stream that has reached e never overlap.
Buffered(S, e) ==
    /\ S \subseteq Segment
    /\ \A s \in S : s.start < s.end /\ s.end <= e
    /\ \A s, t \in S : s = t \/ s.end <= t.start \/ t.end <= s.start

\* C are runs of S: more than the tolerance apart, and all of S is in them.
RunsOf(C, S) ==
    /\ C \subseteq Segment
    /\ \A c \in C : c.start < c.end
    /\ \A c, d \in C : c = d \/ c.end + Answer!GapTolerance < d.start \/
            d.end + Answer!GapTolerance < c.start
    /\ \A s \in S : \E c \in C : c.start <= s.start /\ s.end <= c.end
    /\ \A c \in C : (\E s \in S : s.start = c.start) /\ (\E s \in S : s.end = c.end)

-----------------------------------------------------------------------------
(* Least and greatest times *)

LEMMA UpTo ==
    ASSUME NEW m \in Nat \ {0}
    PROVE  1..m # {} /\ m \in 1..m /\ (1..m) \ {m} = 1..(m-1)
<1>1. m \in 1..m  OBVIOUS
<1>2. (1..m) \ {m} = 1..(m-1)  OBVIOUS
<1>. QED  BY <1>1, <1>2

LEMMA LeastExists ==
    ASSUME NEW T, T \subseteq Nat, T # {}
    PROVE  \E n \in T : \A m \in T : n <= m
<1>0. PICK R : R = OpToRel(<, Nat)  OBVIOUS
<1>1. IsWellFoundedOn(R, Nat)  BY <1>0, NatLessThanWellFounded
<1>4. \A m, n \in Nat : m < n => <<m, n>> \in R  BY <1>0 DEF OpToRel
<1>2. PICK n \in T : \A m \in T : <<m, n>> \notin R
    BY <1>1, WFMin
<1>3. ASSUME NEW m \in T PROVE n <= m
    <2>1. m \in Nat /\ n \in Nat  OBVIOUS
    <2>2. ~(m < n)  BY <1>4, <1>2, <2>1
    <2>. QED  BY <2>1, <2>2
<1>. QED  BY <1>3

LEMMA GreatestExists ==
    ASSUME NEW T, T \subseteq Nat, T # {}, NEW e \in Nat, \A t \in T : t <= e
    PROVE  /\ Answer!Max(T) \in T
           /\ \A t \in T : t <= Answer!Max(T)
<1>. DEFINE U == {n \in Nat : \A t \in T : t <= n}
<1>1. U # {} /\ U \subseteq Nat  OBVIOUS
<1>2. PICK n \in U : \A m \in U : n <= m  BY <1>1, LeastExists
<1>3. n \in T
    <2>1. SUFFICES ASSUME n \notin T PROVE FALSE  OBVIOUS
    <2>2. \A t \in T : t <= n - 1  BY <1>2, <2>1
    <2>3. PICK t \in T : t <= n - 1  BY <2>2
    <2>4. n - 1 \in U  BY <1>2, <2>2, <2>3
    <2>. QED  BY <1>2, <2>4
<1>4. \E x \in T : \A y \in T : x >= y  BY <1>2, <1>3
<1>. QED  BY <1>4 DEF Answer!Max

LEMMA LaterIs ==
    ASSUME NEW i \in Nat, NEW j \in Nat
    PROVE  Answer!Later(i, j) \in {i, j} /\ Answer!Later(i, j) >= i /\ Answer!Later(i, j) >= j
BY DEF Answer!Later, Answer!Max

LEMMA EarlierIs ==
    ASSUME NEW i \in Nat, NEW j \in Nat
    PROVE  Answer!Earlier(i, j) \in {i, j} /\ Answer!Earlier(i, j) <= i /\ Answer!Earlier(i, j) <= j
BY DEF Answer!Earlier, Answer!Min

LEMMA LatestEndIs ==
    ASSUME NEW S, NEW e \in Nat, Buffered(S, e), S # {}
    PROVE  /\ Answer!LatestEnd(S) \in Nat
           /\ \E s \in S : s.end = Answer!LatestEnd(S)
           /\ \A s \in S : s.end <= Answer!LatestEnd(S)
<1>. DEFINE T == {s.end : s \in S}
<1>1. T \subseteq Nat /\ T # {} /\ \A t \in T : t <= e
    BY DEF Buffered, Segment
<1>2. Answer!Max(T) \in T /\ \A t \in T : t <= Answer!Max(T)
    <2>. HIDE DEF T
    <2>. QED  BY <1>1, GreatestExists
<1>. QED  BY <1>1, <1>2 DEF Answer!LatestEnd

-----------------------------------------------------------------------------
(* Components *)

LEMMA SelectedBuffered ==
    ASSUME NEW S, NEW e, NEW r, Buffered(S, e)
    PROVE  Buffered(Answer!Selected(S, r), e)
BY DEF Buffered, Answer!Selected

\* The segments of the component that starts at h.
Members(S, h) == {s \in S : s.start >= h /\ \A g \in Answer!Heads(S) : g > h => s.start < g}

LEMMA ComponentIs ==
    ASSUME NEW S, NEW e \in Nat, Buffered(S, e), NEW h \in Answer!Heads(S)
    PROVE  LET c == Answer!Component(S, h) IN
           /\ c \in Segment /\ c.start = h /\ c.start < c.end
           /\ \E s \in S : s.start = h /\ s \in Members(S, h)
           /\ \E s \in Members(S, h) : s.end = c.end
           /\ \A s \in Members(S, h) : s.end <= c.end
<1>. DEFINE M == Members(S, h)
<1>0. h \in Nat /\ Answer!Heads(S) \subseteq Nat  BY DEF Answer!Heads, Buffered, Segment
<1>1. PICK s \in S : s.start = h  BY DEF Answer!Heads
<1>2. s \in M  BY <1>0, <1>1 DEF Members
<1>3. Buffered(M, e)  BY DEF Members, Buffered
<1>4. /\ Answer!LatestEnd(M) \in Nat
      /\ \E t \in M : t.end = Answer!LatestEnd(M)
      /\ \A t \in M : t.end <= Answer!LatestEnd(M)
    <2>. HIDE DEF M
    <2>. QED  BY <1>2, <1>3, LatestEndIs
<1>5. Answer!Component(S, h) = [start |-> h, end |-> Answer!LatestEnd(M)]
    BY DEF Answer!Component, Members
<1>6. h < Answer!LatestEnd(M)  BY <1>0, <1>1, <1>2, <1>4 DEF Buffered, Segment
<1>. HIDE DEF M
<1>7. [start |-> h, end |-> Answer!LatestEnd(M)] \in Segment  BY <1>0, <1>4 DEF Segment
<1>. QED  BY <1>1, <1>2, <1>4, <1>5, <1>6, <1>7 DEF M

\* Every segment is a member of the component with the greatest head before it.
LEMMA MemberOfOne ==
    ASSUME NEW S, NEW e \in Nat, Buffered(S, e), NEW s \in S
    PROVE  \E h \in Answer!Heads(S) : s \in Members(S, h)
<1>0. \A x \in S : x.start \in Nat /\ x.end \in Nat  BY DEF Buffered, Segment
<1>1. Answer!Heads(S) \subseteq Nat  BY <1>0 DEF Answer!Heads
<1>. DEFINE T == {x.start : x \in S}
            H == {h \in Answer!Heads(S) : h <= s.start}
<1>2. PICK f \in T : \A t \in T : f <= t
    <2>1. T \subseteq Nat /\ T # {}  BY <1>0
    <2>. HIDE DEF T
    <2>. QED  BY <2>1, LeastExists
<1>3. f \in Answer!Heads(S)
    <2>1. f \in Nat /\ \A x \in S : f <= x.start  BY <1>0, <1>2
    <2>2. \A x \in S : ~(x.start < f)  BY <1>0, <2>1
    <2>. QED  BY <1>2, <2>2 DEF Answer!Heads
<1>4. H \subseteq Nat /\ H # {} /\ \A h \in H : h <= s.start  BY <1>1, <1>2, <1>3
<1>5. Answer!Max(H) \in H /\ \A h \in H : h <= Answer!Max(H)
    <2>. HIDE DEF H
    <2>. QED  BY <1>0, <1>4, GreatestExists
<1>6. PICK m \in Answer!Heads(S) : m <= s.start /\ \A h \in Answer!Heads(S) : h <= s.start => h <= m
    BY <1>5
<1>7. \A g \in Answer!Heads(S) : g > m => s.start < g  BY <1>0, <1>1, <1>6
<1>. QED  BY <1>0, <1>1, <1>6, <1>7 DEF Members

LEMMA ComponentsAreRuns ==
    ASSUME NEW S, NEW e \in Nat, Buffered(S, e)
    PROVE  RunsOf(Answer!Components(S), S)
<1>0. \A x \in S : x.start \in Nat /\ x.end \in Nat  BY DEF Buffered, Segment
<1>1. Answer!Heads(S) \subseteq Nat  BY <1>0 DEF Answer!Heads
<1>2. \A c \in Answer!Components(S) : \E h \in Answer!Heads(S) : c = Answer!Component(S, h)
    BY DEF Answer!Components
<1>3. \A c \in Answer!Components(S) : c \in Segment /\ c.start < c.end
    BY <1>2, ComponentIs
<1>4. ASSUME NEW g \in Answer!Heads(S), NEW h \in Answer!Heads(S), g < h
      PROVE  Answer!Component(S, g).end + Answer!GapTolerance < Answer!Component(S, h).start
    <2>1. PICK s \in Members(S, g) : s.end = Answer!Component(S, g).end  BY ComponentIs
    <2>2. s \in S /\ s.start < h  BY <1>1, <1>4 DEF Members
    <2>3. h - s.end > Answer!GapTolerance  BY <2>2 DEF Answer!Heads
    <2>4. Answer!Component(S, h).start = h  BY ComponentIs
    <2>. QED  BY <1>0, <1>1, <2>1, <2>2, <2>3, <2>4 DEF Answer!GapTolerance
<1>5. \A c, d \in Answer!Components(S) :
         c = d \/ c.end + Answer!GapTolerance < d.start \/ d.end + Answer!GapTolerance < c.start
    <2>1. TAKE c \in Answer!Components(S), d \in Answer!Components(S)
    <2>2. PICK g \in Answer!Heads(S), h \in Answer!Heads(S) : c = Answer!Component(S, g) /\
            d = Answer!Component(S, h)
        BY <1>2
    <2>3. g < h \/ h < g \/ g = h  BY <1>1
    <2>. QED  BY <1>4, <2>2, <2>3
<1>6. ASSUME NEW s \in S PROVE \E c \in Answer!Components(S) : c.start <= s.start /\ s.end <= c.end
    <2>1. PICK h \in Answer!Heads(S) : s \in Members(S, h)  BY MemberOfOne
    <2>2. s.start >= h  BY <2>1 DEF Members
    <2>3. Answer!Component(S, h).start = h /\ s.end <= Answer!Component(S, h).end
        BY <2>1, ComponentIs
    <2>4. Answer!Component(S, h) \in Answer!Components(S)  BY DEF Answer!Components
    <2>. QED  BY <1>0, <1>1, <2>2, <2>3, <2>4
<1>7. ASSUME NEW c \in Answer!Components(S)
      PROVE  (\E s \in S : s.start = c.start) /\ (\E s \in S : s.end = c.end)
    <2>1. PICK h \in Answer!Heads(S) : c = Answer!Component(S, h)  BY <1>2
    <2>. QED  BY <2>1, ComponentIs DEF Members
<1>. QED  BY <1>3, <1>5, <1>6, <1>7 DEF RunsOf

\* A component shows every quarter between its ends.
LEMMA ComponentShown ==
    ASSUME NEW e \in Nat, Buffered(cSegments, e), NEW S, S \subseteq cSegments, Buffered(S, e),
           NEW c \in Answer!Components(S), NEW q \in Nat, c.start <= q, q < c.end
    PROVE  Answer!Shown(q)
<1>0. \A x \in S : x.start \in Nat /\ x.end \in Nat /\ x.start < x.end
    BY DEF Buffered, Segment
<1>1. Answer!Heads(S) \subseteq Nat  BY <1>0 DEF Answer!Heads
<1>2. PICK h \in Answer!Heads(S) : c = Answer!Component(S, h)  BY DEF Answer!Components
<1>3. SUFFICES ASSUME ~ \E s \in S : s.start <= q /\ q < s.end
               PROVE  \E s, t \in S : s.end <= q /\ q < t.start /\
                       t.start - s.end <= Answer!GapTolerance
    BY DEF Answer!Shown
<1>4. PICK m \in Members(S, h) : m.end = c.end  BY <1>2, ComponentIs
<1>5. m \in S /\ q < m.start /\ h <= q
    <2>1. m \in S  BY <1>4 DEF Members
    <2>2. c.start = h  BY <1>2, ComponentIs
    <2>. QED  BY <1>0, <1>3, <1>4, <2>1, <2>2
<1>. DEFINE T == {x.start : x \in {y \in S : q < y.start}}
<1>6. PICK n \in T : \A t \in T : n <= t
    <2>1. T \subseteq Nat /\ T # {}  BY <1>0, <1>5
    <2>. HIDE DEF T
    <2>. QED  BY <2>1, LeastExists
<1>7. PICK t \in S : t.start = n /\ q < t.start  BY <1>6
<1>8. \A y \in S : q < y.start => t.start <= y.start  BY <1>6, <1>7
<1>. HIDE DEF T
<1>9. t.start \notin Answer!Heads(S)
    <2>1. ~(m.start < t.start)  BY <1>0, <1>5, <1>7, <1>8
    <2>2. t.start > h  BY <1>0, <1>1, <1>5, <1>7
    <2>. QED  BY <1>4, <2>1, <2>2 DEF Members
<1>10. PICK s \in S : s.start < t.start /\ ~(t.start - s.end > Answer!GapTolerance)
    BY <1>7, <1>9 DEF Answer!Heads
<1>11. s.end <= q
    <2>1. ~(q < s.start)  BY <1>0, <1>7, <1>8, <1>10
    <2>. QED  BY <1>0, <1>3, <2>1
<1>12. t.start - s.end <= Answer!GapTolerance  BY <1>0, <1>7, <1>10 DEF Answer!GapTolerance
<1>. QED  BY <1>7, <1>11, <1>12

\* The first component, and the last.
LEMMA FirstIs ==
    ASSUME NEW C, C \subseteq Segment, C # {}
    PROVE  Answer!First(C) \in C /\ \A d \in C : Answer!First(C).start <= d.start
<1>. DEFINE T == {c.start : c \in C}
<1>1. PICK n \in T : \A t \in T : n <= t
    <2>1. T \subseteq Nat /\ T # {}  BY DEF Segment
    <2>. HIDE DEF T
    <2>. QED  BY <2>1, LeastExists
<1>2. \E c \in C : \A d \in C : c.start <= d.start  BY <1>1
<1>. QED  BY <1>2 DEF Answer!First

LEMMA LastIs ==
    ASSUME NEW C, C \subseteq Segment, C # {}, NEW e \in Nat, \A c \in C : c.start <= e
    PROVE  Answer!Last(C) \in C /\ \A d \in C : d.start <= Answer!Last(C).start
<1>. DEFINE T == {c.start : c \in C}
<1>1. Answer!Max(T) \in T /\ \A t \in T : t <= Answer!Max(T)
    <2>1. T \subseteq Nat /\ T # {} /\ \A t \in T : t <= e  BY DEF Segment
    <2>. HIDE DEF T
    <2>. QED  BY <2>1, GreatestExists
<1>2. \E c \in C : \A d \in C : d.start <= c.start  BY <1>1
<1>. QED  BY <1>2 DEF Answer!Last

\* The components of what is selected: their first, their last, their reach.
LEMMA SelectedRuns ==
    ASSUME NEW S, NEW e \in Nat, Buffered(S, e), S # {}
    PROVE  LET C == Answer!Components(S) IN
           /\ RunsOf(C, S) /\ C # {}
           /\ Answer!First(C) \in C /\ \A d \in C : Answer!First(C).start <= d.start
           /\ Answer!Last(C) \in C /\ \A d \in C : d.start <= Answer!Last(C).start
           /\ Answer!Last(C).end = Answer!LatestEnd(S)
<1>. DEFINE C == Answer!Components(S)
<1>1. RunsOf(C, S)  BY ComponentsAreRuns
<1>2. C # {}  BY <1>1 DEF RunsOf
<1>3. C \subseteq Segment  BY <1>1 DEF RunsOf
<1>4. \A c \in C : c.start <= e
    <2>1. TAKE c \in C
    <2>2. PICK s \in S : s.start = c.start  BY <1>1 DEF RunsOf
    <2>. QED  BY <2>2 DEF Buffered, Segment
<1>5. Answer!First(C) \in C /\ \A d \in C : Answer!First(C).start <= d.start
    BY <1>2, <1>3, FirstIs
<1>6. Answer!Last(C) \in C /\ \A d \in C : d.start <= Answer!Last(C).start
    BY <1>2, <1>3, <1>4, LastIs
<1>7. Answer!Last(C).end = Answer!LatestEnd(S)
    <2>0. /\ Answer!LatestEnd(S) \in Nat
          /\ \E s \in S : s.end = Answer!LatestEnd(S)
          /\ \A s \in S : s.end <= Answer!LatestEnd(S)
        BY LatestEndIs
    <2>1. PICK s \in S : s.end = Answer!LatestEnd(S)  BY <2>0
    <2>2. PICK c \in C : c.start <= s.start /\ s.end <= c.end  BY <1>1 DEF RunsOf
    <2>3. PICK t \in S : t.end = Answer!Last(C).end  BY <1>1, <1>6 DEF RunsOf
    <2>4. t.end <= Answer!LatestEnd(S)  BY <2>0
    <2>5. c = Answer!Last(C) \/ c.end + Answer!GapTolerance < Answer!Last(C).start
        BY <1>1, <1>6, <2>2 DEF RunsOf, Segment, Answer!GapTolerance
    <2>6. Answer!Last(C).start < Answer!Last(C).end /\ Answer!Last(C).start \in Nat /\
            Answer!Last(C).end \in Nat
        BY <1>1, <1>6 DEF RunsOf, Segment
    <2>7. c.end \in Nat  BY <1>3, <2>2 DEF Segment
    <2>. QED  BY <2>0, <2>1, <2>2, <2>3, <2>4, <2>5, <2>6, <2>7 DEF Answer!GapTolerance
<1>. QED  BY <1>1, <1>2, <1>5, <1>6, <1>7

-----------------------------------------------------------------------------
(* What an answer claims *)

\* A request asks for a window longer than the tolerance at its edges, around its anchor.
RequestOK(r) ==
    /\ r.from \in Nat /\ r.to \in Nat /\ r.anchor \in Nat
    /\ r.from <= r.anchor /\ r.anchor <= r.to
    /\ r.from + 2 * Answer!EdgeTolerance < r.to
    /\ r.allow \in BOOLEAN /\ r.force \in BOOLEAN /\ r.stitch \in BOOLEAN

\* The invariant: a stream without overlaps, up to where it is.
CoverageInv == cEdge \in Nat /\ Buffered(cSegments, cEdge) /\ RequestOK(cRequest)

\* The components a request finds in S.
Pieces(S) == Answer!Components(Answer!Selected(S, cRequest))

\* The parts of an answer.
LEMMA Statuses ==
    /\ Answer!Waiting.status = "waiting" /\ Answer!Unavailable.status = "unavailable" /\
            Answer!TooShort.status = "short"
    /\ \A x, from, to, adjusted :
          LET d == Answer!Decision(x, from, to, adjusted)
          IN d.status = x /\ d.from = from /\ d.to = to /\ d.adjusted = adjusted
BY DEF Answer!Waiting, Answer!Unavailable, Answer!TooShort, Answer!Decision

\* A caller waits for the tail alone.
LEMMA WaitsForTail ==
    ASSUME CoverageInv, Answer!Now.status = "waiting", cSegments # {}
    PROVE  Answer!LatestEnd(cSegments) < cRequest.to - Answer!EdgeTolerance
<1>. DEFINE C == Pieces(cSegments)
<1>1. Answer!LatestEnd(cSegments) \in Nat  BY LatestEndIs DEF CoverageInv
<1>2. Answer!LatestEnd(cSegments) < cRequest.anchor - Answer!EdgeTolerance
        => Answer!LatestEnd(cSegments) < cRequest.to - Answer!EdgeTolerance
    BY <1>1 DEF CoverageInv, RequestOK, Answer!EdgeTolerance
<1>3. CASE C = {}  BY <1>3, Statuses DEF Answer!Now, Answer!Coverage, Pieces, Answer!TailMissing
<1>4. CASE C # {} /\ cRequest.stitch /\ cRequest.allow
    <2>1. Answer!Now = Answer!Stitched(cSegments, C, cRequest)
        BY <1>4 DEF Answer!Now, Answer!Coverage, Pieces
    <2>. HIDE DEF C
    <2>. QED  BY <1>2, <2>1, Statuses DEF Answer!Stitched, Answer!TailMissing
<1>5. CASE C # {} /\ ~(cRequest.stitch /\ cRequest.allow)
    <2>1. Answer!Now = Answer!Continuous(cSegments, C, cRequest)
        BY <1>5 DEF Answer!Now, Answer!Coverage, Pieces
    <2>. HIDE DEF C
    <2>. QED  BY <1>2, <2>1, Statuses DEF Answer!Continuous, Answer!TailMissing, Answer!Degraded
<1>. QED  BY <1>3, <1>4, <1>5

AroundAnchor == (cRequest.anchor - Answer!EdgeTolerance - 1)..(cRequest.anchor + Answer!EdgeTolerance)

\* The quarter at the anchor, or one beside it, is on the anchor's component.
LEMMA HomeShown ==
    ASSUME CoverageInv, NEW c \in Answer!AnchorHome(Pieces(cSegments), cRequest)
    PROVE  /\ c \in Pieces(cSegments)
           /\ \E q \in AroundAnchor : Answer!Shown(q)
<1>. DEFINE a == cRequest.anchor
<1>0. a \in Nat  BY DEF CoverageInv, RequestOK
<1>1. /\ c \in Pieces(cSegments)
      /\ c.start - Answer!EdgeTolerance <= a /\ a <= c.end + Answer!EdgeTolerance
    BY DEF Answer!AnchorHome
<1>2. Buffered(Answer!Selected(cSegments, cRequest), cEdge)  BY SelectedBuffered DEF CoverageInv
<1>3. c.start \in Nat /\ c.end \in Nat /\ c.start < c.end
    BY <1>1, <1>2, ComponentsAreRuns DEF CoverageInv, RunsOf, Pieces, Segment
<1>. DEFINE q == IF a < c.start THEN c.start ELSE IF a < c.end THEN a ELSE c.end - 1
<1>4. q \in Nat /\ c.start <= q /\ q < c.end /\
        q \in (a - Answer!EdgeTolerance - 1)..(a + Answer!EdgeTolerance)
    BY <1>0, <1>1, <1>3 DEF Answer!EdgeTolerance
<1>. HIDE DEF q
<1>5. Answer!Shown(q)
    BY <1>1, <1>2, <1>4, ComponentShown DEF CoverageInv, Pieces, Answer!Selected
<1>. QED  BY <1>1, <1>4, <1>5 DEF AroundAnchor

LEMMA ComponentAllShown ==
    ASSUME CoverageInv, NEW c \in Pieces(cSegments), NEW q \in Nat, c.start <= q, q < c.end
    PROVE  Answer!Shown(q)
<1>1. Buffered(Answer!Selected(cSegments, cRequest), cEdge)  BY SelectedBuffered DEF CoverageInv
<1>. QED  BY <1>1, ComponentShown DEF CoverageInv, Pieces, Answer!Selected

\* What AnswerIsTrue says of an answer d, its waiting apart.
Shows(d) ==
    /\ d.status = "full" =>
         \A q \in (cRequest.from + Answer!EdgeTolerance)..(cRequest.to - Answer!EdgeTolerance - 1) : Answer!Shown(q)
    /\ d.status = "degraded" /\ ~cRequest.stitch => \A q \in d.from..(d.to - 1) : Answer!Shown(q)
    /\ d.status \in {"full", "degraded"} =>
         \/ d.adjusted
         \/ \E q \in AroundAnchor : Answer!Shown(q)

LEMMA StitchedShows ==
    ASSUME CoverageInv, Pieces(cSegments) # {}, cRequest.stitch
    PROVE  Shows(Answer!Stitched(cSegments, Pieces(cSegments), cRequest))
<1>. DEFINE S == cSegments
            C == Pieces(cSegments)
            r == cRequest
            d == Answer!Stitched(S, C, r)
            homeless == Answer!AnchorHome(C, r) = {}
<1>1. d.status \in {"full", "degraded"} => d.adjusted = homeless
    BY Statuses DEF Answer!Stitched
<1>2. d.status = "full" =>
        /\ Answer!Gaps(C) = {} /\ Answer!First(C).start <= r.from + Answer!EdgeTolerance
        /\ Answer!Last(C).end >= r.to - Answer!EdgeTolerance
    BY Statuses DEF Answer!Stitched
<1>3. ~homeless => \E q \in AroundAnchor : Answer!Shown(q)
    BY HomeShown
<1>4. ASSUME d.status = "full", NEW q \in (r.from + Answer!EdgeTolerance)..(r.to - Answer!EdgeTolerance - 1)
      PROVE  Answer!Shown(q)
    <2>1. C \ {Answer!First(C)} = {}  BY <1>2, <1>4 DEF Answer!Gaps
    <2>2. Buffered(Answer!Selected(S, r), cEdge) /\ Answer!Selected(S, r) # {}
        <3>1. Buffered(Answer!Selected(S, r), cEdge)  BY SelectedBuffered DEF CoverageInv
        <3>2. Answer!Selected(S, r) = {} => Answer!Components(Answer!Selected(S, r)) = {}
            BY DEF Answer!Components, Answer!Heads
        <3>. QED  BY <3>1, <3>2 DEF Pieces
    <2>3. RunsOf(C, Answer!Selected(S, r)) /\ Answer!First(C) \in C /\ Answer!Last(C) \in C
        BY <2>2, SelectedRuns DEF CoverageInv, Pieces
    <2>4. Answer!First(C) = Answer!Last(C)  BY <2>1, <2>3
    <2>5. Answer!First(C).start \in Nat /\ Answer!First(C).end \in Nat
        BY <2>3 DEF RunsOf, Segment
    <2>6. q \in Nat /\ Answer!First(C).start <= q /\ q < Answer!First(C).end
        BY <1>2, <1>4, <2>4, <2>5 DEF CoverageInv, RequestOK, Answer!EdgeTolerance
    <2>. QED  BY <2>3, <2>6, ComponentAllShown
<1>. HIDE DEF d
<1>. QED  BY <1>1, <1>3, <1>4 DEF Shows, d

LEMMA DegradedShows ==
    ASSUME CoverageInv, NEW c \in Answer!AnchorHome(Pieces(cSegments), cRequest)
    PROVE  Shows(Answer!Degraded(c, cRequest))
<1>. DEFINE d == Answer!Degraded(c, cRequest)
<1>0. cRequest.from \in Nat /\ cRequest.to \in Nat  BY DEF CoverageInv, RequestOK
<1>1. c \in Pieces(cSegments)
    BY DEF Answer!AnchorHome
<1>2. c.start \in Nat /\ c.end \in Nat
    <2>1. Buffered(Answer!Selected(cSegments, cRequest), cEdge)
        BY SelectedBuffered DEF CoverageInv
    <2>. QED  BY <1>1, <2>1, ComponentsAreRuns DEF CoverageInv, RunsOf, Pieces, Segment
<1>3. Answer!Later(cRequest.from, c.start) \in Nat /\
        Answer!Later(cRequest.from, c.start) >= c.start
    BY <1>0, <1>2, LaterIs
<1>4. Answer!Earlier(cRequest.to, c.end) \in Nat /\ Answer!Earlier(cRequest.to, c.end) <= c.end
    BY <1>0, <1>2, EarlierIs
<1>5. d.status # "full" /\ (d.status = "degraded" =>
        d.from = Answer!Later(cRequest.from, c.start) /\ d.to = Answer!Earlier(cRequest.to, c.end))
    <2>1. \/ d = Answer!TooShort
          \/ d = Answer!Decision("degraded", Answer!Later(cRequest.from, c.start),
                          Answer!Earlier(cRequest.to, c.end), FALSE)
        BY DEF Answer!Degraded
    <2>. HIDE DEF d
    <2>. QED  BY <2>1 DEF Answer!Decision, Answer!TooShort
<1>6. \A q \in Answer!Later(cRequest.from,
        c.start)..(Answer!Earlier(cRequest.to, c.end) - 1) : Answer!Shown(q)
    BY <1>1, <1>2, <1>3, <1>4, ComponentAllShown
<1>. HIDE DEF d
<1>. QED  BY <1>5, <1>6, HomeShown DEF Shows, d

LEMMA ContinuousShows ==
    ASSUME CoverageInv, Pieces(cSegments) # {}
    PROVE  Shows(Answer!Continuous(cSegments, Pieces(cSegments), cRequest))
<1>. DEFINE S == cSegments
            C == Pieces(cSegments)
            r == cRequest
            H == Answer!AnchorHome(C, r)
            home == Answer!First(H)
            d == Answer!Continuous(S, C, r)
<1>1. Shows(Answer!Waiting) /\ Shows(Answer!Unavailable)  BY Statuses DEF Shows
<1>2. CASE H = {}  BY <1>1, <1>2 DEF Answer!Continuous
<1>3. CASE H # {}
    <2>1. H \subseteq C  BY DEF Answer!AnchorHome
    <2>2. C \subseteq Segment
        <3>1. Buffered(Answer!Selected(cSegments, cRequest), cEdge)
            BY SelectedBuffered DEF CoverageInv
        <3>. QED  BY <3>1, ComponentsAreRuns DEF CoverageInv, RunsOf, Pieces
    <2>3. home \in H
        <3>. HIDE DEF H, C
        <3>. QED  BY <1>3, <2>1, <2>2, FirstIs
    <2>4. Shows(Answer!Degraded(home, r))  BY <2>3, DegradedShows
    <2>5. \/ d \in {Answer!Waiting, Answer!Unavailable, Answer!Degraded(home, r)}
          \/ /\ d = Answer!Decision("full", r.from, r.to, FALSE)
             /\ home.start <= r.from + Answer!EdgeTolerance
             /\ home.end >= r.to - Answer!EdgeTolerance
        BY <1>3 DEF Answer!Continuous
    <2>6. ASSUME home.start <= r.from + Answer!EdgeTolerance,
            home.end >= r.to - Answer!EdgeTolerance,
                 NEW q \in (r.from + Answer!EdgeTolerance)..(r.to - Answer!EdgeTolerance - 1)
          PROVE  Answer!Shown(q)
        <3>1. home.start \in Nat /\ home.end \in Nat  BY <2>1, <2>2, <2>3 DEF Segment
        <3>2. q \in Nat /\ home.start <= q /\ q < home.end
            BY <2>6, <3>1 DEF CoverageInv, RequestOK, Answer!EdgeTolerance
        <3>. QED  BY <2>1, <2>3, <3>2, ComponentAllShown
    <2>7. \E q \in AroundAnchor : Answer!Shown(q)
        BY <2>3, HomeShown
    <2>8. ASSUME d = Answer!Decision("full", r.from, r.to, FALSE),
                 home.start <= r.from + Answer!EdgeTolerance,
                         home.end >= r.to - Answer!EdgeTolerance
          PROVE  Shows(d)
        <3>. HIDE DEF d, home
        <3>1. d.status = "full"  BY <2>8 DEF Answer!Decision
        <3>. QED  BY <2>6, <2>7, <2>8, <3>1 DEF Shows
    <2>. QED  BY <1>1, <2>4, <2>5, <2>8
<1>. QED  BY <1>2, <1>3

LEMMA TrueAnswer == ASSUME CoverageInv PROVE Answer!AnswerIsTrue
<1>. DEFINE C == Pieces(cSegments)
<1>1. Shows(Answer!Waiting) /\ Shows(Answer!Unavailable)  BY Statuses DEF Shows
<1>2. CASE C = {}
    <2>1. Answer!Now \in {Answer!Waiting, Answer!Unavailable}
        BY <1>2 DEF Answer!Now, Answer!Coverage, Pieces
    <2>2. Shows(Answer!Now)  BY <1>1, <2>1
    <2>. QED  BY <2>2, WaitsForTail DEF Answer!AnswerIsTrue, Shows, AroundAnchor
<1>3. CASE C # {} /\ cRequest.stitch /\ cRequest.allow
    <2>1. Answer!Now = Answer!Stitched(cSegments, C, cRequest)
        BY <1>3 DEF Answer!Now, Answer!Coverage, Pieces
    <2>2. Shows(Answer!Now)  BY <1>3, <2>1, StitchedShows
    <2>. QED  BY <2>2, WaitsForTail DEF Answer!AnswerIsTrue, Shows, AroundAnchor
<1>4. CASE C # {} /\ ~(cRequest.stitch /\ cRequest.allow)
    <2>1. Answer!Now = Answer!Continuous(cSegments, C, cRequest)
        BY <1>4 DEF Answer!Now, Answer!Coverage, Pieces
    <2>2. Shows(Answer!Now)  BY <1>4, <2>1, ContinuousShows
    <2>. QED  BY <2>2, WaitsForTail DEF Answer!AnswerIsTrue, Shows, AroundAnchor
<1>. QED  BY <1>2, <1>3, <1>4

-----------------------------------------------------------------------------
(* A segment arrives *)

\* The heads with one more segment after all others.
LEMMA HeadsGrow ==
    ASSUME NEW S, NEW e \in Nat, Buffered(S, e), S # {},
           NEW n \in Segment, e <= n.start, n.start < n.end
    PROVE  LET T == S \cup {n} IN
           /\ Buffered(T, n.end)
           /\ \A s \in S : s.start < n.start
           /\ Answer!Heads(S) \subseteq Answer!Heads(T) /\
                   Answer!Heads(T) \subseteq Answer!Heads(S) \cup {n.start}
           /\ n.start \in Answer!Heads(T) <=> n.start - Answer!LatestEnd(S) > Answer!GapTolerance
<1>. DEFINE T == S \cup {n}
<1>0. n.start \in Nat /\ n.end \in Nat  BY DEF Segment
<1>1. \A s \in S : s.start \in Nat /\ s.end \in Nat /\ s.start < s.end /\ s.end <= n.start
    BY <1>0 DEF Buffered, Segment
<1>2. Buffered(T, n.end)
    <2>1. T \subseteq Segment  BY DEF Buffered
    <2>2. \A s \in T : s.start < s.end /\ s.end <= n.end  BY <1>0, <1>1
    <2>3. \A s, t \in T : s = t \/ s.end <= t.start \/ t.end <= s.start
        BY <1>1 DEF Buffered
    <2>. QED  BY <2>1, <2>2, <2>3 DEF Buffered
<1>3. \A s \in S : s.start < n.start  BY <1>0, <1>1
<1>4. Answer!Heads(S) \subseteq Answer!Heads(T)
    <2>1. SUFFICES ASSUME NEW h \in Answer!Heads(S) PROVE h \in Answer!Heads(T)  OBVIOUS
    <2>2. PICK x \in S : h = x.start  BY DEF Answer!Heads
    <2>3. ~(n.start < h)  BY <1>0, <1>1, <2>2
    <2>. QED  BY <2>2, <2>3 DEF Answer!Heads
<1>5. Answer!Heads(T) \subseteq Answer!Heads(S) \cup {n.start}  BY DEF Answer!Heads
<1>6. n.start \in Answer!Heads(T) <=> n.start - Answer!LatestEnd(S) > Answer!GapTolerance
    <2>1. n.start \in Answer!Heads(T) <=> \A s \in S : n.start - s.end > Answer!GapTolerance
        BY <1>0, <1>3 DEF Answer!Heads
    <2>2. Answer!LatestEnd(S) \in Nat /\ (\E s \in S : s.end = Answer!LatestEnd(S))
          /\ \A s \in S : s.end <= Answer!LatestEnd(S)
        BY LatestEndIs
    <2>. QED  BY <1>0, <1>1, <2>1, <2>2 DEF Answer!GapTolerance
<1>. QED  BY <1>2, <1>3, <1>4, <1>5, <1>6

\* A new segment is a component of its own, or makes the last one longer.
LEMMA ComponentsGrow ==
    ASSUME NEW S, NEW e \in Nat, Buffered(S, e), S # {},
           NEW n \in Segment, e <= n.start, n.start < n.end
    PROVE  LET C == Answer!Components(S)
               D == Answer!Components(S \cup {n})
               l == Answer!Last(C)
           IN /\ n.start - l.end > Answer!GapTolerance => D = C \cup {n}
              /\ ~(n.start - l.end > Answer!GapTolerance) =>
                    D = (C \ {l}) \cup {[start |-> l.start, end |-> n.end]}
<1>. DEFINE T == S \cup {n}
            C == Answer!Components(S)
            D == Answer!Components(T)
            l == Answer!Last(C)
            joined == [start |-> l.start, end |-> n.end]
<1>0. n.start \in Nat /\ n.end \in Nat /\ n = [start |-> n.start, end |-> n.end]  BY DEF Segment
<1>1. /\ Buffered(T, n.end)
      /\ \A s \in S : s.start < n.start
      /\ Answer!Heads(S) \subseteq Answer!Heads(T) /\
              Answer!Heads(T) \subseteq Answer!Heads(S) \cup {n.start}
      /\ n.start \in Answer!Heads(T) <=> n.start - Answer!LatestEnd(S) > Answer!GapTolerance
    BY HeadsGrow
<1>2. RunsOf(C, S) /\ l \in C /\ (\A d \in C : d.start <= l.start) /\ l.end = Answer!LatestEnd(S)
    BY SelectedRuns
<1>3. \A s \in S : s.start \in Nat /\ s.end \in Nat /\ s.end <= n.start
    BY <1>0 DEF Buffered, Segment
<1>4. Answer!Heads(S) \subseteq Nat /\ Answer!Heads(T) \subseteq Nat /\
        n.start \notin Answer!Heads(S)
    BY <1>0, <1>1, <1>3 DEF Answer!Heads
<1>5. \A h \in Answer!Heads(S) : Answer!Component(S, h) \in C /\ Answer!Component(S, h).start = h
    BY ComponentIs DEF Answer!Components
<1>6. l.start \in Answer!Heads(S) /\ l = Answer!Component(S, l.start)
    <2>1. PICK h \in Answer!Heads(S) : l = Answer!Component(S, h)  BY <1>2 DEF Answer!Components
    <2>. QED  BY <1>5, <2>1
<1>7. \A h \in Answer!Heads(S) : h <= l.start /\ h < n.start
    BY <1>1, <1>2, <1>5 DEF Answer!Heads
    \* The members of a component that ends before the new segment, or far from it.
<1>8. ASSUME NEW h \in Answer!Heads(S), h # l.start \/ n.start \in Answer!Heads(T)
      PROVE  Answer!Component(T, h) = Answer!Component(S, h)
    <2>1. n \notin Members(T, h)
        <3>1. CASE h # l.start
            <4>0. l.start \in Answer!Heads(T)  BY <1>1, <1>6
            <4>1. l.start > h /\ ~(n.start < l.start)
                <5>. HIDE DEF l
                <5>. QED  BY <1>0, <1>4, <1>6, <1>7, <3>1
            <4>. QED  BY <4>0, <4>1 DEF Members
        <3>2. CASE n.start \in Answer!Heads(T)
            <4>1. n.start > h /\ ~(n.start < n.start)  BY <1>0, <1>4, <1>7
            <4>. QED  BY <3>2, <4>1 DEF Members
        <3>. QED  BY <1>8, <3>1, <3>2
    <2>2. Members(T, h) = Members(S, h)
        BY <1>1, <2>1 DEF Members
    <2>. QED  BY <2>2 DEF Answer!Component, Members
<1>9. CASE n.start - l.end > Answer!GapTolerance
    <2>1. n.start \in Answer!Heads(T) /\ Answer!Heads(T) = Answer!Heads(S) \cup {n.start}
        BY <1>1, <1>2, <1>9
    <2>2. Answer!Component(T, n.start) = n
        <3>1. Members(T, n.start) = {n}
            <4>1. \A s \in S : ~(s.start >= n.start)  BY <1>0, <1>1, <1>3
            <4>2. \A g \in Answer!Heads(T) : ~(g > n.start)  BY <1>0, <1>4, <1>7, <2>1
            <4>3. n.start >= n.start  BY <1>0
            <4>. QED  BY <4>1, <4>2, <4>3 DEF Members
        <3>2. /\ Answer!Component(T, n.start) \in Segment /\
                Answer!Component(T, n.start).start = n.start
              /\ \E s \in Members(T, n.start) : s.end = Answer!Component(T, n.start).end
            BY <1>0, <1>1, <2>1, ComponentIs
        <3>3. Answer!Component(T, n.start).end = n.end  BY <3>1, <3>2
        <3>. QED  BY <1>0, <3>2, <3>3 DEF Segment
    <2>3. D = {Answer!Component(S, h) : h \in Answer!Heads(S)} \cup {n}
        BY <1>8, <2>1, <2>2 DEF Answer!Components
    <2>. QED  BY <1>9, <2>3 DEF Answer!Components
<1>10. CASE ~(n.start - l.end > Answer!GapTolerance)
    <2>1. Answer!Heads(T) = Answer!Heads(S) /\ n.start \notin Answer!Heads(T)
        BY <1>1, <1>2, <1>10
    <2>2. Answer!Component(T, l.start) = joined
        <3>1. n \in Members(T, l.start)
            <4>1. n.start >= l.start  BY <1>0, <1>4, <1>6, <1>7
            <4>2. \A g \in Answer!Heads(T) : ~(g > l.start)  BY <1>4, <1>6, <1>7, <2>1
            <4>. QED  BY <4>1, <4>2 DEF Members
        <3>2. l.start \in Answer!Heads(T)  BY <1>6, <2>1
        <3>3. /\ Answer!Component(T, l.start).start = l.start /\
                Answer!Component(T, l.start) \in Segment
              /\ \E s \in Members(T, l.start) : s.end = Answer!Component(T, l.start).end
              /\ n.end <= Answer!Component(T, l.start).end
            BY <1>0, <1>1, <3>1, <3>2, ComponentIs
        <3>4. Answer!Component(T, l.start).end <= n.end
            BY <1>1, <3>3 DEF Members, Buffered
        <3>5. Answer!Component(T, l.start).end = n.end  BY <1>0, <3>3, <3>4 DEF Segment
        <3>. QED  BY <3>3, <3>5 DEF Segment
    <2>3. D \subseteq (C \ {l}) \cup {joined}
        <3>1. SUFFICES ASSUME NEW h \in Answer!Heads(S)
                PROVE Answer!Component(T, h) \in (C \ {l}) \cup {joined}
            BY <2>1 DEF Answer!Components
        <3>2. CASE h = l.start  BY <2>2, <3>2
        <3>3. CASE h # l.start  BY <1>5, <1>8, <3>3
        <3>. QED  BY <3>2, <3>3
    <2>4. (C \ {l}) \cup {joined} \subseteq D
        <3>1. joined \in D  BY <1>6, <2>1, <2>2 DEF Answer!Components
        <3>2. SUFFICES ASSUME NEW h \in Answer!Heads(S), Answer!Component(S, h) # l
                       PROVE  Answer!Component(S, h) \in D
            BY <3>1 DEF Answer!Components
        <3>3. Answer!Component(T, h) = Answer!Component(S, h)  BY <1>6, <1>8, <3>2
        <3>. QED  BY <2>1, <3>3 DEF Answer!Components
    <2>. QED  BY <1>10, <2>3, <2>4
<1>. QED  BY <1>9, <1>10

LEMMA RunsApart ==
    ASSUME NEW C, NEW S, RunsOf(C, S)
    PROVE  C \subseteq Segment /\ \A c, d \in C : c.start = d.start => c = d
<1>1. C \subseteq Segment  BY DEF RunsOf
<1>2. ASSUME NEW c \in C, NEW d \in C, c.start = d.start PROVE c = d
    <2>1. c.start < c.end /\ d.start < d.end  BY DEF RunsOf
    <2>2. c.start \in Nat /\ c.end \in Nat /\ d.start \in Nat /\ d.end \in Nat
        BY <1>1 DEF Segment
    <2>3. c = d \/ c.end + Answer!GapTolerance < d.start \/ d.end + Answer!GapTolerance < c.start
        BY DEF RunsOf
    <2>. QED  BY <1>2, <2>1, <2>2, <2>3 DEF Answer!GapTolerance
<1>. QED  BY <1>1, <1>2

\* The gap before the component that starts at x.
Below(C, x) == {d \in C : d.start < x}
GapBefore(C, x) == [start |-> Answer!Max({d.end : d \in Below(C, x)}), end |-> x]

LEMMA GapsAre ==
    ASSUME NEW C, C \subseteq Segment, \A c, d \in C : c.start = d.start => c = d
    PROVE  Answer!Gaps(C) = {GapBefore(C, c.start) : c \in {d \in C : Below(C, d.start) # {}}}
<1>1. CASE C = {}  BY <1>1 DEF Answer!Gaps
<1>2. CASE C # {}
    <2>1. Answer!First(C) \in C /\ \A d \in C : Answer!First(C).start <= d.start
        BY <1>2, FirstIs
    <2>2. \A c \in C : c # Answer!First(C) <=> Below(C, c.start) # {}
        BY <2>1 DEF Below, Segment
    <2>3. C \ {Answer!First(C)} = {d \in C : Below(C, d.start) # {}}  BY <2>2
    <2>. QED  BY <2>3 DEF Answer!Gaps, GapBefore, Below
<1>. QED  BY <1>1, <1>2

\* No gap is filled later; one that is added is the silence before the new segment.
LEMMA GapsGrow ==
    ASSUME NEW S, NEW e \in Nat, Buffered(S, e), S # {},
           NEW n \in Segment, e <= n.start, n.start < n.end
    PROVE  LET C == Answer!Components(S)
               D == Answer!Components(S \cup {n})
           IN /\ Answer!Gaps(C) \subseteq Answer!Gaps(D)
              /\ ~(n.start - Answer!Last(C).end > Answer!GapTolerance) =>
                      Answer!Gaps(D) \subseteq Answer!Gaps(C)
<1>. DEFINE T == S \cup {n}
            C == Answer!Components(S)
            D == Answer!Components(T)
            l == Answer!Last(C)
            joined == [start |-> l.start, end |-> n.end]
<1>0. n.start \in Nat /\ n.end \in Nat  BY DEF Segment
<1>1. RunsOf(C, S) /\ l \in C /\ \A d \in C : d.start <= l.start
    BY SelectedRuns
<1>2. RunsOf(D, T)
    BY <1>0, HeadsGrow, ComponentsAreRuns
<1>3. /\ C \subseteq Segment /\ \A c, d \in C : c.start = d.start => c = d
      /\ D \subseteq Segment /\ \A c, d \in D : c.start = d.start => c = d
    BY <1>1, <1>2, RunsApart
<1>4. /\ Answer!Gaps(C) = {GapBefore(C, c.start) : c \in {d \in C : Below(C, d.start) # {}}}
      /\ Answer!Gaps(D) = {GapBefore(D, c.start) : c \in {d \in D : Below(D, d.start) # {}}}
    <2>. HIDE DEF C, D
    <2>. QED  BY <1>3, GapsAre
<1>5. \/ D = C \cup {n}
      \/ D = (C \ {l}) \cup {joined}
    BY ComponentsGrow
<1>6. ~(n.start - l.end > Answer!GapTolerance) => D = (C \ {l}) \cup {joined}
    BY ComponentsGrow
<1>7. \A c \in C : c.start < n.start
    <2>1. \A s \in S : s.start < n.start  BY HeadsGrow
    <2>2. \A c \in C : \E s \in S : s.start = c.start  BY <1>1 DEF RunsOf
    <2>. QED  BY <2>1, <2>2
<1>8. \A c \in C : c.start \in Nat /\ c.start <= l.start  BY <1>1, <1>3 DEF Segment
<1>9. \A c \in C : (\E d \in D : d.start = c.start) /\ Below(D, c.start) = Below(C, c.start)
    <2>1. TAKE c \in C
    <2>2. c.start \in Nat /\ l.start \in Nat /\ c.start <= l.start /\ c.start < n.start
        BY <1>1, <1>7, <1>8
    <2>. HIDE DEF C, D, l
    <2>3. ~(n.start < c.start) /\ ~(l.start < c.start)  BY <1>0, <2>2
    <2>4. joined.start = l.start  OBVIOUS
    <2>. HIDE DEF joined
    <2>5. CASE D = C \cup {n}  BY <2>3, <2>5 DEF Below
    <2>6. CASE D = (C \ {l}) \cup {joined}
        <3>1. \E d \in D : d.start = c.start  BY <2>4, <2>6
        <3>2. Below(D, c.start) = Below(C, c.start)  BY <2>3, <2>4, <2>6 DEF Below
        <3>. QED  BY <3>1, <3>2
    <2>. QED  BY <1>5, <2>5, <2>6
<1>10. Answer!Gaps(C) \subseteq Answer!Gaps(D)
    <2>. HIDE DEF C, D
    <2>. QED  BY <1>4, <1>9 DEF GapBefore
<1>11. ASSUME D = (C \ {l}) \cup {joined} PROVE Answer!Gaps(D) \subseteq Answer!Gaps(C)
    <2>. HIDE DEF C, D, l
    <2>1. \A d \in D : \E c \in C : d.start = c.start  BY <1>1, <1>11
    <2>2. SUFFICES ASSUME NEW d \in D, Below(D, d.start) # {}
                   PROVE  GapBefore(D, d.start) \in Answer!Gaps(C)
        BY <1>4
    <2>3. PICK c \in C : d.start = c.start  BY <2>1
    <2>4. Below(C, c.start) = Below(D, d.start)  BY <1>9, <2>3
    <2>5. GapBefore(C, c.start) \in Answer!Gaps(C)  BY <1>4, <2>2, <2>4
    <2>. QED  BY <2>3, <2>4, <2>5 DEF GapBefore
<1>. QED  BY <1>6, <1>10, <1>11

-----------------------------------------------------------------------------
(* What is lost *)

LostStatus == {"unavailable", "short"}

\* A further segment that the window does not select changes no answer that is lost.
LEMMA LostBeside ==
    ASSUME CoverageInv, ~cRequest.force, NEW S, NEW T, S # {}, T # {},
           Answer!LatestEnd(S) \in Nat, Answer!LatestEnd(T) \in Nat,
                   Answer!LatestEnd(S) <= Answer!LatestEnd(T),
           Pieces(S) = Pieces(T), Answer!Coverage(S, cRequest).status \in LostStatus
    PROVE  Answer!Coverage(T, cRequest).status \in LostStatus
<1>. DEFINE C == Pieces(S)
            r == cRequest
<1>1. Answer!TailMissing(T, r) => Answer!TailMissing(S, r)
    BY DEF Answer!TailMissing, CoverageInv, RequestOK, Answer!EdgeTolerance
<1>2. Answer!LatestEnd(T) < r.anchor - Answer!EdgeTolerance =>
        Answer!LatestEnd(S) < r.anchor - Answer!EdgeTolerance
    BY DEF CoverageInv, RequestOK, Answer!EdgeTolerance
<1>3. Answer!Coverage(S, r) # Answer!Waiting  BY Statuses DEF LostStatus
<1>. HIDE DEF r
<1>4. CASE C = {}
    BY <1>1, <1>3, <1>4, Statuses DEF Answer!Coverage, Pieces, LostStatus, r
<1>5. CASE C # {} /\ r.stitch /\ r.allow
    <2>1. Answer!Coverage(S, r) = Answer!Stitched(S, C, r) /\
            Answer!Coverage(T, r) = Answer!Stitched(T, C, r)
        BY <1>5 DEF Answer!Coverage, Pieces, r
    <2>. HIDE DEF C
    <2>2. Answer!Stitched(T, C, r) = Answer!Stitched(S, C, r)
        BY <1>1, <1>2, <1>3, <2>1 DEF Answer!Stitched
    <2>. QED  BY <2>1, <2>2 DEF r
<1>6. CASE C # {} /\ ~(r.stitch /\ r.allow)
    <2>1. Answer!Coverage(S, r) = Answer!Continuous(S, C, r) /\
            Answer!Coverage(T, r) = Answer!Continuous(T, C, r)
        BY <1>6 DEF Answer!Coverage, Pieces, r
    <2>. HIDE DEF C
    <2>2. Answer!Continuous(T, C, r) = Answer!Continuous(S, C, r)
        BY <1>1, <1>2, <1>3, <2>1 DEF Answer!Continuous, r
    <2>. QED  BY <2>1, <2>2 DEF r
<1>. QED  BY <1>4, <1>5, <1>6

\* How a clip from the last quarter of the window alone is called.
LEMMA LostAtTheEnd ==
    ASSUME CoverageInv, MinDegraded \in Nat, MinDegraded > 1, ~cRequest.force,
           NEW T, NEW n \in Segment, T # {}, Answer!LatestEnd(T) \in Nat,
                   Answer!LatestEnd(T) >= cRequest.to,
           Pieces(T) = {n}, n.start = cRequest.to - Answer!EdgeTolerance, n.end >= cRequest.to
    PROVE  Answer!Coverage(T, cRequest).status \in LostStatus
<1>. DEFINE r == cRequest
            C == {n}
            H == Answer!AnchorHome(C, r)
<1>0. r.from \in Nat /\ r.to \in Nat /\ r.anchor \in Nat /\ r.anchor <= r.to
      /\ r.from + 2 * Answer!EdgeTolerance < r.to /\ n.start \in Nat /\ n.end \in Nat
    BY DEF CoverageInv, RequestOK, Segment
<1>1. /\ ~(Answer!LatestEnd(T) < r.anchor - Answer!EdgeTolerance)
      /\ ~(n.start <= r.from + Answer!EdgeTolerance)
      /\ n.end >= r.to - Answer!EdgeTolerance
    BY <1>0 DEF Answer!EdgeTolerance
<1>2. Answer!First(C) = n /\ Answer!Last(C) = n
    BY <1>0 DEF Answer!First, Answer!Last
<1>3. Answer!Footage(C, r) < MinDegraded
    <2>. DEFINE Q == {q \in r.from..(r.to - 1) : \E c \in C : c.start <= q /\ q < c.end}
    <2>1. Q \subseteq {r.to - 1}  BY <1>0 DEF Answer!EdgeTolerance
    <2>. HIDE DEF Q
    <2>2. Cardinality({r.to - 1}) = 1 /\ IsFiniteSet({r.to - 1})  BY FS_Singleton
    <2>3. Cardinality(Q) <= 1 /\ IsFiniteSet(Q)
        BY <2>1, <2>2, FS_Subset
    <2>4. Cardinality(Q) \in Nat  BY <2>3, FS_CardinalityType
    <2>5. Answer!Footage(C, r) = Cardinality(Q)
        BY DEF Answer!Footage, Answer!Cardinality, Cardinality, Q
    <2>. QED  BY <2>3, <2>4, <2>5
<1>4. CASE r.stitch /\ r.allow
    <2>1. Answer!Coverage(T, r) = Answer!Stitched(T, C, r)  BY <1>4 DEF Answer!Coverage, Pieces
    <2>. HIDE DEF C, r
    <2>2. Answer!Stitched(T, C, r) \in {Answer!Unavailable, Answer!TooShort}
        BY <1>1, <1>2, <1>3 DEF Answer!Stitched
    <2>. QED  BY <2>1, <2>2, Statuses DEF LostStatus, r
<1>5. CASE ~(r.stitch /\ r.allow)
    <2>1. Answer!Coverage(T, r) = Answer!Continuous(T, C, r)
        BY <1>5 DEF Answer!Coverage, Pieces
    <2>2. H # {} => Answer!First(H) = n
        <3>1. H # {} => H = {n}  BY DEF Answer!AnchorHome
        <3>. QED  BY <1>2, <3>1
    <2>3. Answer!Degraded(n, r) = Answer!TooShort
        <3>1. Answer!Later(r.from, n.start) = n.start
            BY <1>0, <1>1, LaterIs DEF Answer!EdgeTolerance
        <3>2. Answer!Earlier(r.to, n.end) = r.to  BY <1>0, EarlierIs
        <3>3. r.to - n.start < MinDegraded  BY <1>0 DEF Answer!EdgeTolerance
        <3>. QED  BY <3>1, <3>2, <3>3 DEF Answer!Degraded
    <2>. HIDE DEF C, r, H
    <2>4. Answer!Continuous(T, C, r) \in {Answer!Unavailable, Answer!TooShort}
        BY <1>1, <2>2, <2>3 DEF Answer!Continuous, H, r
    <2>. QED  BY <2>1, <2>4, Statuses DEF LostStatus, r
<1>. QED  BY <1>4, <1>5

\* A segment that arrives at the live edge, and the window selects it.
Arrives(n) ==
    /\ n \in Segment /\ cEdge <= n.start /\ n.start < n.end
    /\ Answer!Selected(cSegments, cRequest) # {}
    /\ n \in Answer!Selected(cSegments \cup {n}, cRequest)

LEMMA ArrivalIs ==
    ASSUME CoverageInv, NEW n, Arrives(n)
    PROVE  LET S == cSegments
               T == cSegments \cup {n}
               C == Pieces(S)
               D == Pieces(T)
               l == Answer!Last(C)
           IN /\ n.start \in Nat /\ n.end \in Nat /\ n.start < cRequest.to
              /\ Answer!LatestEnd(S) \in Nat /\ Answer!LatestEnd(S) <= n.start /\
                      Answer!LatestEnd(T) = n.end
              /\ C # {} /\ C \subseteq Segment /\ l \in C /\ l.end = Answer!LatestEnd(S)
              /\ (\A c \in C : c.start <= l.start /\ c.start < n.start)
              /\ (\A c, d \in C : c.start = d.start => c = d)
              /\ D # {} /\ D \subseteq Segment /\ Answer!Last(D) \in D /\ Answer!Last(D).end = n.end
              /\ (\A d \in D : d.start <= Answer!Last(D).start /\ d.start < n.end)
              /\ (\A c, d \in D : c.start = d.start => c = d)
              /\ Answer!Gaps(C) \subseteq Answer!Gaps(D)
              /\ ~(n.start - l.end > Answer!GapTolerance) => Answer!Gaps(D) \subseteq Answer!Gaps(C)
              /\ \/ n.start - l.end > Answer!GapTolerance /\ D = C \cup {n}
                 \/ D = (C \ {l}) \cup {[start |-> l.start, end |-> n.end]}
<1>. DEFINE S == cSegments
            T == cSegments \cup {n}
            A == Answer!Selected(S, cRequest)
            B == Answer!Selected(T, cRequest)
<1>0. n \in Segment /\ n.start \in Nat /\ n.end \in Nat /\ cEdge \in Nat /\ n.start < n.end
      /\ cEdge <= n.start /\ A # {}
    BY DEF Arrives, Segment, CoverageInv
<1>1. Buffered(S, cEdge) /\ Buffered(A, cEdge)
    BY SelectedBuffered DEF CoverageInv
<1>2. S # {}  BY <1>0 DEF Answer!Selected
<1>3. B = A \cup {n} /\ n.start < cRequest.to
    BY DEF Answer!Selected, Arrives
<1>4. Buffered(T, n.end)
    <2>. HIDE DEF S, T
    <2>. QED  BY <1>0, <1>1, <1>2, HeadsGrow DEF T, S
<1>5. Answer!LatestEnd(S) \in Nat /\ (\E s \in S : s.end = Answer!LatestEnd(S))
      /\ \A s \in S : s.end <= Answer!LatestEnd(S)
    BY <1>0, <1>1, <1>2, LatestEndIs
<1>6. Answer!LatestEnd(S) <= n.start  BY <1>0, <1>1, <1>5 DEF Buffered
<1>7. Answer!LatestEnd(T) \in Nat /\ (\E s \in T : s.end = Answer!LatestEnd(T))
      /\ \A s \in T : s.end <= Answer!LatestEnd(T)
    <2>1. T # {}  OBVIOUS
    <2>. HIDE DEF T
    <2>. QED  BY <1>0, <1>4, <2>1, LatestEndIs
<1>8. Answer!LatestEnd(T) = n.end
    <2>1. n.end <= Answer!LatestEnd(T)  BY <1>7
    <2>2. Answer!LatestEnd(T) <= n.end  BY <1>4, <1>7 DEF Buffered
    <2>. QED  BY <1>0, <1>7, <2>1, <2>2
<1>9. Buffered(B, n.end) /\ B # {}  BY <1>3, <1>4, SelectedBuffered
<1>. HIDE DEF A, B
<1>. DEFINE C == Answer!Components(A)
            D == Answer!Components(B)
            l == Answer!Last(C)
<1>10. RunsOf(C, A) /\ C # {} /\ l \in C /\ (\A c \in C : c.start <= l.start)
       /\ l.end = Answer!LatestEnd(A)
    BY <1>0, <1>1, SelectedRuns
<1>11. RunsOf(D, B) /\ D # {} /\ Answer!Last(D) \in D /\
        (\A d \in D : d.start <= Answer!Last(D).start)
       /\ Answer!Last(D).end = Answer!LatestEnd(B)
    BY <1>0, <1>9, SelectedRuns
<1>12. Answer!LatestEnd(A) \in Nat /\ (\E s \in A : s.end = Answer!LatestEnd(A))
       /\ \A s \in A : s.end <= Answer!LatestEnd(A)
    BY <1>0, <1>1, LatestEndIs
<1>13. Answer!LatestEnd(A) = Answer!LatestEnd(S)
    <2>1. A \subseteq S  BY DEF A, Answer!Selected
    <2>2. \A s \in S : s \in A \/ s.end <= cRequest.from \/ cRequest.to <= s.start
        BY DEF A, Answer!Selected, CoverageInv, RequestOK, Buffered, Segment
    <2>3. \A s \in S : s.start \in Nat /\ s.end \in Nat /\ s.start < s.end /\ s.end <= n.start
        BY <1>0, <1>1 DEF Buffered, Segment
    <2>4. \A s \in A : s.end > cRequest.from  BY DEF A, Answer!Selected
    <2>5. cRequest.from \in Nat /\ cRequest.to \in Nat  BY DEF CoverageInv, RequestOK
    <2>6. \A s \in S : s.end <= Answer!LatestEnd(A)
        <3>1. TAKE s \in S
        <3>2. ~(cRequest.to <= s.start)  BY <1>0, <1>3, <2>3, <2>5
        <3>3. PICK x \in A : x.end = Answer!LatestEnd(A)  BY <1>12
        <3>4. x.end > cRequest.from  BY <2>4, <3>3
        <3>. QED  BY <1>12, <2>2, <2>3, <2>5, <3>2, <3>3, <3>4
    <2>. QED  BY <1>5, <1>12, <2>1, <2>6
<1>14. Answer!LatestEnd(B) = n.end
    <2>1. Answer!LatestEnd(B) \in Nat /\ (\E s \in B : s.end = Answer!LatestEnd(B))
          /\ \A s \in B : s.end <= Answer!LatestEnd(B)
        BY <1>0, <1>9, LatestEndIs
    <2>2. n \in B  BY <1>3
    <2>3. Answer!LatestEnd(B) <= n.end  BY <1>9, <2>1 DEF Buffered
    <2>. QED  BY <1>0, <2>1, <2>2, <2>3
<1>15. \A c \in C : c.start < n.start
    <2>1. \A s \in A : s.start < n.start  BY <1>0, <1>1 DEF Buffered, Segment
    <2>. QED  BY <1>10, <2>1 DEF RunsOf
<1>16. \A d \in D : d.start < n.end
    <2>1. \A s \in B : s.start < n.end  BY <1>0, <1>9 DEF Buffered, Segment
    <2>. QED  BY <1>11, <2>1 DEF RunsOf
<1>17. C \subseteq Segment /\ D \subseteq Segment
       /\ (\A c, d \in C : c.start = d.start => c = d)
       /\ (\A c, d \in D : c.start = d.start => c = d)
    <2>. HIDE DEF C, D
    <2>. QED  BY <1>10, <1>11, RunsApart
<1>18. /\ Answer!Gaps(C) \subseteq Answer!Gaps(D)
       /\ ~(n.start - l.end > Answer!GapTolerance) => Answer!Gaps(D) \subseteq Answer!Gaps(C)
    BY <1>0, <1>1, <1>3, GapsGrow
<1>19. \/ n.start - l.end > Answer!GapTolerance /\ D = C \cup {n}
       \/ D = (C \ {l}) \cup {[start |-> l.start, end |-> n.end]}
    BY <1>0, <1>1, <1>3, ComponentsGrow
<1>20. Pieces(S) = C /\ Pieces(T) = D  BY DEF Pieces, A, B
<1>. HIDE DEF C, D, S, T
<1>21. /\ n.start \in Nat /\ n.end \in Nat /\ n.start < cRequest.to
       /\ Answer!LatestEnd(S) \in Nat /\ Answer!LatestEnd(S) <= n.start /\
               Answer!LatestEnd(T) = n.end
    BY <1>0, <1>3, <1>5, <1>6, <1>8
<1>22. /\ C # {} /\ C \subseteq Segment /\ l \in C /\ l.end = Answer!LatestEnd(S)
       /\ \A c \in C : c.start <= l.start /\ c.start < n.start
       /\ \A c, d \in C : c.start = d.start => c = d
    BY <1>10, <1>13, <1>15, <1>17
<1>23. /\ D # {} /\ D \subseteq Segment /\ Answer!Last(D) \in D /\ Answer!Last(D).end = n.end
       /\ \A d \in D : d.start <= Answer!Last(D).start /\ d.start < n.end
       /\ \A c, d \in D : c.start = d.start => c = d
    BY <1>11, <1>14, <1>16, <1>17
<1>. HIDE DEF l
<1>. QED
    BY <1>18, <1>19, <1>20, <1>21, <1>22, <1>23 DEF S, T, l

\* An anchor without a component stays without one.
LEMMA HomelessStays ==
    ASSUME CoverageInv, NEW n, Arrives(n),
           Answer!AnchorHome(Pieces(cSegments), cRequest) = {},
           ~(Answer!LatestEnd(cSegments) < cRequest.anchor - Answer!EdgeTolerance)
    PROVE  Answer!AnchorHome(Pieces(cSegments \cup {n}), cRequest) = {}
<1>. DEFINE T == cSegments \cup {n}
            r == cRequest
            C == Pieces(cSegments)
            D == Pieces(T)
            l == Answer!Last(C)
            joined == [start |-> l.start, end |-> n.end]
            Near(c) == c.start - Answer!EdgeTolerance <= r.anchor /\
                    r.anchor <= c.end + Answer!EdgeTolerance
<1>1. /\ n.start \in Nat /\ Answer!LatestEnd(cSegments) \in Nat
      /\ C \subseteq Segment /\ l \in C /\ l.end = Answer!LatestEnd(cSegments)
      /\ Answer!Gaps(C) \subseteq Answer!Gaps(D)
      /\ \/ n.start - l.end > Answer!GapTolerance /\ D = C \cup {n}
         \/ D = (C \ {l}) \cup {joined}
    BY ArrivalIs
<1>2. r.anchor \in Nat  BY DEF CoverageInv, RequestOK
<1>3. l.start \in Nat /\ l.end \in Nat /\ r.anchor <= l.end + Answer!EdgeTolerance
    BY <1>1, <1>2 DEF Segment, Answer!EdgeTolerance
<1>. HIDE DEF C, D, l, r
<1>4. CASE Answer!AnchorGap(C, r) # {}
    <2>1. Answer!AnchorGap(D, r) # {}  BY <1>1, <1>4 DEF Answer!AnchorGap
    <2>. QED  BY <2>1 DEF Answer!AnchorHome, D, r
<1>5. CASE Answer!AnchorGap(C, r) = {}
    <2>1. \A c \in C : ~Near(c)  BY <1>5 DEF Answer!AnchorHome, C, r
    <2>2. ~Near(joined)  BY <1>1, <1>3, <2>1
    <2>3. n.start - l.end > Answer!GapTolerance => ~Near(n)
        BY <1>1, <1>2, <1>3 DEF Answer!GapTolerance, Answer!EdgeTolerance
    <2>. HIDE DEF joined
    <2>4. \A d \in D : ~Near(d)  BY <1>1, <2>1, <2>2, <2>3
    <2>. QED  BY <2>4 DEF Answer!AnchorHome, D, r
<1>. QED  BY <1>4, <1>5

LEMMA StitchedLost ==
    ASSUME CoverageInv, ~cRequest.force, NEW n, Arrives(n),
           Answer!Stitched(cSegments, Pieces(cSegments), cRequest) = Answer!Unavailable
    PROVE  Answer!Stitched(cSegments \cup {n}, Pieces(cSegments \cup {n}),
            cRequest) = Answer!Unavailable
<1>. DEFINE S == cSegments
            T == cSegments \cup {n}
            r == cRequest
            C == Pieces(S)
            D == Pieces(T)
<1>0. r.to \in Nat /\ r.anchor \in Nat /\ r.anchor <= r.to  BY DEF CoverageInv, RequestOK
<1>1. /\ n.start \in Nat /\ n.end \in Nat /\ n.start < n.end /\ n.start < r.to
      /\ Answer!LatestEnd(S) \in Nat /\ Answer!LatestEnd(S) <= n.start /\
              Answer!LatestEnd(T) = n.end
      /\ Answer!Last(C).end = Answer!LatestEnd(S) /\ Answer!Last(D).end = n.end
      /\ Answer!Gaps(C) \subseteq Answer!Gaps(D)
      /\ ~(n.start - Answer!Last(C).end > Answer!GapTolerance) =>
              Answer!Gaps(D) \subseteq Answer!Gaps(C)
    BY ArrivalIs DEF Arrives
<1>. HIDE DEF S, T, C, D, r
<1>2. /\ Answer!AnchorHome(C, r) = {}
      /\ ~(Answer!LatestEnd(S) < r.anchor - Answer!EdgeTolerance)
      /\ ~Answer!AnchorMoves(C, r)
      /\ Answer!Last(C).end >= r.to - Answer!EdgeTolerance \/ ~Answer!TailMissing(S, r)
    BY Statuses DEF Answer!Stitched, S, C, r
<1>3. n.start - Answer!Last(C).end <= Answer!EdgeTolerance /\ n.end >= r.to
    BY <1>0, <1>1, <1>2 DEF Answer!TailMissing, Answer!EdgeTolerance
<1>4. Answer!Gaps(D) = Answer!Gaps(C)
    <2>1. ~(n.start - Answer!Last(C).end > Answer!GapTolerance)
        BY <1>1, <1>3 DEF Answer!GapTolerance, Answer!EdgeTolerance
    <2>. QED  BY <1>1, <2>1
<1>5. Answer!AnchorHome(D, r) = {}  BY <1>2, HomelessStays DEF S, T, C, D, r
<1>6. ~Answer!AnchorMoves(D, r)  BY <1>2, <1>4 DEF Answer!AnchorMoves, Answer!AnchorGap
<1>7. /\ Answer!Last(D).end >= r.to - Answer!EdgeTolerance
      /\ ~(Answer!LatestEnd(T) < r.anchor - Answer!EdgeTolerance)
    BY <1>0, <1>1, <1>3 DEF Answer!EdgeTolerance
<1>8. Answer!Stitched(T, D, r) = Answer!Unavailable
    BY <1>5, <1>6, <1>7 DEF Answer!Stitched
<1>. QED  BY <1>8 DEF T, D, r

LEMMA ContinuousLost ==
    ASSUME CoverageInv, ~cRequest.force, NEW n, Arrives(n),
           Answer!Continuous(cSegments, Pieces(cSegments), cRequest) = Answer!Unavailable
    PROVE  Answer!Continuous(cSegments \cup {n}, Pieces(cSegments \cup {n}),
            cRequest) = Answer!Unavailable
<1>. DEFINE S == cSegments
            T == cSegments \cup {n}
            r == cRequest
            C == Pieces(S)
            D == Pieces(T)
            l == Answer!Last(C)
            joined == [start |-> l.start, end |-> n.end]
            H == Answer!AnchorHome(C, r)
            I == Answer!AnchorHome(D, r)
            home == Answer!First(H)
            there == Answer!First(I)
            Near(c) == c.start - Answer!EdgeTolerance <= r.anchor /\
                    r.anchor <= c.end + Answer!EdgeTolerance
<1>0. /\ r.to \in Nat /\ r.from \in Nat /\ r.anchor \in Nat /\ r.anchor <= r.to
      /\ r.allow \in BOOLEAN /\ ~r.force
    BY DEF CoverageInv, RequestOK
<1>1. /\ n.start \in Nat /\ n.end \in Nat /\ n.start < n.end /\ n.start < r.to
      /\ Answer!LatestEnd(S) \in Nat /\ Answer!LatestEnd(S) <= n.start /\
              Answer!LatestEnd(T) = n.end
      /\ C \subseteq Segment /\ l \in C /\ l.end = Answer!LatestEnd(S)
      /\ \A c \in C : c.start <= l.start /\ c.start < n.start
      /\ \A c, d \in C : c.start = d.start => c = d
      /\ D \subseteq Segment /\ Answer!Last(D) \in D /\ Answer!Last(D).end = n.end
      /\ \A d \in D : d.start <= Answer!Last(D).start /\ d.start < n.end
      /\ \A c, d \in D : c.start = d.start => c = d
      /\ \/ n.start - l.end > Answer!GapTolerance /\ D = C \cup {n}
         \/ D = (C \ {l}) \cup {joined}
    BY ArrivalIs DEF Arrives
<1>. HIDE DEF S, T, C, D, r, l
<1>2. CASE H = {}
    <2>1. ~(Answer!LatestEnd(S) < r.anchor - Answer!EdgeTolerance)
        BY <1>2, Statuses DEF Answer!Continuous, S, C, r
    <2>2. I = {}  BY <1>2, <2>1, HomelessStays DEF S, T, C, D, r
    <2>3. ~(Answer!LatestEnd(T) < r.anchor - Answer!EdgeTolerance)
        BY <1>0, <1>1, <2>1 DEF Answer!EdgeTolerance
    <2>4. Answer!Continuous(T, D, r) = Answer!Unavailable  BY <2>2, <2>3 DEF Answer!Continuous
    <2>. QED  BY <2>4 DEF T, D, r
<1>3. CASE H # {}
    <2>1. H = {c \in C : Near(c)} /\ H \subseteq C
        BY <1>3 DEF Answer!AnchorHome
    <2>. HIDE DEF H
    <2>2. home \in H /\ \A c \in H : home.start <= c.start
        BY <1>1, <1>3, <2>1, FirstIs
    <2>3. home.start \in Nat /\ home.end \in Nat /\ l.start \in Nat /\ l.end \in Nat /\ home \in C
        BY <1>1, <2>1, <2>2 DEF Segment
    \* What "unavailable" says of the home.
    <2>4. /\ ~r.allow
          /\ ~(home.start <= r.from + Answer!EdgeTolerance /\
                  home.end >= r.to - Answer!EdgeTolerance)
          /\ ~(home.start <= r.from + Answer!EdgeTolerance) \/ home # l
        <3>. HIDE DEF home
        <3>1. ~r.allow
            BY <1>0, <1>3 DEF Answer!Continuous, Answer!Degraded, Answer!Decision,
                    Answer!Unavailable, Answer!Waiting, Answer!TooShort,
                              S, C, r, H, home
        <3>2. ~(home.start <= r.from + Answer!EdgeTolerance /\
                home.end >= r.to - Answer!EdgeTolerance)
            BY <1>3 DEF Answer!Continuous, Answer!Decision, Answer!Unavailable, S, C, r, H, home
        <3>3. ASSUME home = l, home.start <= r.from + Answer!EdgeTolerance PROVE FALSE
            <4>1. ~(l.end >= r.to - Answer!EdgeTolerance) /\ Answer!TailMissing(S, r)
                BY <1>0, <1>1, <2>3, <3>2, <3>3 DEF Answer!TailMissing, Answer!EdgeTolerance
            <4>2. Answer!Continuous(S, C, r) = Answer!Waiting
                BY <1>0, <1>3, <3>1, <3>3, <4>1 DEF Answer!Continuous, H, home, l
            <4>. QED  BY <4>2, Statuses DEF S, C, r
        <3>. QED  BY <3>1, <3>2, <3>3
    <2>5. CASE Answer!AnchorGap(D, r) # {}
        <3>1. I = {}  BY <2>5 DEF Answer!AnchorHome
        <3>2. PICK d \in D : r.anchor < d.start
            <4>1. PICK g \in Answer!Gaps(D) : r.anchor < g.end  BY <2>5 DEF Answer!AnchorGap
            <4>2. PICK d \in D : g = GapBefore(D, d.start)
                BY <4>1, Zenon DEF Answer!Gaps, GapBefore, Below
            <4>3. g.end = d.start  BY <4>2 DEF GapBefore
            <4>. QED  BY <4>1, <4>3
        <3>3. ~(Answer!LatestEnd(T) < r.anchor - Answer!EdgeTolerance)
            BY <1>0, <1>1, <3>2 DEF Answer!EdgeTolerance, Segment
        <3>4. Answer!Continuous(T, D, r) = Answer!Unavailable
            BY <3>1, <3>3 DEF Answer!Continuous
        <3>. QED  BY <3>4 DEF T, D, r
    <2>6. CASE Answer!AnchorGap(D, r) = {}
        <3>1. I = {d \in D : Near(d)}  BY <2>6 DEF Answer!AnchorHome
        <3>. HIDE DEF I
        <3>2. \E d \in I : d.start = home.start
            <4>1. CASE home # l  BY <1>1, <2>1, <2>2, <3>1, <4>1
            <4>2. CASE home = l /\ joined \in D
                <5>1. Near(joined)
                    BY <1>0, <1>1, <2>1, <2>2, <2>3, <4>2 DEF Answer!EdgeTolerance
                <5>. QED  BY <3>1, <4>2, <5>1
            <4>3. CASE D = C \cup {n}  BY <2>1, <2>2, <3>1, <4>3
            <4>. QED  BY <1>1, <4>1, <4>2, <4>3
        <3>3. there \in I /\ \A d \in I : there.start <= d.start
            BY <1>1, <3>1, <3>2, FirstIs
        <3>. HIDE DEF there
        <3>4. there \in D /\ there.start \in Nat /\ there.start <= home.start
            BY <1>1, <3>1, <3>2, <3>3 DEF Segment
        <3>5. there.start = home.start
            <4>1. CASE there \in C
                <5>1. there \in H  BY <2>1, <3>1, <3>3, <4>1
                <5>. QED  BY <2>2, <2>3, <3>4, <5>1
            <4>2. CASE there = n  BY <1>1, <2>3, <3>4, <4>2
            <4>3. CASE there = joined  BY <1>1, <2>3, <3>4, <4>3
            <4>. QED  BY <1>1, <3>4, <4>1, <4>2, <4>3
        <3>6. home # l => there = home /\ there # Answer!Last(D)
            <4>1. SUFFICES ASSUME home # l PROVE there = home /\ there # Answer!Last(D)  OBVIOUS
            <4>2. home \in D  BY <1>1, <2>3, <4>1
            <4>3. there = home  BY <1>1, <3>4, <3>5, <4>2
            <4>4. home.start < l.start  BY <1>1, <2>3, <4>1
            <4>5. \E d \in D : d.start = l.start
                <5>1. joined.start = l.start  OBVIOUS
                <5>. HIDE DEF joined
                <5>. QED  BY <1>1, <5>1
            <4>6. l.start <= Answer!Last(D).start /\ Answer!Last(D).start \in Nat
                BY <1>1, <4>5 DEF Segment
            <4>. QED  BY <2>3, <4>3, <4>4, <4>6
        <3>7. /\ ~(there.start <= r.from + Answer!EdgeTolerance /\
                there.end >= r.to - Answer!EdgeTolerance)
              /\ ~(there.start <= r.from + Answer!EdgeTolerance) \/ there # Answer!Last(D)
            BY <2>4, <3>5, <3>6
        <3>8. Answer!Continuous(T, D, r) = Answer!Unavailable
            BY <2>4, <3>2, <3>7 DEF Answer!Continuous, there, I
        <3>. QED  BY <3>8 DEF T, D, r
    <2>. QED  BY <2>5, <2>6
<1>. QED  BY <1>2, <1>3

\* No further segment makes a lost window usable or worth waiting for.
LEMMA LostForever ==
    ASSUME CoverageInv, ~cRequest.force, MinDegraded \in Nat, MinDegraded > Answer!EdgeTolerance,
           NEW n \in Segment, cEdge <= n.start, n.start < n.end,
           \/ Answer!Now.status = "unavailable"
           \/ Answer!Now.status = "short" /\ Answer!LatestEnd(cSegments) >= cRequest.to
    PROVE  Answer!Lost(cSegments \cup {n})
<1>. DEFINE S == cSegments
            T == cSegments \cup {n}
            r == cRequest
            A == Answer!Selected(S, r)
            B == Answer!Selected(T, r)
<1>0. n.start \in Nat /\ n.end \in Nat /\ cEdge \in Nat /\ Buffered(S, cEdge)
    BY DEF Segment, CoverageInv
<1>1. r.from \in Nat /\ r.to \in Nat /\ r.from + 2 * Answer!EdgeTolerance < r.to
    BY DEF CoverageInv, RequestOK
<1>2. S # {} /\ Answer!Coverage(S, r).status \in LostStatus
    <2>1. Answer!Coverage(S, r).status \in LostStatus  BY DEF Answer!Now, LostStatus
    <2>2. CASE S = {}
        <3>1. A = {}  BY <2>2 DEF Answer!Selected
        <3>2. Answer!Components(A) = {}  BY <3>1 DEF Answer!Components, Answer!Heads
        <3>3. Answer!Coverage(S, r) = Answer!Waiting  BY <2>2, <3>2 DEF Answer!Coverage
        <3>. QED  BY <2>1, <3>3, Statuses DEF LostStatus
    <2>. QED  BY <2>1, <2>2
<1>3. Answer!LatestEnd(S) \in Nat /\ (\E s \in S : s.end = Answer!LatestEnd(S))
      /\ \A s \in S : s.end <= Answer!LatestEnd(S)
    BY <1>0, <1>2, LatestEndIs
<1>4. Buffered(T, n.end)  BY <1>0, <1>2, HeadsGrow
<1>5. Answer!LatestEnd(T) \in Nat /\ \A s \in T : s.end <= Answer!LatestEnd(T)
    <2>1. T # {}  OBVIOUS
    <2>. HIDE DEF T
    <2>. QED  BY <1>0, <1>4, <2>1, LatestEndIs
<1>6. /\ Answer!LatestEnd(S) <= Answer!LatestEnd(T)
      /\ Answer!LatestEnd(S) <= n.start
      /\ n.end <= Answer!LatestEnd(T)
    <2>1. Answer!LatestEnd(S) <= Answer!LatestEnd(T) /\ n.end <= Answer!LatestEnd(T)
        BY <1>3, <1>5
    <2>2. PICK s \in S : s.end = Answer!LatestEnd(S)  BY <1>3
    <2>3. s.end <= cEdge /\ s.end \in Nat  BY <1>0, <1>3, <2>2 DEF Buffered
    <2>4. s.end <= n.start  BY <1>0, <2>3
    <2>. QED  BY <2>1, <2>2, <2>4
<1>7. CASE n \notin B
    <2>1. A = B  BY <1>7 DEF Answer!Selected
    <2>2. Pieces(S) = Pieces(T) /\ T # {}  BY <2>1 DEF Pieces
    <2>3. Answer!Coverage(T, r).status \in LostStatus
        BY <1>2, <1>3, <1>5, <1>6, <2>2, LostBeside
    <2>. QED  BY <2>3 DEF Answer!Lost, LostStatus
<1>8. CASE n \in B /\ A = {}
    <2>1. Answer!Components(A) = {}  BY <1>8 DEF Answer!Components, Answer!Heads
    <2>2. Answer!Coverage(S, r) = Answer!Waiting \/ ~Answer!TailMissing(S, r)
        BY <1>2, <2>1 DEF Answer!Coverage
    <2>3. ~(Answer!LatestEnd(S) < r.to - Answer!EdgeTolerance)
        BY <1>2, <2>2, Statuses DEF Answer!TailMissing, LostStatus
    <2>4. n.start < r.to  BY <1>8 DEF Answer!Selected
    <2>5. n.start = r.to - Answer!EdgeTolerance /\ n.end >= r.to
        BY <1>0, <1>1, <1>3, <1>6, <2>3, <2>4 DEF Answer!EdgeTolerance
    <2>6. B = {n}  BY <1>8 DEF Answer!Selected
    <2>7. Pieces(T) = {n}
        <3>1. Buffered(B, n.end)  BY <1>4, SelectedBuffered
        <3>2. RunsOf(Answer!Components(B), B)  BY <1>0, <3>1, ComponentsAreRuns
        <3>3. \A c \in Answer!Components(B) : c \in Segment /\ c.start = n.start /\ c.end = n.end
            BY <2>6, <3>2 DEF RunsOf
        <3>4. \A c \in Answer!Components(B) : c = n  BY <3>3 DEF Segment
        <3>5. Answer!Components(B) # {}  BY <2>6, <3>2 DEF RunsOf
        <3>. QED  BY <3>4, <3>5 DEF Pieces
    <2>8. Answer!LatestEnd(T) >= r.to  BY <1>0, <1>1, <1>5, <1>6, <2>5
    <2>9. T # {} /\ MinDegraded > 1  BY DEF Answer!EdgeTolerance
    <2>10. Answer!Coverage(T, r).status \in LostStatus
        BY <1>5, <2>5, <2>7, <2>8, <2>9, LostAtTheEnd
    <2>. QED  BY <2>10 DEF Answer!Lost, LostStatus
<1>9. CASE n \in B /\ A # {}
    <2>1. Arrives(n)  BY <1>9 DEF Arrives
    <2>2. Pieces(S) # {} /\ Pieces(T) # {}
        BY <2>1, ArrivalIs
    <2>3. Answer!Now.status = "unavailable"
        <3>1. n.start < r.to  BY <1>9 DEF Answer!Selected
        <3>. QED  BY <1>0, <1>1, <1>3, <1>6, <3>1
    <2>4. CASE r.stitch /\ r.allow
        <3>1. Answer!Now = Answer!Stitched(S, Pieces(S), r) /\
                Answer!Coverage(T, r) = Answer!Stitched(T, Pieces(T), r)
            BY <2>2, <2>4 DEF Answer!Now, Answer!Coverage, Pieces
        <3>2. Answer!Now = Answer!Unavailable
            <4>. HIDE DEF S, r
            <4>. QED
                BY <2>3, <3>1 DEF Answer!Stitched, Answer!Decision, Answer!Waiting, Answer!TooShort
        <3>3. Answer!Coverage(T, r) = Answer!Unavailable  BY <2>1, <3>1, <3>2, StitchedLost
        <3>. QED  BY <3>3, Statuses DEF Answer!Lost
    <2>5. CASE ~(r.stitch /\ r.allow)
        <3>1. Answer!Now = Answer!Continuous(S, Pieces(S), r) /\
                Answer!Coverage(T, r) = Answer!Continuous(T, Pieces(T), r)
            BY <2>2, <2>5 DEF Answer!Now, Answer!Coverage, Pieces
        <3>2. Answer!Now = Answer!Unavailable
            <4>. HIDE DEF S, r
            <4>. QED
                BY <2>3, <3>1 DEF Answer!Continuous, Answer!Degraded, Answer!Decision,
                        Answer!Waiting, Answer!TooShort
        <3>3. Answer!Coverage(T, r) = Answer!Unavailable  BY <2>1, <3>1, <3>2, ContinuousLost
        <3>. QED  BY <3>3, Statuses DEF Answer!Lost
    <2>. QED  BY <2>4, <2>5
<1>. QED  BY <1>7, <1>8, <1>9

-----------------------------------------------------------------------------
(* The behaviours *)

LEMMA CoverageStarts == ASSUME Answer!CoverageAssumption, Answer!Init PROVE CoverageInv
<1>1. Buffered(cSegments, cEdge) /\ cEdge \in Nat  BY DEF Answer!Init, Buffered
<1>2. RequestOK(cRequest)
    BY DEF Answer!Init, Answer!CoverageAssumption, RequestOK, Answer!Options
<1>. QED  BY <1>1, <1>2 DEF CoverageInv

\* What FFmpeg closes comes after everything that is there.
LEMMA ClosesNext ==
    ASSUME Answer!CoverageAssumption, CoverageInv, NEW len \in Lengths, NEW b \in Silences,
            Answer!Closes(len, b)
    PROVE  \E n \in Segment : /\ cEdge <= n.start /\ n.start < n.end /\ cEdge' = n.end
                              /\ cSegments' = cSegments \cup {n} /\ cRequest' = cRequest
<1>1. len \in Nat /\ len > 0 /\ b \in Nat /\ cEdge \in Nat
    BY DEF Answer!CoverageAssumption, CoverageInv
<1>. DEFINE n == [start |-> cEdge + b, end |-> cEdge + b + len]
<1>2. n \in Segment /\ cEdge <= n.start /\ n.start < n.end  BY <1>1 DEF Segment
<1>3. cEdge' = n.end /\ cSegments' = cSegments \cup {n} /\ cRequest' = cRequest
    BY DEF Answer!Closes
<1>. QED  BY <1>2, <1>3

LEMMA CoverageStays == ASSUME Answer!CoverageAssumption, CoverageInv, [Answer!Next]_Answer!vars
        PROVE CoverageInv'
<1>1. CASE UNCHANGED Answer!vars  BY <1>1 DEF Answer!vars, CoverageInv, Buffered, RequestOK
<1>2. ASSUME NEW len \in Lengths, NEW b \in Silences, Answer!Closes(len, b) PROVE CoverageInv'
    <2>1. PICK n \in Segment : /\ cEdge <= n.start /\ n.start < n.end /\ cEdge' = n.end
                               /\ cSegments' = cSegments \cup {n} /\ cRequest' = cRequest
        BY <1>2, ClosesNext
    <2>2. Buffered(cSegments \cup {n}, n.end)
        <3>1. CASE cSegments = {}  BY <2>1, <3>1 DEF Buffered, Segment
        <3>2. CASE cSegments # {}  BY <2>1, <3>2, HeadsGrow DEF CoverageInv
        <3>. QED  BY <3>1, <3>2
    <2>. QED  BY <2>1, <2>2 DEF CoverageInv, Segment, RequestOK, Buffered
<1>3. CASE Answer!Pruned
    BY <1>3 DEF Answer!Pruned, CoverageInv, Buffered, RequestOK
<1>. QED  BY <1>1, <1>2, <1>3 DEF Answer!Next

LEMMA LostStays == ASSUME Answer!CoverageAssumption, CoverageInv, Answer!Next PROVE Answer!StaysLost
<1>1. SUFFICES ASSUME ~cRequest.force, cEdge' > cEdge,
                      \/ Answer!Now.status = "unavailable"
                      \/ Answer!Now.status = "short" /\ Answer!LatestEnd(cSegments) >= cRequest.to
               PROVE  Answer!Lost(cSegments')
    BY DEF Answer!StaysLost
<1>2. PICK len \in Lengths, b \in Silences : Answer!Closes(len, b)
    BY <1>1 DEF Answer!Next, Answer!Pruned, CoverageInv
<1>3. PICK n \in Segment : /\ cEdge <= n.start /\ n.start < n.end
                           /\ cSegments' = cSegments \cup {n}
    BY <1>2, ClosesNext
<1>. QED  BY <1>1, <1>3, LostForever DEF Answer!CoverageAssumption

LEMMA CoverageInvHolds == ASSUME Answer!CoverageAssumption PROVE Answer!Spec => []CoverageInv
<1>. QED  BY CoverageStarts, CoverageStays, PTL DEF Answer!Spec

\* A caller waits for the tail alone, and a window that is called ready shows what it
\* claims, its anchor included unless that was moved (analyze_video_coverage).
THEOREM AnswersTrue == ASSUME Answer!CoverageAssumption PROVE Answer!Spec => []Answer!AnswerIsTrue
<1>. QED  BY CoverageInvHolds, TrueAnswer, PTL

\* A window that is called lost is never usable or worth waiting for again, whatever
\* the stream brings ("cannot be repaired by waiting", analyze_video_coverage).
THEOREM LostIsLost == ASSUME Answer!CoverageAssumption PROVE Answer!Spec =>
        [][Answer!StaysLost]_Answer!vars
<1>. QED  BY CoverageInvHolds, LostStays, PTL DEF Answer!Spec

-----------------------------------------------------------------------------
(* The goals of two feeds, for any goals, any versions of their shotmap rows and   *)
(* any number of processes.                                                        *)
(*                                                                                 *)
(* What an event says is said of one goal, and every step keeps it so: a row joins *)
(* the canonical event of its goal or starts one, and a task takes up rows of its  *)
(* own goal.  Where two goals can be told apart (Separable) a tracker therefore is *)
(* a tracker of each goal by itself: what a fold over many rows makes of a goal is *)
(* what the one row or task of that goal makes of it.  A goal that has overview    *)
(* tasks only has one canonical event, so a second row of it is a revision; one    *)
(* with a shotmap task is found by the second of its scorer.  That holds as long   *)
(* as no process died between the write of a task and the snapshot that remembers  *)
(* its row, which is what gTorn records.                                           *)

(* Events *)
Listed(v) == v[2] # "shot"          \* the key of an overview row
OwnerOf(e) == e.key[1]

\* What an event says is said of one goal.
Pure(e) ==
  /\ e \in Sources!Event
  /\ e.at = OwnerOf(e)
  /\ {e.person, e.name, e.score, e.second} \subseteq {OwnerOf(e), None}
  /\ ~Listed(e.key) => e.src = "shotmap"
  /\ e.src = "shotmap" => e.person # None /\ e.second # None
  /\ e.label = "overview" => e.score # None
  /\ e.label = "shotmap" => e.src = "shotmap"

TaskSet == {gTasks[i] : i \in DOMAIN gTasks}
TasksOf(g) == {t \in TaskSet : OwnerOf(t) = g}
Some(keys) == IF keys = None THEN {} ELSE keys

\* Tasks: one goal each, with keys of their own, one of them from the shotmap.
TaskKeys == {t.key : t \in TaskSet}
TasksPure ==
  /\ gTasks \in Seq(Sources!Event)
  /\ \A t \in TaskSet : Pure(t)
  /\ \A t \in TaskSet : Listed(t.key) =>
        /\ t.label = "overview"
        /\ gFeed[OwnerOf(t)] \in {t.key[2], "named"} /\ gFirst[OwnerOf(t)] # "none"
  /\ \A i, j \in DOMAIN gTasks : gTasks[i].key = gTasks[j].key => i = j
  /\ \A t, u \in TaskSet : ~Listed(t.key) /\ ~Listed(u.key) /\ OwnerOf(t) = OwnerOf(u) => t = u
  /\ gSuppressed \subseteq Sources!Keys
  /\ \A k \in gSuppressed : \E i, j \in DOMAIN gTasks :
        i # j /\ gTasks[i].key = k /\ OwnerOf(gTasks[j]) = k[1]

\* A tracker: every version has a canonical event of its goal.
Tracker(tr) ==
  /\ DOMAIN tr \subseteq Sources!Keys /\ tr \in [DOMAIN tr -> Sources!Event]
  /\ \A v \in DOMAIN tr :
       /\ Pure(tr[v]) /\ OwnerOf(tr[v]) = v[1]
       /\ tr[v].key \in DOMAIN tr /\ tr[tr[v].key] = tr[v]
       /\ Listed(v) => tr[v].label = "overview"
       /\ ~Listed(v) => tr[v].src = "shotmap"
\* What it takes from tasks, there are tasks for.
Backed(tr) ==
  /\ \A v \in DOMAIN tr :
       /\ ~Listed(v) => v \in TaskKeys
       /\ tr[v].src = "shotmap" => \E t \in TasksOf(v[1]) : t.src = "shotmap"
  /\ \A t \in TaskSet : t.key \in DOMAIN tr /\ tr[t.key].label = "overview" => t.label = "overview"
\* Its other versions are rows that were shown.
Displayed(tr) ==
  \A v \in DOMAIN tr : Listed(v) => gFeed[v[1]] \in {v[2], "named"} /\ gFirst[v[1]] # "none"

\* Shotmap: at most one candidate, or a task, per goal.
Promoted == {x \in gTodo : x.phase = 2}
ShotsOnce ==
  /\ gShots \in [Pair -> Nat] /\ \A g \in Pair : gShots[g] <= Versions[g]
  /\ \A s \in gSnapshot : s \in Pair /\ gShots[s] > 0
  /\ gResponse = None \/
       /\ gResponse \subseteq Sources!Shots
       /\ \A s \in gResponse : gShots[s[1]] > 0
       /\ \A s, u \in gResponse : s[1] = u[1] => s = u
       /\ gSnapshot \subseteq {s[1] : s \in gResponse}
  /\ gUp => gSnapshot \subseteq gCores
  /\ gPending \subseteq Sources!Shots
  /\ \A s \in gPending : s[1] \in gSnapshot
  /\ \A s, u \in gPending : s[1] = u[1] => s = u
  /\ \A x \in Promoted :
        /\ \E s \in Sources!Shots : x.event = Sources!ShotEvent(s)
        /\ OwnerOf(x.event) \in gSnapshot
        /\ \A s \in gPending : s[1] # OwnerOf(x.event)
  /\ \A x, y \in Promoted : OwnerOf(x.event) = OwnerOf(y.event) => x = y
ShotTasks ==
  \A t \in TaskSet : t.src = "shotmap" =>
     /\ OwnerOf(t) \in gSnapshot
     /\ \A s \in gPending : s[1] # OwnerOf(t)
     /\ \A x \in Promoted : OwnerOf(x.event) # OwnerOf(t)

\* A pass.
TodoOK ==
  /\ \A x \in gTodo :
       /\ x.phase \in 1..3
       /\ x.phase # 2 => \E v \in DOMAIN gTracker : Listed(v) /\ x.event = gTracker[v]
  /\ \A x, y \in gTodo : x.phase = 3 /\ y.phase = 3 /\ OwnerOf(x.event) = OwnerOf(y.event) => x = y
  /\ gPolled => gSeen # None

Forgotten == ~gUp => gTracker = <<>> /\ gSeen = None /\ gTodo = {} /\ gPending = {} /\
        gResponse = None /\ ~gPolled

\* What is shown and was seen.
Watched ==
  /\ gFeed \in [Pair -> {"none", "bare", "named"}]
  /\ gFirst \in [Pair -> {"none", "seeded", "bare", "named"}]
  /\ \A g \in Pair : gFirst[g] # "none" => gFeed[g] # "none"
  /\ \A g \in Pair : gFirst[g] = "named" => gFeed[g] = "named"
  /\ gSeen = None \/ gSeen \subseteq DOMAIN gTracker
  /\ gCursor = None \/ gCursor \subseteq DOMAIN gAliasRows
  /\ gUp => DOMAIN gAliasRows \subseteq DOMAIN gTracker /\ (gSeen = None => gCursor = None)
  /\ \A g \in Pair : gFirst[g] = "none" => \A k \in Some(gSeen) \cup Some(gCursor) : k[1] # g
  /\ \A g \in Pair : gFirst[g] = "seeded" /\ gFeed[g] = "bare" =>
        /\ gSeen # None => <<g, "bare", 0>> \in DOMAIN gTracker
        /\ gCursor # None => <<g, "bare", 0>> \in DOMAIN gAliasRows
  /\ gUp => \A g \in Pair : gFeed[g] = "bare" /\ <<g, "bare", 0>> \in DOMAIN gTracker =>
        gTracker[<<g, "bare", 0>>] \in gLatest

\* Near goals are told apart by the scorer.
Named(tr, keys) == \A v \in DOMAIN tr : Listed(v) => tr[v].key \in Some(keys) \/ tr[v].person # None
AllNamed ==
  gNear =>
    /\ \A t \in TaskSet : t.person # None
    /\ \A x \in gTodo : x.event.person # None
    /\ Named(gTracker, gSeen) /\ Named(gAliasRows, gCursor)

\* A goal whose rows were all remembered.
OverviewOnly(g) == \A t \in TasksOf(g) : t.src = "overview"
Traced(g, tr, keys) ==
  /\ \A v \in DOMAIN tr : v[1] = g =>
        tr[v].key \in Some(keys) \cup (IF Listed(v) THEN {} ELSE TaskKeys)
  /\ \A t \in TasksOf(g) : Listed(t.key) => t.key \in DOMAIN tr /\ tr[t.key].key = t.key
  /\ OverviewOnly(g) =>
       /\ \A v, w \in DOMAIN tr : v[1] = g /\ w[1] = g => tr[v].key = tr[w].key
       /\ (\E t \in TasksOf(g) : t.name # None) \/
               (\E v \in DOMAIN tr : v[1] = g /\ tr[v].name # None)
             => <<g, "named", 0>> \in DOMAIN tr
Unremembered(g) == \E v \in DOMAIN gTracker \ DOMAIN gAliasRows : v[1] = g /\ Listed(v)
New(g) == {x \in gTodo : x.phase = 3 /\ OwnerOf(x.event) = g}
Accounted(g) ==
  /\ \A t, u \in TasksOf(g) : t = u
  /\ ~(gUp /\ Unremembered(g)) => Traced(g, gAliasRows, gCursor)
  /\ gUp => Traced(g, gTracker, gSeen)
  /\ \A x \in New(g) :
       /\ Unremembered(g)
       /\ x.event.key \in TaskKeys \/
            (x.event.src = "overview" /\ \A t \in TasksOf(g) : t.src = "shotmap")
  /\ gFirst[g] \in {"bare", "named"} =>
        TasksOf(g) # {} \/ (New(g) # {} /\ \A k \in Some(gCursor) : k[1] # g)

Separable == gNear => \A g \in Pair : gFirst[g] # "bare"
Orderly ==
  /\ TasksPure /\ ShotTasks /\ TodoOK /\ Watched
  /\ Tracker(gTracker) /\ Backed(gTracker) /\ Displayed(gTracker)
  /\ Tracker(gAliasRows) /\ Backed(gAliasRows) /\ Displayed(gAliasRows)
  /\ AllNamed
  /\ \A g \in Pair \ gTorn : Accounted(g)
SourcesInv ==
  /\ gNear \in BOOLEAN /\ gUp \in BOOLEAN /\ gPolled \in BOOLEAN
  /\ ShotsOnce /\ Forgotten
  /\ Separable => Orderly

LEMMA TopIs ==
  ASSUME NEW m \in Nat, NEW S \in SUBSET (1..m), m \in S
  PROVE  Sources!Max(S) = m
<1>1. \A x \in S : x <= m /\ x \in Nat  OBVIOUS
<1>2. \A x \in S : (\A y \in S : x >= y) => x = m  BY <1>1
<1>3. \A y \in S : m >= y  BY <1>1
<1>. QED  BY <1>1, <1>2, <1>3 DEF Sources!Max

\* What holds from the start and from step to step holds of a fold.
LEMMA JoinFold ==
  ASSUME NEW n \in Nat, NEW list, DOMAIN list = 1..n, NEW base, NEW I,
         base \in I[0],
         \A i \in 1..n : \A s \in I[i-1] : Sources!JoinTask(s, list[i]) \in I[i]
  PROVE  Sources!FoldLeft(Sources!JoinTask, base, list) \in I[n]
<1>. DEFINE Top(S) == Sources!Max(S)
            Step(g, S) == IF S = {} THEN base
                          ELSE Sources!JoinTask(g[S \ {Top(S)}], list[Top(S)])
            Is(g, m) == g = [S \in SUBSET (1..m) |-> Step(g, S)]
            h == CHOOSE g : Is(g, n)
<1>1. Sources!FoldLeft(Sources!JoinTask, base, list) = h[1..n]
  BY DEF Sources!FoldLeft, Sources!MapThenFoldSet
<1>2. \E g : Is(g, 0)
  <2>. DEFINE g == [S \in SUBSET (1..0) |-> base]
  <2>1. \A S \in SUBSET (1..0) : S = {}  OBVIOUS
  <2>2. \A S \in SUBSET (1..0) : g[S] = Step(g, S)  BY <2>1
  <2>. HIDE DEF Step
  <2>. QED  BY <2>2
<1>3. ASSUME NEW m \in 1..n, NEW f, Is(f, m-1) PROVE \E g : Is(g, m)
  <2>. DEFINE g == [S \in SUBSET (1..m) |->
                      IF m \in S THEN Sources!JoinTask(f[S \ {m}], list[m]) ELSE f[S]]
  <2>1. ASSUME NEW S \in SUBSET (1..m), m \in S PROVE g[S] = Step(g, S)
    <3>1. Top(S) = m /\ S # {}  BY <2>1, TopIs
    <3>2. S \ {m} \in SUBSET (1..m) /\ m \notin S \ {m}  OBVIOUS
    <3>3. g[S \ {m}] = f[S \ {m}] /\ g[S] = Sources!JoinTask(f[S \ {m}], list[m])
      <4>. HIDE DEF Top, Step
      <4>. QED  BY <2>1, <3>2
    <3>. HIDE DEF Top, g
    <3>. QED  BY <3>1, <3>3
  <2>2. ASSUME NEW S \in SUBSET (1..m), m \notin S PROVE g[S] = Step(g, S)
    <3>1. S \in SUBSET (1..(m-1))  BY <2>2
    <3>2. f[S] = Step(f, S)
      <4>. HIDE DEF Step
      <4>. QED  BY <1>3, <3>1
    <3>3. S \ {Top(S)} \in SUBSET (1..m) /\ m \notin S \ {Top(S)}  BY <2>2
    <3>4. g[S] = f[S] /\ g[S \ {Top(S)}] = f[S \ {Top(S)}]
      <4>. HIDE DEF Top, Step
      <4>. QED  BY <2>2, <3>3
    <3>. HIDE DEF Top, g
    <3>. QED  BY <3>2, <3>4
  <2>3. g = [S \in SUBSET (1..m) |-> Step(g, S)]
    <3>1. \A S \in SUBSET (1..m) : g[S] = Step(g, S)  BY <2>1, <2>2
    <3>. HIDE DEF Step
    <3>. QED  BY <3>1
  <2>. HIDE DEF g, Step
  <2>. QED  BY <2>3
<1>4. \A m \in 0..n : \E g : Is(g, m)
  <2>. DEFINE Bad == {m \in 0..n : ~ \E g : Is(g, m)}
  <2>. HIDE DEF Is
  <2>1. SUFFICES ASSUME Bad # {} PROVE FALSE  OBVIOUS
  <2>2. PICK m \in Bad : \A k \in Bad : m <= k
    <3>1. Bad \subseteq Nat  OBVIOUS
    <3>. HIDE DEF Bad
    <3>. QED  BY <2>1, <3>1, LeastExists
  <2>3. m # 0 /\ m \in 1..n  BY <1>2, <2>2
  <2>4. m-1 \in 0..n /\ m-1 \notin Bad  BY <2>2, <2>3
  <2>. QED  BY <1>3, <2>2, <2>3, <2>4
<1>5. Is(h, n)
  <2>. HIDE DEF Is
  <2>. QED  BY <1>4
<1>6. \A m \in 0..n : h[1..m] \in I[m]
  <2>. DEFINE Bad == {m \in 0..n : h[1..m] \notin I[m]}
  <2>. HIDE DEF h
  <2>1. SUFFICES ASSUME Bad # {} PROVE FALSE  OBVIOUS
  <2>2. PICK m \in Bad : \A k \in Bad : m <= k
    <3>1. Bad \subseteq Nat  OBVIOUS
    <3>. HIDE DEF Bad
    <3>. QED  BY <2>1, <3>1, LeastExists
  <2>3. 1..m \in SUBSET (1..n)  BY <2>2
  <2>4. h[1..m] = Step(h, 1..m)
    <3>. HIDE DEF Step
    <3>. QED  BY <1>5, <2>3
  <2>5. m # 0
    <3>1. 1..0 = {}  OBVIOUS
    <3>. QED  BY <2>2, <2>4, <3>1
  <2>6. m \in 1..n /\ 1..m # {} /\ m \in 1..m /\ (1..m) \ {m} = 1..(m-1)
    <3>1. m \in 1..n /\ m \in Nat \ {0}  BY <2>2, <2>5
    <3>. QED  BY <3>1, UpTo
  <2>7. Top(1..m) = m  BY <2>6, TopIs
  <2>8. h[1..(m-1)] \in I[m-1]  BY <2>2, <2>6
  <2>9. h[1..m] = Sources!JoinTask(h[1..(m-1)], list[m])
    <3>. HIDE DEF Top
    <3>. QED  BY <2>4, <2>6, <2>7
  <2>. QED  BY <2>2, <2>6, <2>8, <2>9
<1>. HIDE DEF h
<1>. QED  BY <1>1, <1>6

-----------------------------------------------------------------------------
(* Events of one goal, and what merging keeps of them. *)
\* What the assumption says of the constants.
LEMMA SourcesConstants ==
  /\ IsFiniteSet(Pair) /\ Versions \in [Pair -> Nat] /\ None \notin Pair
  /\ \A K \in SUBSET Sources!Keys : None # K
<1>1. Sources!SourcesAssumption  BY GoalStagesAssumption
<1>2. Sources!IsFiniteSet(Pair) => IsFiniteSet(Pair)
  BY DEF Sources!IsFiniteSet, IsFiniteSet
<1>. QED
  BY <1>1, <1>2 DEF Sources!SourcesAssumption

LEMMA KeyIs ==
  ASSUME NEW k \in Sources!Keys
  PROVE  /\ k = <<k[1], k[2], k[3]>> /\ k[1] \in Pair /\ k[2] \in {"bare", "named", "shot"}
         /\ Listed(k) => k[3] = 0
         /\ ~Listed(k) => <<k[1], k[3]>> \in Sources!Shots
  BY DEF Sources!Keys, Sources!Shots, Listed

LEMMA ShotIs ==
  ASSUME NEW s \in Sources!Shots
  PROVE  /\ s = <<s[1], s[2]>> /\ s[1] \in Pair /\ s[2] \in Nat
         /\ <<s[1], "shot", s[2]>> \in Sources!Keys
  BY SourcesConstants DEF Sources!Keys, Sources!Shots

\* The rows of the two feeds.
LEMMA ShotEventIs ==
  ASSUME NEW s \in Sources!Shots
  PROVE  LET e == Sources!ShotEvent(s) IN
         /\ Pure(e) /\ OwnerOf(e) = s[1] /\ e.key = <<s[1], "shot", s[2]>> /\ ~Listed(e.key)
         /\ e.src = "shotmap" /\ e.label = "shotmap" /\ e.person = s[1]
  BY SourcesConstants, ShotIs
     DEF Sources!ShotEvent, Pure, Sources!Event, OwnerOf, Listed

LEMMA RowIs ==
  ASSUME NEW g \in Pair, gFeed[g] \in {"bare", "named"}
  PROVE  LET e == Sources!Row(g) IN
         /\ Pure(e) /\ OwnerOf(e) = g /\ e.key = <<g, gFeed[g], 0>> /\ Listed(e.key)
         /\ e.src = "overview" /\ e.label = "overview" /\ e.second = None /\ e.at = g
         /\ e.score = g
         /\ gFeed[g] = "named" => e.person = g /\ e.name = g
         /\ gFeed[g] = "bare" => e.person = None /\ e.name = None
  BY SourcesConstants DEF Sources!Row, Pure, Sources!Event, Sources!Keys, OwnerOf, Listed

\* What a pure event is made of.
LEMMA PureIs ==
  ASSUME NEW e, Pure(e)
  PROVE  LET g == OwnerOf(e) IN
         /\ e \in Sources!Event /\ e.key \in Sources!Keys /\ g \in Pair /\ g # None
         /\ e.at = g
         /\ e.person \in {g, None} /\ e.name \in {g, None}
         /\ e.score \in {g, None} /\ e.second \in {g, None}
         /\ e.src \in {"overview", "shotmap"} /\ e.label \in {"overview", "shotmap"}
         /\ e.src = "shotmap" => e.person = g /\ e.second = g
         /\ e.label = "overview" => e.score = g
         /\ e.label = "shotmap" => e.src = "shotmap"
         /\ ~Listed(e.key) => e.src = "shotmap"
<1>1. e.key \in Sources!Keys  BY DEF Pure, Sources!Event
<1>2. OwnerOf(e) \in Pair  BY <1>1, KeyIs DEF OwnerOf
<1>. QED
  BY <1>1, <1>2, SourcesConstants DEF Pure, Sources!Event

\* Events of one incident are of one goal.
LEMMA SameOwner ==
  ASSUME NEW a, NEW b, NEW exact, Pure(a), Pure(b), Sources!SameIncident(a, b, exact)
  PROVE  OwnerOf(a) = OwnerOf(b) /\ a.label = b.label
<1>1. CASE Sources!Details(a) = Sources!Details(b)
  BY <1>1, PureIs DEF Sources!Details
<1>2. CASE Sources!Details(a) # Sources!Details(b)
  BY <1>2, PureIs DEF Sources!SameIncident, Sources!Agree, Sources!Differ
<1>. QED
  BY <1>1, <1>2

\* Merging two events of a goal.
LEMMA MergedIs ==
  ASSUME NEW a, NEW b, Pure(a), Pure(b), OwnerOf(a) = OwnerOf(b)
  PROVE  LET m == Sources!Merged(a, b) IN
         /\ Pure(m) /\ OwnerOf(m) = OwnerOf(a) /\ m.key = a.key /\ m.label = b.label
         /\ m.src = "shotmap" <=> (a.src = "shotmap" \/ b.src = "shotmap")
         /\ m.person # None <=> (a.person # None \/ b.person # None)
         /\ m.name # None <=> (a.name # None \/ b.name # None)
<1>1. Sources!Merged(a, b).key = a.key /\ Sources!Merged(a, b).label = b.label
  BY DEF Sources!Merged
<1>2. Sources!Merged(a, b) \in Sources!Event
  BY PureIs DEF Sources!Merged, Sources!Or, Sources!Event
<1>. QED
  BY <1>1, <1>2, PureIs DEF Sources!Merged, Sources!Or, OwnerOf, Pure

LEMMA CrossMergedIs ==
  ASSUME NEW a, NEW b, Pure(a), Pure(b), OwnerOf(a) = OwnerOf(b), a.src # b.src
  PROVE  LET m == Sources!CrossMerged(a, b) IN
         /\ Pure(m) /\ OwnerOf(m) = OwnerOf(a) /\ m.key = a.key /\ m.src = "shotmap"
         /\ m.label \in {a.label, b.label}
         /\ b.src = "shotmap" => m.label = a.label
         /\ b.src # "shotmap" => m.label = b.label
         /\ m.person # None
<1>. DEFINE m == Sources!Merged(a, b)
<1>1. Pure(m) /\ OwnerOf(m) = OwnerOf(a) /\ m.key = a.key /\ m.label = b.label /\ m.src = "shotmap"
  BY MergedIs, PureIs
<1>2. m.score = Sources!Or(b.score, a.score)
  BY DEF Sources!Merged
<1>. HIDE DEF m
<1>3. CASE b.src = "shotmap"
  <2>1. Sources!CrossMerged(a, b) =
          [m EXCEPT !.label = a.label, !.name = Sources!Or(a.name, m.name),
                    !.score = Sources!Or(a.score, m.score), !.second = b.second]
    BY <1>3 DEF Sources!CrossMerged, m
  <2>2. Sources!CrossMerged(a, b) \in Sources!Event
    BY <1>1, <2>1, PureIs DEF Sources!Event, Sources!Or
  <2>. QED
    BY <1>1, <1>3, <2>1, <2>2, PureIs DEF Sources!Event, Sources!Or, Pure, OwnerOf
<1>4. CASE b.src # "shotmap"
  <2>1. Sources!CrossMerged(a, b) = [m EXCEPT !.second = a.second] /\ a.src = "shotmap"
    BY <1>4, PureIs DEF Sources!CrossMerged, m
  <2>2. Sources!CrossMerged(a, b) \in Sources!Event
    BY <1>1, <2>1, PureIs DEF Sources!Event
  <2>. QED
    BY <1>1, <1>4, <2>1, <2>2, PureIs DEF Sources!Event, Pure, OwnerOf
<1>. QED
  BY <1>3, <1>4

-----------------------------------------------------------------------------
(* A row or a task joins a tracker. *)
LEMMA TrackerIs ==
  ASSUME NEW tr, Tracker(tr), NEW v \in DOMAIN tr
  PROVE  /\ v \in Sources!Keys /\ v[1] \in Pair
         /\ Pure(tr[v]) /\ OwnerOf(tr[v]) = v[1] /\ tr[v].key[1] = v[1]
         /\ tr[v].key \in DOMAIN tr /\ tr[tr[v].key] = tr[v]
         /\ Listed(v) => tr[v].label = "overview"
         /\ ~Listed(v) => tr[v].src = "shotmap"
  BY KeyIs DEF Tracker, OwnerOf

\* A version becomes a version of the event e, and with it all others of that event.
LEMMA GrownIs ==
  ASSUME NEW tr, Tracker(tr), NEW v \in Sources!Keys, NEW e, Pure(e), OwnerOf(e) = v[1],
         \/ e.key = v /\ v \notin DOMAIN tr
         \/ /\ e.key \in DOMAIN tr /\ tr[e.key].key = e.key
            /\ v \in DOMAIN tr => tr[v].key = e.key,
         Listed(v) => e.label = "overview",
         ~Listed(v) => e.src = "shotmap",
         \A w \in DOMAIN tr : tr[w].key = e.key =>
            /\ Listed(w) => e.label = "overview"
            /\ tr[w].src = "shotmap" => e.src = "shotmap"
  PROVE  LET n == Sources!Grown(tr, v, e) IN
         /\ Tracker(n) /\ DOMAIN n = DOMAIN tr \cup {v} /\ n[v] = e
         /\ \A w \in DOMAIN tr : /\ n[w] = IF tr[w].key = e.key THEN e ELSE tr[w]
                                 /\ n[w].key = tr[w].key
<1>. DEFINE n == Sources!Grown(tr, v, e)
<1>1. n = [w \in DOMAIN tr \cup {v} |->
             IF w = v \/ (w \in DOMAIN tr /\ tr[w].key = e.key) THEN e ELSE tr[w]]
  BY DEF Sources!Grown
<1>. HIDE DEF n
<1>2. DOMAIN n = DOMAIN tr \cup {v} /\ n[v] = e
  BY <1>1
<1>3. ASSUME NEW w \in DOMAIN tr
      PROVE  n[w] = (IF tr[w].key = e.key THEN e ELSE tr[w]) /\ n[w].key = tr[w].key
  BY <1>1
<1>4. DOMAIN n \subseteq Sources!Keys
  BY <1>2 DEF Tracker
<1>5. e \in Sources!Event
  BY PureIs
<1>6. ASSUME NEW w \in DOMAIN n
      PROVE  /\ n[w] \in Sources!Event /\ Pure(n[w]) /\ OwnerOf(n[w]) = w[1]
             /\ n[w].key \in DOMAIN n /\ n[n[w].key] = n[w]
             /\ Listed(w) => n[w].label = "overview"
             /\ ~Listed(w) => n[w].src = "shotmap"
  <2>1. CASE w = v
    BY <1>2, <1>3, <1>5, <2>1
  <2>2. CASE w # v /\ tr[w].key = e.key
    <3>1. w \in DOMAIN tr /\ n[w] = e  BY <1>2, <1>3, <2>2
    <3>2. OwnerOf(e) = w[1]  BY <2>2, <3>1, TrackerIs DEF OwnerOf
    <3>3. e.key \in DOMAIN tr  BY <2>2, <3>1, TrackerIs
    <3>4. n[e.key] = e  BY <1>2, <1>3, <3>3
    <3>. QED  BY <1>2, <1>5, <2>2, <3>1, <3>2, <3>3, <3>4, TrackerIs
  <2>3. CASE w # v /\ tr[w].key # e.key
    <3>1. w \in DOMAIN tr /\ n[w] = tr[w]  BY <1>2, <1>3, <2>3
    <3>2. tr[w].key \in DOMAIN tr /\ tr[tr[w].key] = tr[w]  BY <3>1, TrackerIs
    <3>3. n[tr[w].key] = tr[w]  BY <1>3, <2>3, <3>2
    <3>. QED  BY <1>2, <3>1, <3>2, <3>3, TrackerIs, PureIs
  <2>. QED
    BY <2>1, <2>2, <2>3
<1>7. n \in [DOMAIN n -> Sources!Event]
  BY <1>1, <1>2, <1>6
<1>8. Tracker(n)
  BY <1>4, <1>6, <1>7 DEF Tracker
<1>. QED
  BY <1>2, <1>3, <1>8 DEF n

\* The event that a row or a task joins.
Alike(tr, r) == {c \in Sources!Canonicals(tr) : Sources!SameIncident(c, r, FALSE)}
Base(tr, r) == IF r.key \in DOMAIN tr THEN tr[r.key]
               ELSE IF Sources!Cardinality(Alike(tr, r)) = 1 THEN CHOOSE c \in Alike(tr, r) : TRUE
                       ELSE r

LEMMA CardIs == \A S : Sources!Cardinality(S) = Cardinality(S)
  BY DEF Sources!Cardinality, Cardinality

\* A set with one element.
LEMMA OneIs ==
  /\ \A S : Sources!Cardinality(S) = 1 => S # {}
  /\ \A c : Sources!Cardinality({c}) = 1
  BY FS_EmptySet, FS_Singleton, CardIs

LEMMA OneAlike ==
  ASSUME NEW tr, NEW r
  PROVE  /\ Sources!Cardinality(Alike(tr, r)) = 1 => Alike(tr, r) # {}
         /\ \A c : Alike(tr, r) = {c} => Sources!Cardinality(Alike(tr, r)) = 1
  BY OneIs

LEMMA JoinIs ==
  ASSUME NEW tr, NEW r
  PROVE  Sources!JoinTask(tr, r) = Sources!Grown(tr, r.key, Sources!Merged(Base(tr, r), r))
  BY DEF Sources!JoinTask, Base, Alike

LEMMA BaseIs ==
  ASSUME NEW tr, Tracker(tr), NEW r, Pure(r)
  PROVE  LET b == Base(tr, r) IN
         /\ Pure(b) /\ OwnerOf(b) = OwnerOf(r)
         /\ \/ r.key \in DOMAIN tr /\ b = tr[r.key]
            \/ /\ r.key \notin DOMAIN tr
               /\ \E w \in DOMAIN tr : w[1] = OwnerOf(r) /\ b = tr[w] /\ b.label = r.label
            \/ r.key \notin DOMAIN tr /\ b = r
<1>1. CASE r.key \in DOMAIN tr
  BY <1>1, TrackerIs DEF Base, OwnerOf
<1>2. CASE r.key \notin DOMAIN tr /\ Sources!Cardinality(Alike(tr, r)) = 1
  <2>1. PICK c \in Alike(tr, r) : Base(tr, r) = c
    BY <1>2, OneAlike DEF Base
  <2>2. PICK w \in DOMAIN tr : c = tr[w]
    BY <2>1 DEF Alike, Sources!Canonicals
  <2>3. Sources!SameIncident(c, r, FALSE)
    BY <2>1 DEF Alike
  <2>4. Pure(c) /\ OwnerOf(c) = w[1]
    BY <2>2, TrackerIs
  <2>5. OwnerOf(c) = OwnerOf(r) /\ c.label = r.label
    BY <2>3, <2>4, SameOwner
  <2>. QED
    BY <1>2, <2>1, <2>2, <2>4, <2>5
<1>3. CASE r.key \notin DOMAIN tr /\ Sources!Cardinality(Alike(tr, r)) # 1
  BY <1>3 DEF Base
<1>. QED
  BY <1>1, <1>2, <1>3

\* A row that is shown, or a task.
Joinable(r) ==
  /\ Pure(r)
  /\ Listed(r.key) => r.label = "overview"
  /\ ~Listed(r.key) => r \in TaskSet
  /\ r.src = "shotmap" => \E t \in TasksOf(OwnerOf(r)) : t.src = "shotmap"

LEMMA TaskJoinable == ASSUME TasksPure, NEW t \in TaskSet PROVE Joinable(t)
  BY DEF TasksPure, Joinable, TasksOf

LEMMA RowJoinable ==
  ASSUME NEW g \in Pair, gFeed[g] \in {"bare", "named"} PROVE Joinable(Sources!Row(g))
  BY RowIs DEF Joinable

\* A tracker that only learnt.
Evolves(a, b) ==
  /\ DOMAIN a \subseteq DOMAIN b
  /\ \A v \in DOMAIN a : b[v].key = a[v].key /\ (a[v].person # None => b[v].person # None)

\* A row or a task that joins a tracker changes the versions of one event.
LEMMA JoinKeeps ==
  ASSUME TasksPure, NEW tr, Tracker(tr), Backed(tr), NEW r, Joinable(r)
  PROVE  LET n == Sources!JoinTask(tr, r)
             m == Sources!Merged(Base(tr, r), r) IN
         /\ Tracker(n) /\ Backed(n) /\ Evolves(tr, n)
         /\ DOMAIN n = DOMAIN tr \cup {r.key} /\ n[r.key] = m
         /\ \A w \in DOMAIN tr : n[w] = IF tr[w].key = m.key THEN m ELSE tr[w]
<1>. DEFINE b == Base(tr, r)
            m == Sources!Merged(b, r)
            n == Sources!JoinTask(tr, r)
<1>1. /\ Pure(b) /\ OwnerOf(b) = OwnerOf(r)
      /\ \/ r.key \in DOMAIN tr /\ b = tr[r.key]
         \/ /\ r.key \notin DOMAIN tr
            /\ \E w \in DOMAIN tr : w[1] = OwnerOf(r) /\ b = tr[w] /\ b.label = r.label
         \/ r.key \notin DOMAIN tr /\ b = r
  BY BaseIs DEF Joinable
<1>2. /\ Pure(m) /\ OwnerOf(m) = OwnerOf(r) /\ m.key = b.key /\ m.label = r.label
      /\ m.src = "shotmap" <=> (b.src = "shotmap" \/ r.src = "shotmap")
      /\ m.person # None <=> (b.person # None \/ r.person # None)
  BY <1>1, MergedIs DEF Joinable
<1>. HIDE DEF b, m
<1>3. r.key \in Sources!Keys /\ r.key[1] = OwnerOf(r)
  BY PureIs DEF Joinable, OwnerOf
<1>4. ASSUME NEW w \in DOMAIN tr, tr[w].key = m.key
      PROVE  b = tr[w] /\ w[1] = OwnerOf(r)
  BY <1>1, <1>2, <1>4, TrackerIs
<1>5. \/ m.key = r.key /\ r.key \notin DOMAIN tr
      \/ /\ m.key \in DOMAIN tr /\ tr[m.key].key = m.key
         /\ r.key \in DOMAIN tr => tr[r.key].key = m.key
  BY <1>1, <1>2, TrackerIs
<1>6. r.key \in DOMAIN tr /\ b.label = "overview" => r.label = "overview"
  BY <1>1 DEF Joinable, Backed
<1>7. ASSUME NEW w \in DOMAIN tr, tr[w].key = m.key
      PROVE  /\ Listed(w) => m.label = "overview"
             /\ tr[w].src = "shotmap" => m.src = "shotmap"
  BY <1>1, <1>2, <1>4, <1>6, <1>7, TrackerIs
<1>8. (Listed(r.key) => m.label = "overview") /\ (~Listed(r.key) => m.src = "shotmap")
  BY <1>2, PureIs DEF Joinable
<1>9. /\ Tracker(n) /\ DOMAIN n = DOMAIN tr \cup {r.key} /\ n[r.key] = m
      /\ \A w \in DOMAIN tr : /\ n[w] = IF tr[w].key = m.key THEN m ELSE tr[w]
                              /\ n[w].key = tr[w].key
  <2>1. n = Sources!Grown(tr, r.key, m)
    BY JoinIs DEF m, b
  <2>. QED
    BY <1>2, <1>3, <1>5, <1>7, <1>8, <2>1, GrownIs
<1>. HIDE DEF n
<1>10. Evolves(tr, n)
  BY <1>2, <1>4, <1>9 DEF Evolves
<1>11. ASSUME NEW w \in DOMAIN n
       PROVE  /\ ~Listed(w) => w \in TaskKeys
              /\ n[w].src = "shotmap" => \E t \in TasksOf(w[1]) : t.src = "shotmap"
  <2>1. ~Listed(w) => w \in TaskKeys
    BY <1>9 DEF Backed, Joinable, TaskKeys
  <2>2. m.src = "shotmap" => \E t \in TasksOf(OwnerOf(r)) : t.src = "shotmap"
    BY <1>1, <1>2, TrackerIs DEF Backed, Joinable
  <2>3. (n[w] = m /\ w[1] = OwnerOf(r)) \/ (w \in DOMAIN tr /\ n[w] = tr[w])
    <3>1. CASE w = r.key  BY <1>3, <1>9, <3>1
    <3>2. CASE w \in DOMAIN tr /\ tr[w].key = m.key  BY <1>4, <1>9, <3>2
    <3>3. CASE w \in DOMAIN tr /\ tr[w].key # m.key  BY <1>9, <3>3
    <3>. QED  BY <1>9, <3>1, <3>2, <3>3
  <2>. QED
    BY <2>1, <2>2, <2>3 DEF Backed
<1>12. ASSUME NEW t \in TaskSet, t.key \in DOMAIN n, n[t.key].label = "overview"
       PROVE  t.label = "overview"
  <2>1. SUFFICES ASSUME ~Listed(t.key) PROVE t.label = "overview"
    BY DEF TasksPure
  <2>2. CASE t.key = r.key
    <3>1. t = r  BY <2>1, <2>2 DEF TasksPure, Joinable, OwnerOf
    <3>. QED  BY <1>2, <1>9, <1>12, <2>2, <3>1
  <2>3. CASE t.key \in DOMAIN tr /\ n[t.key] = tr[t.key]
    BY <1>12, <2>3 DEF Backed
  <2>4. CASE t.key \in DOMAIN tr /\ tr[t.key].key = m.key
    <3>1. b = tr[t.key] /\ OwnerOf(t) = OwnerOf(r) /\ r.label = "overview"
      BY <1>2, <1>4, <1>9, <1>12, <2>4 DEF OwnerOf
    <3>2. CASE b.label = "overview"
      BY <2>4, <3>1, <3>2 DEF Backed
    <3>3. CASE b.label # "overview"
      <4>1. r.key \in DOMAIN tr  BY <1>1, <3>1, <3>3
      <4>2. ~Listed(r.key)  BY <1>1, <3>3, <4>1, TrackerIs
      <4>3. t = r  BY <2>1, <3>1, <4>2 DEF TasksPure, Joinable
      <4>. QED  BY <3>1, <4>3
    <3>. QED
      BY <3>2, <3>3
  <2>. QED
    BY <1>9, <1>12, <2>2, <2>3, <2>4
<1>13. Backed(n)
  BY <1>11, <1>12 DEF Backed
<1>. QED
  BY <1>9, <1>10, <1>13 DEF n, m, b

-----------------------------------------------------------------------------
(* What a tracker says of one goal. *)
SamePart(g, a, b) ==
  \A v \in Sources!Keys : v[1] = g =>
     (v \in DOMAIN a <=> v \in DOMAIN b) /\ (v \in DOMAIN a => a[v] = b[v])

\* Which event a row joins is a matter of its goal alone.
LEMMA BaseLocal ==
  ASSUME NEW a, NEW b, Tracker(a), Tracker(b), NEW r, Pure(r), SamePart(OwnerOf(r), a, b)
  PROVE  Base(a, r) = Base(b, r)
<1>1. ASSUME NEW x, NEW y, Tracker(x), Tracker(y), SamePart(OwnerOf(r), x, y), NEW c \in Alike(x, r)
      PROVE  c \in Alike(y, r)
  <2>1. PICK w \in DOMAIN x : c = x[w]  BY DEF Alike, Sources!Canonicals
  <2>2. Sources!SameIncident(c, r, FALSE)  BY DEF Alike
  <2>3. w \in Sources!Keys /\ Pure(c) /\ OwnerOf(c) = w[1]
    BY <1>1, <2>1, TrackerIs
  <2>5. w[1] = OwnerOf(r)
    BY <2>2, <2>3, SameOwner
  <2>4. w \in DOMAIN y /\ c = y[w]
    BY <1>1, <2>1, <2>3, <2>5 DEF SamePart
  <2>. QED
    BY <2>2, <2>4 DEF Alike, Sources!Canonicals
<1>2. SamePart(OwnerOf(r), b, a)
  BY DEF SamePart
<1>3. Alike(a, r) = Alike(b, r)
  BY <1>1, <1>2
<1>4. r.key \in Sources!Keys /\ r.key[1] = OwnerOf(r)
  BY PureIs DEF OwnerOf
<1>5. (r.key \in DOMAIN a <=> r.key \in DOMAIN b) /\ (r.key \in DOMAIN a => a[r.key] = b[r.key])
  BY <1>4 DEF SamePart
<1>. QED
  BY <1>3, <1>5 DEF Base

LEMMA JoinLocal ==
  ASSUME TasksPure, NEW a, NEW b, Tracker(a), Tracker(b), Backed(a), Backed(b),
         NEW r, Joinable(r), SamePart(OwnerOf(r), a, b)
  PROVE  SamePart(OwnerOf(r), Sources!JoinTask(a, r), Sources!JoinTask(b, r))
<1>. DEFINE m == Sources!Merged(Base(a, r), r)
            x == Sources!JoinTask(a, r)
            y == Sources!JoinTask(b, r)
<1>1. Base(b, r) = Base(a, r)
  BY BaseLocal DEF Joinable
<1>2. /\ DOMAIN x = DOMAIN a \cup {r.key} /\ x[r.key] = m
      /\ \A w \in DOMAIN a : x[w] = IF a[w].key = m.key THEN m ELSE a[w]
  BY JoinKeeps
<1>3. /\ DOMAIN y = DOMAIN b \cup {r.key} /\ y[r.key] = m
      /\ \A w \in DOMAIN b : y[w] = IF b[w].key = m.key THEN m ELSE b[w]
  <2>. DEFINE k == Sources!Merged(Base(b, r), r)
  <2>1. /\ DOMAIN y = DOMAIN b \cup {r.key} /\ y[r.key] = k
        /\ \A w \in DOMAIN b : y[w] = IF b[w].key = k.key THEN k ELSE b[w]
    BY JoinKeeps
  <2>2. k = m  BY <1>1
  <2>. HIDE DEF k, m, y
  <2>. QED  BY <2>1, <2>2
<1>. HIDE DEF x, y, m
<1>4. SamePart(OwnerOf(r), x, y)
  BY <1>2, <1>3 DEF SamePart
<1>. QED
  BY <1>4 DEF x, y

LEMMA JoinOther ==
  ASSUME TasksPure, NEW tr, Tracker(tr), Backed(tr), NEW r, Joinable(r), NEW g, g # OwnerOf(r)
  PROVE  SamePart(g, Sources!JoinTask(tr, r), tr)
<1>. DEFINE m == Sources!Merged(Base(tr, r), r)
            x == Sources!JoinTask(tr, r)
<1>1. /\ DOMAIN x = DOMAIN tr \cup {r.key} /\ x[r.key] = m
      /\ \A w \in DOMAIN tr : x[w] = IF tr[w].key = m.key THEN m ELSE tr[w]
  BY JoinKeeps
<1>2. OwnerOf(m) = OwnerOf(r)
  BY BaseIs, MergedIs DEF Joinable
<1>3. r.key[1] = OwnerOf(r)
  BY DEF OwnerOf
<1>4. ASSUME NEW w \in DOMAIN tr, w[1] = g PROVE tr[w].key # m.key
  BY <1>2, <1>4, TrackerIs DEF OwnerOf
<1>. HIDE DEF x, m
<1>5. SamePart(g, x, tr)
  BY <1>1, <1>3, <1>4 DEF SamePart
<1>. QED
  BY <1>5 DEF x

\* A row is known where its version is.
LEMMA RowKnown ==
  ASSUME NEW g \in Pair, gFeed[g] \in {"bare", "named"}, NEW c, Pure(c), OwnerOf(c) = g,
         c.label = "overview"
  PROVE  /\ Sources!SameIncident(c, Sources!Row(g), TRUE)
         /\ Sources!Details(c) # Sources!Details(Sources!Row(g))
              => Sources!SameIncident(c, Sources!Row(g), FALSE)
         /\ c.score = g
<1>1. c.second \in {g, None} /\ c.at = g /\ c.person \in {g, None} /\ c.name \in {g, None}
      /\ c.score = g /\ g # None
  BY PureIs
<1>. DEFINE r == Sources!Row(g)
<1>2. /\ r.second = None /\ r.at = g /\ r.label = "overview" /\ r.score = g
      /\ r.person \in {g, None} /\ r.name \in {g, None}
  BY <1>1, RowIs
<1>. HIDE DEF r
<1>3. ~Sources!Differ(c.second, r.second) /\ Sources!Close(c, r) /\ c.label = r.label
      /\ ~Sources!Differ(c.person, r.person) /\ ~Sources!Differ(c.name, r.name)
      /\ Sources!Agree(c.score, r.score)
  BY <1>1, <1>2 DEF Sources!Differ, Sources!Close, Sources!Agree
<1>4. Sources!SameIncident(c, r, TRUE)
  BY <1>3 DEF Sources!SameIncident
<1>5. Sources!Details(c) # Sources!Details(r) => Sources!SameIncident(c, r, FALSE)
  BY <1>3 DEF Sources!SameIncident
<1>. QED
  BY <1>1, <1>4, <1>5 DEF r

LEMMA TrackIs ==
  ASSUME NEW s, Tracker(s.tracker), NEW g \in Pair, gFeed[g] \in {"bare", "named"}
  PROVE  LET t == Sources!Track(s, Sources!Row(g)) IN
         /\ t.tracker = Sources!JoinTask(s.tracker, Sources!Row(g))
         /\ t.matched = s.matched \cup {Base(s.tracker, Sources!Row(g)).key}
         /\ DOMAIN t = {"tracker", "matched"}
         /\ t = [tracker |-> t.tracker, matched |-> t.matched]
<1>. DEFINE r == Sources!Row(g)
            like == {c \in Sources!Canonicals(s.tracker) :
                        /\ Sources!SameIncident(c, r, FALSE)
                        /\ (c.key \in s.matched => ~Sources!Differ(c.score, r.score))}
            base == IF Sources!Known(s.tracker, r) THEN s.tracker[r.key]
                    ELSE IF Sources!Cardinality(like) = 1 THEN CHOOSE c \in like : TRUE ELSE r
<1>1. Pure(r) /\ OwnerOf(r) = g /\ Listed(r.key) /\ r.score = g /\ r.key[1] = g
  BY RowIs DEF OwnerOf
<1>2. Sources!Track(s, r) = [tracker |-> Sources!Grown(s.tracker, r.key, Sources!Merged(base, r)),
                             matched |-> s.matched \cup {base.key}]
  BY DEF Sources!Track
<1>3. ASSUME r.key \in DOMAIN s.tracker PROVE Sources!SameIncident(s.tracker[r.key], r, TRUE)
  <2>. DEFINE c == s.tracker[r.key]
  <2>1. Pure(c) /\ OwnerOf(c) = g /\ c.label = "overview"
    BY <1>1, <1>3, TrackerIs
  <2>. HIDE DEF c
  <2>2. Sources!SameIncident(c, r, TRUE)
    BY <2>1, RowKnown
  <2>. QED  BY <2>2 DEF c
<1>4. Sources!Known(s.tracker, r) <=> r.key \in DOMAIN s.tracker
  BY <1>3 DEF Sources!Known
<1>5. ASSUME NEW c \in Sources!Canonicals(s.tracker), Sources!SameIncident(c, r, FALSE)
      PROVE  ~Sources!Differ(c.score, r.score)
  <2>1. Pure(c)  BY TrackerIs DEF Sources!Canonicals
  <2>2. OwnerOf(c) = g  BY <1>1, <1>5, <2>1, SameOwner
  <2>. QED  BY <1>1, <2>1, <2>2, PureIs DEF Sources!Differ
<1>6. like = Alike(s.tracker, r)
  BY <1>5 DEF Alike
<1>. HIDE DEF r, like
<1>7. base = Base(s.tracker, r)
  BY <1>4, <1>6 DEF Base
<1>. HIDE DEF base
<1>. QED
  BY <1>2, <1>7, JoinIs DEF r

-----------------------------------------------------------------------------
(* Folds: Track over the rows of a snapshot, Recovery over the tasks. *)
\* What holds from the start and from row to row holds of a snapshot.
LEMMA TrackFold ==
  ASSUME NEW n \in Nat, NEW list, DOMAIN list = 1..n, NEW base, NEW I,
         base \in I[0],
         \A i \in 1..n : \A s \in I[i-1] : Sources!Track(s, list[i]) \in I[i]
  PROVE  Sources!FoldLeft(Sources!Track, base, list) \in I[n]
<1>. DEFINE Top(S) == Sources!Max(S)
            Step(g, S) == IF S = {} THEN base
                          ELSE Sources!Track(g[S \ {Top(S)}], list[Top(S)])
            Is(g, m) == g = [S \in SUBSET (1..m) |-> Step(g, S)]
            h == CHOOSE g : Is(g, n)
<1>1. Sources!FoldLeft(Sources!Track, base, list) = h[1..n]
  BY DEF Sources!FoldLeft, Sources!MapThenFoldSet
<1>2. \E g : Is(g, 0)
  <2>. DEFINE g == [S \in SUBSET (1..0) |-> base]
  <2>1. \A S \in SUBSET (1..0) : S = {}  OBVIOUS
  <2>2. \A S \in SUBSET (1..0) : g[S] = Step(g, S)  BY <2>1
  <2>. HIDE DEF Step
  <2>. QED  BY <2>2
<1>3. ASSUME NEW m \in 1..n, NEW f, Is(f, m-1) PROVE \E g : Is(g, m)
  <2>. DEFINE g == [S \in SUBSET (1..m) |->
                      IF m \in S THEN Sources!Track(f[S \ {m}], list[m]) ELSE f[S]]
  <2>1. ASSUME NEW S \in SUBSET (1..m), m \in S PROVE g[S] = Step(g, S)
    <3>1. Top(S) = m /\ S # {}  BY <2>1, TopIs
    <3>2. S \ {m} \in SUBSET (1..m) /\ m \notin S \ {m}  OBVIOUS
    <3>3. g[S \ {m}] = f[S \ {m}] /\ g[S] = Sources!Track(f[S \ {m}], list[m])
      <4>. HIDE DEF Top, Step
      <4>. QED  BY <2>1, <3>2
    <3>. HIDE DEF Top, g
    <3>. QED  BY <3>1, <3>3
  <2>2. ASSUME NEW S \in SUBSET (1..m), m \notin S PROVE g[S] = Step(g, S)
    <3>1. S \in SUBSET (1..(m-1))  BY <2>2
    <3>2. f[S] = Step(f, S)
      <4>. HIDE DEF Step
      <4>. QED  BY <1>3, <3>1
    <3>3. S \ {Top(S)} \in SUBSET (1..m) /\ m \notin S \ {Top(S)}  BY <2>2
    <3>4. g[S] = f[S] /\ g[S \ {Top(S)}] = f[S \ {Top(S)}]
      <4>. HIDE DEF Top, Step
      <4>. QED  BY <2>2, <3>3
    <3>. HIDE DEF Top, g
    <3>. QED  BY <3>2, <3>4
  <2>3. g = [S \in SUBSET (1..m) |-> Step(g, S)]
    <3>1. \A S \in SUBSET (1..m) : g[S] = Step(g, S)  BY <2>1, <2>2
    <3>. HIDE DEF Step
    <3>. QED  BY <3>1
  <2>. HIDE DEF g, Step
  <2>. QED  BY <2>3
<1>4. \A m \in 0..n : \E g : Is(g, m)
  <2>. DEFINE Bad == {m \in 0..n : ~ \E g : Is(g, m)}
  <2>. HIDE DEF Is
  <2>1. SUFFICES ASSUME Bad # {} PROVE FALSE  OBVIOUS
  <2>2. PICK m \in Bad : \A k \in Bad : m <= k
    <3>1. Bad \subseteq Nat  OBVIOUS
    <3>. HIDE DEF Bad
    <3>. QED  BY <2>1, <3>1, LeastExists
  <2>3. m # 0 /\ m \in 1..n  BY <1>2, <2>2
  <2>4. m-1 \in 0..n /\ m-1 \notin Bad  BY <2>2, <2>3
  <2>. QED  BY <1>3, <2>2, <2>3, <2>4
<1>5. Is(h, n)
  <2>. HIDE DEF Is
  <2>. QED  BY <1>4
<1>6. \A m \in 0..n : h[1..m] \in I[m]
  <2>. DEFINE Bad == {m \in 0..n : h[1..m] \notin I[m]}
  <2>. HIDE DEF h
  <2>1. SUFFICES ASSUME Bad # {} PROVE FALSE  OBVIOUS
  <2>2. PICK m \in Bad : \A k \in Bad : m <= k
    <3>1. Bad \subseteq Nat  OBVIOUS
    <3>. HIDE DEF Bad
    <3>. QED  BY <2>1, <3>1, LeastExists
  <2>3. 1..m \in SUBSET (1..n)  BY <2>2
  <2>4. h[1..m] = Step(h, 1..m)
    <3>. HIDE DEF Step
    <3>. QED  BY <1>5, <2>3
  <2>5. m # 0
    <3>1. 1..0 = {}  OBVIOUS
    <3>. QED  BY <2>2, <2>4, <3>1
  <2>6. m \in 1..n /\ 1..m # {} /\ m \in 1..m /\ (1..m) \ {m} = 1..(m-1)
    <3>1. m \in 1..n /\ m \in Nat \ {0}  BY <2>2, <2>5
    <3>. QED  BY <3>1, UpTo
  <2>7. Top(1..m) = m  BY <2>6, TopIs
  <2>8. h[1..(m-1)] \in I[m-1]  BY <2>2, <2>6
  <2>9. h[1..m] = Sources!Track(h[1..(m-1)], list[m])
    <3>. HIDE DEF Top
    <3>. QED  BY <2>4, <2>6, <2>7
  <2>. QED  BY <2>2, <2>6, <2>8, <2>9
<1>. HIDE DEF h
<1>. QED  BY <1>1, <1>6

\* What holds from the start and from task to task holds of a recovery.
LEMMA RecoveryFold ==
  ASSUME NEW n \in Nat, NEW list, DOMAIN list = 1..n, NEW base, NEW I,
         base \in I[0],
         \A i \in 1..n : \A s \in I[i-1] : Sources!Recovery(s, list[i]) \in I[i]
  PROVE  Sources!FoldLeft(Sources!Recovery, base, list) \in I[n]
<1>. DEFINE Top(S) == Sources!Max(S)
            Step(g, S) == IF S = {} THEN base
                          ELSE Sources!Recovery(g[S \ {Top(S)}], list[Top(S)])
            Is(g, m) == g = [S \in SUBSET (1..m) |-> Step(g, S)]
            h == CHOOSE g : Is(g, n)
<1>1. Sources!FoldLeft(Sources!Recovery, base, list) = h[1..n]
  BY DEF Sources!FoldLeft, Sources!MapThenFoldSet
<1>2. \E g : Is(g, 0)
  <2>. DEFINE g == [S \in SUBSET (1..0) |-> base]
  <2>1. \A S \in SUBSET (1..0) : S = {}  OBVIOUS
  <2>2. \A S \in SUBSET (1..0) : g[S] = Step(g, S)  BY <2>1
  <2>. HIDE DEF Step
  <2>. QED  BY <2>2
<1>3. ASSUME NEW m \in 1..n, NEW f, Is(f, m-1) PROVE \E g : Is(g, m)
  <2>. DEFINE g == [S \in SUBSET (1..m) |->
                      IF m \in S THEN Sources!Recovery(f[S \ {m}], list[m]) ELSE f[S]]
  <2>1. ASSUME NEW S \in SUBSET (1..m), m \in S PROVE g[S] = Step(g, S)
    <3>1. Top(S) = m /\ S # {}  BY <2>1, TopIs
    <3>2. S \ {m} \in SUBSET (1..m) /\ m \notin S \ {m}  OBVIOUS
    <3>3. g[S \ {m}] = f[S \ {m}] /\ g[S] = Sources!Recovery(f[S \ {m}], list[m])
      <4>. HIDE DEF Top, Step
      <4>. QED  BY <2>1, <3>2
    <3>. HIDE DEF Top, g
    <3>. QED  BY <3>1, <3>3
  <2>2. ASSUME NEW S \in SUBSET (1..m), m \notin S PROVE g[S] = Step(g, S)
    <3>1. S \in SUBSET (1..(m-1))  BY <2>2
    <3>2. f[S] = Step(f, S)
      <4>. HIDE DEF Step
      <4>. QED  BY <1>3, <3>1
    <3>3. S \ {Top(S)} \in SUBSET (1..m) /\ m \notin S \ {Top(S)}  BY <2>2
    <3>4. g[S] = f[S] /\ g[S \ {Top(S)}] = f[S \ {Top(S)}]
      <4>. HIDE DEF Top, Step
      <4>. QED  BY <2>2, <3>3
    <3>. HIDE DEF Top, g
    <3>. QED  BY <3>2, <3>4
  <2>3. g = [S \in SUBSET (1..m) |-> Step(g, S)]
    <3>1. \A S \in SUBSET (1..m) : g[S] = Step(g, S)  BY <2>1, <2>2
    <3>. HIDE DEF Step
    <3>. QED  BY <3>1
  <2>. HIDE DEF g, Step
  <2>. QED  BY <2>3
<1>4. \A m \in 0..n : \E g : Is(g, m)
  <2>. DEFINE Bad == {m \in 0..n : ~ \E g : Is(g, m)}
  <2>. HIDE DEF Is
  <2>1. SUFFICES ASSUME Bad # {} PROVE FALSE  OBVIOUS
  <2>2. PICK m \in Bad : \A k \in Bad : m <= k
    <3>1. Bad \subseteq Nat  OBVIOUS
    <3>. HIDE DEF Bad
    <3>. QED  BY <2>1, <3>1, LeastExists
  <2>3. m # 0 /\ m \in 1..n  BY <1>2, <2>2
  <2>4. m-1 \in 0..n /\ m-1 \notin Bad  BY <2>2, <2>3
  <2>. QED  BY <1>3, <2>2, <2>3, <2>4
<1>5. Is(h, n)
  <2>. HIDE DEF Is
  <2>. QED  BY <1>4
<1>6. \A m \in 0..n : h[1..m] \in I[m]
  <2>. DEFINE Bad == {m \in 0..n : h[1..m] \notin I[m]}
  <2>. HIDE DEF h
  <2>1. SUFFICES ASSUME Bad # {} PROVE FALSE  OBVIOUS
  <2>2. PICK m \in Bad : \A k \in Bad : m <= k
    <3>1. Bad \subseteq Nat  OBVIOUS
    <3>. HIDE DEF Bad
    <3>. QED  BY <2>1, <3>1, LeastExists
  <2>3. 1..m \in SUBSET (1..n)  BY <2>2
  <2>4. h[1..m] = Step(h, 1..m)
    <3>. HIDE DEF Step
    <3>. QED  BY <1>5, <2>3
  <2>5. m # 0
    <3>1. 1..0 = {}  OBVIOUS
    <3>. QED  BY <2>2, <2>4, <3>1
  <2>6. m \in 1..n /\ 1..m # {} /\ m \in 1..m /\ (1..m) \ {m} = 1..(m-1)
    <3>1. m \in 1..n /\ m \in Nat \ {0}  BY <2>2, <2>5
    <3>. QED  BY <3>1, UpTo
  <2>7. Top(1..m) = m  BY <2>6, TopIs
  <2>8. h[1..(m-1)] \in I[m-1]  BY <2>2, <2>6
  <2>9. h[1..m] = Sources!Recovery(h[1..(m-1)], list[m])
    <3>. HIDE DEF Top
    <3>. QED  BY <2>4, <2>6, <2>7
  <2>. QED  BY <2>2, <2>6, <2>8, <2>9
<1>. HIDE DEF h
<1>. QED  BY <1>1, <1>6

\* A set as a sequence, and its parts one after the other.
LEMMA Listing ==
  ASSUME NEW S, IsFiniteSet(S)
  PROVE  LET q == Sources!SetToSeq(S)
             n == Cardinality(S) IN
         /\ n \in Nat /\ q \in [1..n -> S]
         /\ \A i, j \in 1..n : q[i] = q[j] => i = j
         /\ \A x \in S : \E i \in 1..n : q[i] = x
<1>. DEFINE q == Sources!SetToSeq(S)
            n == Cardinality(S)
<1>1. n \in Nat /\ ExistsBijection(1..n, S)
  BY FS_CardinalityType
<1>2. \E f \in [1..n -> S] : Sources!IsInjective(f)
  BY <1>1 DEF ExistsBijection, Bijection, Injection, IsInjective, Sources!IsInjective
<1>3. q = CHOOSE f \in [1..n -> S] : Sources!IsInjective(f)
  BY CardIs DEF Sources!SetToSeq
<1>4. q \in [1..n -> S] /\ Sources!IsInjective(q)
  <2>. HIDE DEF n, q
  <2>. QED  BY <1>2, <1>3
<1>5. q \in Injection(1..n, S)
  <2>. HIDE DEF n, q
  <2>. QED  BY <1>4 DEF Injection, IsInjective, Sources!IsInjective
<1>6. Cardinality(1..n) = n
  BY <1>1, FS_Interval
<1>7. q \in Surjection(1..n, S)
  <2>. HIDE DEF q
  <2>. QED  BY <1>5, <1>6, FS_Injection
<1>. QED
  <2>. HIDE DEF n, q
  <2>1. \A i, j \in 1..n : q[i] = q[j] => i = j
    BY <1>4 DEF Sources!IsInjective
  <2>2. \A x \in S : \E i \in 1..n : q[i] = x
    BY <1>7 DEF Surjection
  <2>. QED  BY <1>1, <1>4, <2>1, <2>2 DEF n, q

Arranged(S, K) == Sources!SetToSeq(K) \o Sources!SetToSeq(S \ K)
LEMMA ListedOnce ==
  ASSUME NEW S, IsFiniteSet(S), NEW K \in SUBSET S
  PROVE  LET q == Arranged(S, K) IN
         \E n \in Nat :
           /\ DOMAIN q = 1..n /\ \A i \in 1..n : q[i] \in S
           /\ \A i, j \in 1..n : q[i] = q[j] => i = j
           /\ \A x \in S : \E i \in 1..n : q[i] = x
<1>. DEFINE a == Sources!SetToSeq(K)
            b == Sources!SetToSeq(S \ K)
            k == Cardinality(K)
            l == Cardinality(S \ K)
            q == Arranged(S, K)
<1>1. IsFiniteSet(K) /\ IsFiniteSet(S \ K)
  BY FS_Subset
<1>2. /\ k \in Nat /\ a \in [1..k -> K]
      /\ \A i, j \in 1..k : a[i] = a[j] => i = j
      /\ \A x \in K : \E i \in 1..k : a[i] = x
  BY <1>1, Listing
<1>3. /\ l \in Nat /\ b \in [1..l -> S \ K]
      /\ \A i, j \in 1..l : b[i] = b[j] => i = j
      /\ \A x \in S \ K : \E i \in 1..l : b[i] = x
  BY <1>1, Listing
<1>0. q = a \o b
  BY DEF Arranged
<1>. HIDE DEF a, b, k, l, q
<1>4. a \in Seq(S) /\ b \in Seq(S) /\ Len(a) = k /\ Len(b) = l
  BY <1>2, <1>3
<1>5. /\ DOMAIN q = 1..(k + l)
      /\ \A i \in 1..(k + l) : q[i] = IF i <= k THEN a[i] ELSE b[i - k]
  <2>. DEFINE p == a \o b
  <2>1. /\ DOMAIN p = 1..(k + l)
        /\ \A i \in 1..(k + l) : p[i] = IF i <= k THEN a[i] ELSE b[i - k]
    BY <1>2, <1>3, <1>4
  <2>2. q = p  BY <1>0
  <2>. HIDE DEF p
  <2>. QED  BY <2>1, <2>2
<1>6. ASSUME NEW i \in 1..(k + l)
      PROVE  (i <= k => i \in 1..k /\ q[i] = a[i]) /\
              (~(i <= k) => i - k \in 1..l /\ q[i] = b[i - k])
  BY <1>2, <1>3, <1>5
<1>7. \A i \in 1..(k + l) : q[i] \in S
  BY <1>2, <1>3, <1>6
<1>8. ASSUME NEW i \in 1..(k + l), NEW j \in 1..(k + l), q[i] = q[j] PROVE i = j
  <2>1. CASE i <= k /\ j <= k
    BY <1>2, <1>6, <1>8, <2>1
  <2>2. CASE ~(i <= k) /\ ~(j <= k)
    <3>1. i - k \in 1..l /\ j - k \in 1..l /\ b[i - k] = b[j - k]
      BY <1>6, <1>8, <2>2
    <3>2. i - k = j - k
      BY <1>3, <3>1
    <3>. QED  BY <1>2, <3>2
  <2>3. CASE i <= k /\ ~(j <= k)
    <3>1. q[i] \in K  BY <1>2, <1>6, <2>3
    <3>2. q[j] \notin K  BY <1>3, <1>6, <2>3
    <3>. QED  BY <1>8, <3>1, <3>2
  <2>4. CASE ~(i <= k) /\ j <= k
    <3>1. q[j] \in K  BY <1>2, <1>6, <2>4
    <3>2. q[i] \notin K  BY <1>3, <1>6, <2>4
    <3>. QED  BY <1>8, <3>1, <3>2
  <2>. QED
    BY <2>1, <2>2, <2>3, <2>4
<1>9. ASSUME NEW x \in S PROVE \E i \in 1..(k + l) : q[i] = x
  <2>1. CASE x \in K
    <3>1. PICK i \in 1..k : a[i] = x  BY <1>2, <2>1
    <3>2. i \in 1..(k + l) /\ i <= k  BY <1>2, <1>3
    <3>. QED  BY <1>6, <3>1, <3>2
  <2>2. CASE x \in S \ K
    <3>1. PICK i \in 1..l : b[i] = x  BY <1>3, <2>2
    <3>2. i + k \in 1..(k + l) /\ ~(i + k <= k) /\ (i + k) - k = i  BY <1>2, <1>3
    <3>. QED  BY <1>6, <3>1, <3>2
  <2>. QED
    BY <2>1, <2>2
<1>10. k + l \in Nat
  BY <1>2, <1>3
<1>. QED
  BY <1>5, <1>7, <1>8, <1>9, <1>10 DEF q

-----------------------------------------------------------------------------
(* A whole snapshot, and a restart. *)
Trackers == UNION {[D -> Sources!Event] : D \in SUBSET Sources!Keys}

LEMMA TrackerTyped == ASSUME NEW tr, Tracker(tr) PROVE tr \in Trackers
  BY DEF Tracker, Trackers

LEMMA EvolvesOn ==
  ASSUME NEW a, NEW b, NEW c, Evolves(a, b), Evolves(b, c) PROVE Evolves(a, c)
  BY DEF Evolves

LEMMA PartOn ==
  ASSUME NEW g, NEW a, NEW b, NEW c, SamePart(g, a, b), SamePart(g, b, c) PROVE SamePart(g, a, c)
  BY DEF SamePart

LEMMA RowsListed ==
  ASSUME gFeed \in [Pair -> {"none", "bare", "named"}]
  PROVE  LET rows == {Sources!Row(g) : g \in Sources!Shown} IN
         /\ IsFiniteSet(rows)
         /\ \A r \in rows : \E g \in Pair : gFeed[g] \in {"bare", "named"} /\ r = Sources!Row(g)
         /\ \A g \in Pair : gFeed[g] \in {"bare", "named"} => Sources!Row(g) \in rows
<1>. DEFINE rows == {Sources!Row(g) : g \in Sources!Shown}
            f == [g \in Sources!Shown |-> Sources!Row(g)]
<1>1. Sources!Shown \subseteq Pair /\ IsFiniteSet(Sources!Shown)
  BY SourcesConstants, FS_Subset DEF Sources!Shown
<1>2. f \in Surjection(Sources!Shown, rows)
  BY DEF Surjection
<1>3. IsFiniteSet(rows)
  <2>. HIDE DEF f, rows
  <2>. QED  BY <1>1, <1>2, FS_Surjection
<1>4. \A g \in Pair : g \in Sources!Shown <=> gFeed[g] \in {"bare", "named"}
  BY DEF Sources!Shown
<1>. QED
  BY <1>1, <1>3, <1>4

\* What the tracker is after the rows of a snapshot: for a goal that is shown, the
\* tracker with its row; for another goal, the tracker before.
LEMMA ReconciledIs ==
  ASSUME TasksPure, gFeed \in [Pair -> {"none", "bare", "named"}],
         NEW tr, Tracker(tr), Backed(tr)
  PROVE  LET n == Sources!Reconciled(tr, {Sources!Row(g) : g \in Sources!Shown}) IN
         /\ Tracker(n) /\ Backed(n) /\ Evolves(tr, n)
         /\ DOMAIN n = DOMAIN tr \cup {Sources!Row(g).key : g \in Sources!Shown}
         /\ \A g \in Pair : SamePart(g, n, IF gFeed[g] \in {"bare", "named"}
                                           THEN Sources!JoinTask(tr, Sources!Row(g)) ELSE tr)
<1>. DEFINE rows  == {Sources!Row(g) : g \in Sources!Shown}
            known == {r \in rows : Sources!Known(tr, r)}
            q     == Arranged(rows, known)
            base  == [tracker |-> tr, matched |-> {}]
<1>1. /\ IsFiniteSet(rows)
      /\ \A r \in rows : \E g \in Pair : gFeed[g] \in {"bare", "named"} /\ r = Sources!Row(g)
      /\ \A g \in Pair : gFeed[g] \in {"bare", "named"} => Sources!Row(g) \in rows
  BY RowsListed
<1>2. known \in SUBSET rows
  OBVIOUS
<1>3. Sources!Reconciled(tr, rows) = Sources!FoldLeft(Sources!Track, base, q).tracker
  BY DEF Sources!Reconciled, Arranged
<1>4. PICK n \in Nat :
           /\ DOMAIN q = 1..n /\ \A i \in 1..n : q[i] \in rows
           /\ \A i, j \in 1..n : q[i] = q[j] => i = j
           /\ \A x \in rows : \E i \in 1..n : q[i] = x
  <2>1. IsFiniteSet(rows)  BY <1>1
  <2>. HIDE DEF rows, known
  <2>. QED  BY <1>2, <2>1, ListedOnce
<1>. HIDE DEF q, known
<1>. DEFINE read(i, g) == \E j \in 1..i : q[j] = Sources!Row(g)
            Good(s, i) == 
              /\ Tracker(s.tracker) /\ Backed(s.tracker) /\ Evolves(tr, s.tracker)
              /\ DOMAIN s.tracker = DOMAIN tr \cup {q[j].key : j \in 1..i}
              /\ \A g \in Pair : SamePart(g, s.tracker,
                      IF read(i, g) THEN Sources!JoinTask(tr, Sources!Row(g)) ELSE tr)
            States == [tracker : Trackers, matched : SUBSET Sources!Keys]
            I == [i \in 0..n |-> {s \in States : Good(s, i)}]
<1>5. base \in I[0]
  <2>1. base \in States /\ base.tracker = tr
    BY TrackerTyped
  <2>2. 1..0 = {}
    OBVIOUS
  <2>3. Evolves(tr, tr) /\ \A g \in Pair : SamePart(g, tr, tr)
    BY DEF Evolves, SamePart
  <2>4. Good(base, 0)
    <3>1. \A g \in Pair : ~read(0, g)  BY <2>2
    <3>2. {q[j].key : j \in 1..0} = {}  BY <2>2
    <3>. HIDE DEF read, base
    <3>. QED  BY <2>1, <2>3, <3>1, <3>2
  <2>. HIDE DEF Good, States, base
  <2>. QED  BY <2>1, <2>4
<1>6. ASSUME NEW i \in 1..n, NEW s \in I[i-1] PROVE Sources!Track(s, q[i]) \in I[i]
  <2>1. s \in States /\ Good(s, i-1)
    <3>. HIDE DEF Good, States
    <3>. QED  BY <1>6
  <2>2. PICK g \in Pair : gFeed[g] \in {"bare", "named"} /\ q[i] = Sources!Row(g)
    BY <1>1, <1>4
  <2>. DEFINE t == Sources!Track(s, q[i])
              j == Sources!JoinTask(s.tracker, Sources!Row(g))
  <2>3. /\ Tracker(s.tracker) /\ Backed(s.tracker) /\ Evolves(tr, s.tracker)
        /\ DOMAIN s.tracker = DOMAIN tr \cup {q[k].key : k \in 1..(i-1)}
    BY <2>1
  <2>4. /\ t.tracker = j /\ t.matched = s.matched \cup {Base(s.tracker, Sources!Row(g)).key}
        /\ t = [tracker |-> t.tracker, matched |-> t.matched]
    BY <2>2, <2>3, TrackIs
  <2>5. Joinable(Sources!Row(g)) /\ OwnerOf(Sources!Row(g)) = g /\ Pure(Sources!Row(g))
    BY <2>2, RowJoinable, RowIs
  <2>6. /\ Tracker(j) /\ Backed(j) /\ Evolves(s.tracker, j)
        /\ DOMAIN j = DOMAIN s.tracker \cup {Sources!Row(g).key}
    BY <2>3, <2>5, JoinKeeps
  <2>7. Base(s.tracker, Sources!Row(g)).key \in Sources!Keys
    BY <2>3, <2>5, BaseIs, PureIs
  <2>8. t \in States
    <3>1. t.tracker \in Trackers  BY <2>4, <2>6, TrackerTyped
    <3>2. t.matched \in SUBSET Sources!Keys  BY <2>1, <2>4, <2>7
    <3>. HIDE DEF t
    <3>. QED  BY <2>4, <3>1, <3>2
  <2>9. \A h \in Pair : read(i, h) <=> (read(i-1, h) \/ h = g)
    <3>1. 1..i = 1..(i-1) \cup {i}  BY <1>4
    <3>2. \A h \in Pair : Sources!Row(h) = Sources!Row(g) => h = g
      BY DEF Sources!Row
    <3>. QED  BY <2>2, <3>1, <3>2
  <2>10. ~read(i-1, g)
    <3>1. i \in 1..n /\ \A k \in 1..(i-1) : k \in 1..n /\ k # i  BY <1>4
    <3>. QED  BY <1>4, <2>2, <3>1
  <2>11. \A h \in Pair : SamePart(h, s.tracker, IF read(i-1, h)
          THEN Sources!JoinTask(tr, Sources!Row(h)) ELSE tr)
    BY <2>1
  <2>. HIDE DEF read, j
  <2>12. ASSUME NEW h \in Pair
         PROVE  SamePart(h, j, IF read(i, h) THEN Sources!JoinTask(tr, Sources!Row(h)) ELSE tr)
    <3>1. CASE h = g
      <4>1. SamePart(g, s.tracker, tr)  BY <2>10, <2>11
      <4>2. SamePart(g, j, Sources!JoinTask(tr, Sources!Row(g)))
        BY <2>3, <2>5, <4>1, JoinLocal DEF j
      <4>. QED  BY <2>9, <3>1, <4>2
    <3>2. CASE h # g
      <4>1. SamePart(h, j, s.tracker)  BY <2>3, <2>5, <3>2, JoinOther DEF j
      <4>. QED  BY <2>9, <2>11, <3>2, <4>1, PartOn
    <3>. QED
      BY <3>1, <3>2
  <2>13. DOMAIN j = DOMAIN tr \cup {q[k].key : k \in 1..i}
    <3>1. 1..i = 1..(i-1) \cup {i}  BY <1>4
    <3>. QED  BY <2>2, <2>3, <2>6, <3>1
  <2>14. Evolves(tr, j)
    BY <2>3, <2>6, EvolvesOn
  <2>15. Good(t, i)
    <3>. HIDE DEF t
    <3>. QED  BY <2>4, <2>6, <2>12, <2>13, <2>14
  <2>. HIDE DEF Good, States, t
  <2>16. i \in 0..n
    BY <1>4
  <2>. QED
    BY <2>8, <2>15, <2>16 DEF t
<1>. DEFINE fin == Sources!FoldLeft(Sources!Track, base, q)
<1>7. fin \in I[n]
  <2>. HIDE DEF I, base
  <2>. QED  BY <1>4, <1>5, <1>6, TrackFold
<1>. HIDE DEF fin
<1>8. Good(fin, n)
  <2>1. n \in 0..n  BY <1>4
  <2>. HIDE DEF Good, States
  <2>. QED  BY <1>7, <2>1
<1>9. \A g \in Pair : read(n, g) <=> gFeed[g] \in {"bare", "named"}
  <2>1. ASSUME NEW g \in Pair, read(n, g) PROVE gFeed[g] \in {"bare", "named"}
    <3>1. PICK h \in Pair : gFeed[h] \in {"bare", "named"} /\ Sources!Row(g) = Sources!Row(h)
      BY <1>1, <1>4, <2>1
    <3>. QED  BY <3>1 DEF Sources!Row
  <2>. QED
    BY <1>1, <1>4, <2>1
<1>10. {q[j].key : j \in 1..n} = {Sources!Row(g).key : g \in Sources!Shown}
  <2>1. \A x : (\E j \in 1..n : q[j] = x) <=> x \in rows
    <3>. HIDE DEF rows
    <3>. QED  BY <1>4
  <2>. QED
    BY <2>1
<1>. HIDE DEF read, rows, base
<1>11. Sources!Reconciled(tr, rows) = fin.tracker
  BY <1>3 DEF fin
<1>. QED
  BY <1>8, <1>9, <1>10, <1>11 DEF rows

\* A task that is the only one of its goal.
Alone(j) == \A k \in DOMAIN gTasks : OwnerOf(gTasks[k]) = OwnerOf(gTasks[j]) => k = j

\* What the tracker is after a restart: for a goal with one task, the alias rows with
\* that task; for a goal without a task, the alias rows.
LEMMA LoadAliasesIs ==
  ASSUME TasksPure, Tracker(gAliasRows), Backed(gAliasRows)
  PROVE  LET n == Sources!LoadAliases IN
         /\ Tracker(n) /\ Backed(n) /\ Evolves(gAliasRows, n)
         /\ DOMAIN n = DOMAIN gAliasRows \cup TaskKeys
         /\ \A t \in TaskSet : t.person # None => n[t.key].person # None
         /\ \A g : TasksOf(g) = {} => SamePart(g, n, gAliasRows)
         /\ \A j \in DOMAIN gTasks : Alone(j) =>
              SamePart(OwnerOf(gTasks[j]), n, Sources!JoinTask(gAliasRows, gTasks[j]))
<1>. DEFINE n == Len(gTasks)
            a == gAliasRows
            Good(s, i) ==
              /\ Tracker(s) /\ Backed(s) /\ Evolves(a, s)
              /\ DOMAIN s = DOMAIN a \cup {gTasks[j].key : j \in 1..i}
              /\ \A j \in 1..i : gTasks[j].person # None => s[gTasks[j].key].person # None
              /\ \A g : (\A k \in 1..i : OwnerOf(gTasks[k]) # g) => SamePart(g, s, a)
              /\ \A j \in 1..i : Alone(j) =>
                   SamePart(OwnerOf(gTasks[j]), s, Sources!JoinTask(a, gTasks[j]))
            I == [i \in 0..n |-> {s \in Trackers : Good(s, i)}]
<1>1. n \in Nat /\ DOMAIN gTasks = 1..n /\ \A i \in 1..n : gTasks[i] \in TaskSet
  BY DEF TasksPure, TaskSet
<1>. HIDE DEF n
<1>2. a \in I[0]
  <2>1. a \in Trackers
    BY TrackerTyped
  <2>2. 1..0 = {}
    OBVIOUS
  <2>3. Evolves(a, a) /\ \A g : SamePart(g, a, a)
    BY DEF Evolves, SamePart
  <2>4. Good(a, 0)
    BY <2>2, <2>3
  <2>. HIDE DEF Good
  <2>. QED  BY <1>1, <2>1, <2>4
<1>3. ASSUME NEW i \in 1..n, NEW s \in I[i-1] PROVE Sources!JoinTask(s, gTasks[i]) \in I[i]
  <2>1. s \in Trackers /\ Good(s, i-1)
    <3>1. i-1 \in 0..n  BY <1>1
    <3>. HIDE DEF Good
    <3>. QED  BY <1>3, <3>1
  <2>. DEFINE t == gTasks[i]
              x == Sources!JoinTask(s, t)
              m == Sources!Merged(Base(s, t), t)
  <2>2. /\ Tracker(s) /\ Backed(s) /\ Evolves(a, s)
        /\ DOMAIN s = DOMAIN a \cup {gTasks[j].key : j \in 1..(i-1)}
        /\ \A j \in 1..(i-1) : gTasks[j].person # None => s[gTasks[j].key].person # None
    BY <2>1
  <2>3. \A g : (\A k \in 1..(i-1) : OwnerOf(gTasks[k]) # g) => SamePart(g, s, a)
    BY <2>1
  <2>4. \A j \in 1..(i-1) : Alone(j) =>
           SamePart(OwnerOf(gTasks[j]), s, Sources!JoinTask(a, gTasks[j]))
    BY <2>1
  <2>5. Joinable(t) /\ Pure(t)
    BY <1>1, TaskJoinable DEF Joinable
  <2>6. /\ Tracker(x) /\ Backed(x) /\ Evolves(s, x)
        /\ DOMAIN x = DOMAIN s \cup {t.key} /\ x[t.key] = m
    BY <2>2, <2>5, JoinKeeps
  <2>7. t.person # None => m.person # None
    BY <2>2, <2>5, BaseIs, MergedIs
  <2>8. \A g : g # OwnerOf(t) => SamePart(g, x, s)
    BY <2>2, <2>5, JoinOther
  <2>. HIDE DEF x, m
  <2>9. 1..i = 1..(i-1) \cup {i} /\ 1..(i-1) \subseteq 1..n /\ i \notin 1..(i-1)
    BY <1>1
  <2>10. Evolves(a, x)
    BY <2>2, <2>6, EvolvesOn
  <2>11. DOMAIN x = DOMAIN a \cup {gTasks[j].key : j \in 1..i}
    BY <2>2, <2>6, <2>9
  <2>12. ASSUME NEW j \in 1..i, gTasks[j].person # None PROVE x[gTasks[j].key].person # None
    <3>1. CASE j = i
      BY <2>6, <2>7, <2>12, <3>1
    <3>2. CASE j \in 1..(i-1)
      <4>1. gTasks[j].key \in DOMAIN s /\ s[gTasks[j].key].person # None
        BY <2>2, <2>12, <3>2
      <4>. QED  BY <2>6, <4>1 DEF Evolves
    <3>. QED
      BY <2>9, <3>1, <3>2
  <2>13. ASSUME NEW g, \A k \in 1..i : OwnerOf(gTasks[k]) # g PROVE SamePart(g, x, a)
    <3>1. SamePart(g, s, a) /\ g # OwnerOf(t)
      BY <2>3, <2>9, <2>13
    <3>. QED
      BY <2>8, <3>1, PartOn
  <2>14. ASSUME NEW j \in 1..i, Alone(j)
         PROVE  SamePart(OwnerOf(gTasks[j]), x, Sources!JoinTask(a, gTasks[j]))
    <3>1. CASE j = i
      <4>1. \A k \in 1..(i-1) : OwnerOf(gTasks[k]) # OwnerOf(t)
        BY <1>1, <2>9, <2>14, <3>1 DEF Alone
      <4>2. SamePart(OwnerOf(t), s, a)
        BY <2>3, <4>1
      <4>. QED
        BY <2>2, <2>5, <3>1, <4>2, JoinLocal DEF x
    <3>2. CASE j \in 1..(i-1)
      <4>1. SamePart(OwnerOf(gTasks[j]), s, Sources!JoinTask(a, gTasks[j]))
        BY <2>4, <2>14, <3>2
      <4>2. OwnerOf(gTasks[j]) # OwnerOf(t)
        BY <1>1, <2>9, <2>14, <3>2 DEF Alone
      <4>. QED
        BY <2>8, <4>1, <4>2, PartOn
    <3>. QED
      BY <2>9, <3>1, <3>2
  <2>15. Good(x, i)
    BY <2>6, <2>10, <2>11, <2>12, <2>13, <2>14
  <2>16. x \in Trackers /\ i \in 0..n
    BY <1>1, <2>6, TrackerTyped
  <2>. HIDE DEF Good
  <2>. QED
    BY <2>15, <2>16 DEF x
<1>. DEFINE fin == Sources!FoldLeft(Sources!JoinTask, a, gTasks)
<1>4. fin \in I[n]
  <2>. HIDE DEF I
  <2>. QED  BY <1>1, <1>2, <1>3, JoinFold
<1>. HIDE DEF fin
<1>5. Good(fin, n)
  <2>1. n \in 0..n  BY <1>1
  <2>. HIDE DEF Good
  <2>. QED  BY <1>4, <2>1
<1>6. Sources!LoadAliases = fin
  BY DEF Sources!LoadAliases, fin
<1>7. TaskSet = {gTasks[j] : j \in 1..n} /\ TaskKeys = {gTasks[j].key : j \in 1..n}
  BY <1>1 DEF TaskSet, TaskKeys
<1>8. \A g : TasksOf(g) = {} => \A k \in 1..n : OwnerOf(gTasks[k]) # g
  BY <1>1 DEF TasksOf
<1>9. \A t \in TaskSet : t.person # None => fin[t.key].person # None
  BY <1>5, <1>7
<1>. QED
  BY <1>1, <1>5, <1>6, <1>7, <1>8, <1>9

\* What recovery makes of the tasks.
LEMMA RecoveredIs ==
  ASSUME TasksPure
  PROVE  LET n == Sources!Recovered IN
         /\ \A p \in n.kept : \E j \in DOMAIN gTasks :
              /\ Pure(p) /\ p.key = gTasks[j].key /\ p.label = gTasks[j].label
              /\ gTasks[j].src = "shotmap" => p.src = "shotmap"
              /\ gTasks[j].person # None => p.person # None
              /\ p.src = "shotmap" => \E t \in TasksOf(OwnerOf(p)) : t.src = "shotmap"
              /\ Alone(j) => p = gTasks[j]
         /\ \A k \in n.doubles : k \in Sources!Keys /\ \E i, j \in DOMAIN gTasks :
              i # j /\ gTasks[i].key = k /\ OwnerOf(gTasks[j]) = k[1]
<1>. DEFINE n == Len(gTasks)
            From(p, i) == \E j \in 1..i :
              /\ Pure(p) /\ p.key = gTasks[j].key /\ p.label = gTasks[j].label
              /\ gTasks[j].src = "shotmap" => p.src = "shotmap"
              /\ gTasks[j].person # None => p.person # None
              /\ p.src = "shotmap" => \E t \in TasksOf(OwnerOf(p)) : t.src = "shotmap"
              /\ Alone(j) => p = gTasks[j]
            Double(k) == k \in Sources!Keys /\ \E i, j \in DOMAIN gTasks :
              i # j /\ gTasks[i].key = k /\ OwnerOf(gTasks[j]) = k[1]
            Good(s, i) == (\A p \in s.kept : From(p, i)) /\ (\A k \in s.doubles : Double(k))
            States == [kept : SUBSET Sources!Event, doubles : SUBSET Sources!Keys]
            I == [i \in 0..n |-> {s \in States : Good(s, i)}]
            base == [kept |-> {}, doubles |-> {}]
<1>1. n \in Nat /\ DOMAIN gTasks = 1..n /\ \A i \in 1..n : gTasks[i] \in TaskSet /\ Pure(gTasks[i])
  BY DEF TasksPure, TaskSet
<1>. HIDE DEF n
<1>2. base \in I[0]
  <2>1. base \in States /\ Good(base, 0)
    OBVIOUS
  <2>. HIDE DEF Good, base, States
  <2>. QED  BY <1>1, <2>1
<1>3. ASSUME NEW i \in 1..n, NEW s \in I[i-1] PROVE Sources!Recovery(s, gTasks[i]) \in I[i]
  <2>1. s \in States /\ Good(s, i-1) /\ i \in 0..n /\ 1..(i-1) \subseteq 1..i
    <3>. HIDE DEF Good, States
    <3>. QED  BY <1>1, <1>3
  <2>2. Pure(gTasks[i]) /\ gTasks[i] \in TaskSet
    BY <1>1
  <2>3. \A p \in s.kept : From(p, i)
    BY <2>1
  <2>. DEFINE t == gTasks[i]
              x == Sources!Recovery(s, t)
              primary == {p \in s.kept : Sources!SameIncident(p, t, TRUE)}
  <2>4. From(t, i)
    <3>1. i \in 1..i  BY <1>1
    <3>. QED  BY <2>2, <3>1 DEF TasksOf
  <2>5. CASE x = s
    <3>1. Good(s, i)  BY <2>1, <2>3
    <3>. HIDE DEF Good, States
    <3>. QED  BY <2>1, <2>5, <3>1
  <2>6. CASE x = [s EXCEPT !.kept = @ \cup {t}]
    <3>. HIDE DEF x, t
    <3>1. x.kept = s.kept \cup {t} /\ x.doubles = s.doubles /\ x \in States
      BY <2>1, <2>2, <2>6, PureIs DEF t
    <3>. HIDE DEF From, Double
    <3>2. Good(x, i)  BY <2>1, <2>3, <2>4, <3>1
    <3>. HIDE DEF Good, States
    <3>. QED  BY <2>1, <3>2, <3>1 DEF x, t
  <2>7. ASSUME NEW p \in primary,
               x = [kept |-> (s.kept \ {p}) \cup {Sources!Merged(p, t)},
                       doubles |-> s.doubles \cup {t.key}]
        PROVE  x \in I[i]
    <3>. DEFINE m == Sources!Merged(p, t)
    <3>1. PICK j \in 1..(i-1) :
              /\ Pure(p) /\ p.key = gTasks[j].key /\ p.label = gTasks[j].label
              /\ gTasks[j].src = "shotmap" => p.src = "shotmap"
              /\ gTasks[j].person # None => p.person # None
              /\ p.src = "shotmap" => \E u \in TasksOf(OwnerOf(p)) : u.src = "shotmap"
              /\ Alone(j) => p = gTasks[j]
      BY <2>1
    <3>2. OwnerOf(p) = OwnerOf(t) /\ p.label = t.label
      BY <2>2, <3>1, SameOwner
    <3>3. /\ Pure(m) /\ OwnerOf(m) = OwnerOf(p) /\ m.key = p.key /\ m.label = t.label
          /\ m.src = "shotmap" <=> (p.src = "shotmap" \/ t.src = "shotmap")
          /\ m.person # None <=> (p.person # None \/ t.person # None)
      BY <2>2, <3>1, <3>2, MergedIs
    <3>. HIDE DEF m
    <3>4. j \in 1..i /\ j \in DOMAIN gTasks /\ i \in DOMAIN gTasks /\ i # j
      BY <1>1
    <3>5. OwnerOf(gTasks[j]) = OwnerOf(t)
      BY <3>1, <3>2 DEF OwnerOf
    <3>6. ~Alone(j)
      BY <3>4, <3>5 DEF Alone
    <3>7. t.src = "shotmap" => \E u \in TasksOf(OwnerOf(t)) : u.src = "shotmap"
      BY <2>2 DEF TasksOf
    <3>8. From(m, i)
      <4>1. m.key = gTasks[j].key /\ m.label = gTasks[j].label
        BY <3>1, <3>2, <3>3
      <4>2. gTasks[j].src = "shotmap" => m.src = "shotmap"
        BY <3>1, <3>3
      <4>3. gTasks[j].person # None => m.person # None
        BY <3>1, <3>3
      <4>4. m.src = "shotmap" => \E u \in TasksOf(OwnerOf(m)) : u.src = "shotmap"
        BY <3>1, <3>2, <3>3, <3>7
      <4>. HIDE DEF t
      <4>. QED  BY <3>3, <3>4, <3>6, <4>1, <4>2, <4>3, <4>4
    <3>9. Double(t.key)
      BY <2>2, <3>4, <3>5, PureIs DEF OwnerOf
    <3>10. m \in Sources!Event /\ t.key \in Sources!Keys
      BY <2>2, <3>3, PureIs
    <3>. HIDE DEF x, t, From, Double
    <3>11. x.kept = (s.kept \ {p}) \cup {m} /\ x.doubles = s.doubles \cup {t.key} /\ x \in States
      BY <2>1, <2>7, <3>10 DEF m
    <3>12. Good(x, i)
      BY <2>1, <2>3, <3>8, <3>9, <3>11
    <3>13. x \in States  BY <3>11
    <3>. HIDE DEF Good, States
    <3>. QED
      BY <2>1, <3>12, <3>13
  <2>8. CASE t.key \notin gSuppressed /\ Sources!Cardinality(primary) = 1
    <3>1. primary # {}
      <4>. HIDE DEF primary
      <4>. QED  BY <2>8, OneIs
    <3>2. (CHOOSE q \in primary : TRUE) \in primary
      <4>. HIDE DEF primary
      <4>. QED  BY <3>1
    <3>3. x = LET p == CHOOSE q \in primary : TRUE
              IN  [kept |-> (s.kept \ {p}) \cup {Sources!Merged(p, t)},
                      doubles |-> s.doubles \cup {t.key}]
      BY <2>8 DEF Sources!Recovery
    <3>. HIDE DEF primary, x, t, I
    <3>. QED
      BY <2>7, <3>2, <3>3 DEF x, t
  <2>9. CASE t.key \in gSuppressed
    BY <2>5, <2>9 DEF Sources!Recovery
  <2>10. CASE t.key \notin gSuppressed /\ Sources!Cardinality(primary) # 1
    BY <2>6, <2>10 DEF Sources!Recovery
  <2>. QED
    BY <2>8, <2>9, <2>10
<1>. DEFINE fin == Sources!FoldLeft(Sources!Recovery, base, gTasks)
<1>4. fin \in I[n]
  <2>. HIDE DEF I, base
  <2>. QED  BY <1>1, <1>2, <1>3, RecoveryFold
<1>. HIDE DEF fin
<1>5. Good(fin, n)
  <2>1. n \in 0..n  BY <1>1
  <2>. HIDE DEF Good, States
  <2>. QED  BY <1>4, <2>1
<1>6. Sources!Recovered = fin
  BY DEF Sources!Recovered, fin
<1>. QED
  BY <1>1, <1>5, <1>6

-----------------------------------------------------------------------------
(* The steps. *)
\* What follows from the tasks alone.
LEMMA TasksFrame ==
  ASSUME gTasks' = gTasks
  PROVE  /\ TaskSet' = TaskSet /\ TaskKeys' = TaskKeys
         /\ \A g : TasksOf(g)' = TasksOf(g) /\ (OverviewOnly(g)' <=> OverviewOnly(g))
         /\ \A tr : Backed(tr)' <=> Backed(tr)
         /\ \A g, tr, keys : Traced(g, tr, keys)' <=> Traced(g, tr, keys)
<1>1. TaskSet' = TaskSet  BY DEF TaskSet
<1>2. TaskKeys' = TaskKeys  BY <1>1 DEF TaskKeys
<1>3. \A g : TasksOf(g)' = TasksOf(g)  BY <1>1 DEF TasksOf
<1>4. \A g : OverviewOnly(g)' <=> OverviewOnly(g)  BY <1>3 DEF OverviewOnly
<1>5. \A tr : Backed(tr)' <=> Backed(tr)  BY <1>1, <1>2, <1>3 DEF Backed
<1>6. \A g, tr, keys : Traced(g, tr, keys)' <=> Traced(g, tr, keys)
    BY <1>2, <1>3, <1>4 DEF Traced
<1>. QED  BY <1>1, <1>2, <1>3, <1>4, <1>5, <1>6

LEMMA TodoFrame ==
  ASSUME gTodo' = gTodo
  PROVE  Promoted' = Promoted /\ \A g : New(g)' = New(g)
<1>1. Promoted' = Promoted  BY DEF Promoted
<1>2. \A g : New(g)' = New(g)  BY DEF New
<1>. QED  BY <1>1, <1>2

\* The invariant holds at the start, where nothing is known.
LEMMA SourcesInit == Sources!Init => SourcesInv
<1>. SUFFICES ASSUME Sources!Init PROVE SourcesInv
  OBVIOUS
<1>1. /\ gNear \in BOOLEAN /\ gUp = FALSE /\ gPolled = FALSE
      /\ gFeed = [g \in Pair |-> "none"] /\ gShots = [g \in Pair |-> 0]
      /\ gFirst = [g \in Pair |-> "none"]
      /\ gTasks = <<>> /\ gSuppressed = {} /\ gCursor = None /\ gAliasRows = <<>>
      /\ gSnapshot = {} /\ gSeen = None /\ gTracker = <<>>
      /\ gResponse = None /\ gPending = {} /\ gTodo = {}
  BY DEF Sources!Init
<1>2. DOMAIN gTasks = {} /\ DOMAIN gTracker = {} /\ DOMAIN gAliasRows = {}
  BY <1>1
<1>3. TaskSet = {} /\ TaskKeys = {} /\ Promoted = {} /\ \A g : TasksOf(g) = {} /\ New(g) = {}
  BY <1>1, <1>2 DEF TaskSet, TaskKeys, Promoted, TasksOf, New
<1>4. ShotsOnce
  BY <1>1, <1>3, SourcesConstants DEF ShotsOnce
<1>5. Forgotten
  BY <1>1 DEF Forgotten
<1>6. TasksPure
  BY <1>1, <1>2, <1>3 DEF TasksPure
<1>7. ShotTasks /\ TodoOK
  BY <1>1, <1>3 DEF ShotTasks, TodoOK
<1>8. Watched
  BY <1>1, <1>2 DEF Watched, Some
<1>9. /\ Tracker(gTracker) /\ Backed(gTracker) /\ Displayed(gTracker)
      /\ Tracker(gAliasRows) /\ Backed(gAliasRows) /\ Displayed(gAliasRows)
  BY <1>1, <1>2, <1>3 DEF Tracker, Backed, Displayed
<1>10. AllNamed
  BY <1>1, <1>2, <1>3 DEF AllNamed, Named
<1>11. ASSUME NEW g \in Pair PROVE Accounted(g)
  BY <1>1, <1>2, <1>3 DEF Accounted, Traced, OverviewOnly
<1>. QED
  BY <1>1, <1>4, <1>5, <1>6, <1>7, <1>8, <1>9, <1>10, <1>11 DEF SourcesInv, Orderly

\* The match: what the overview shows was not shown before.
LEMMA FeedStep ==
  ASSUME SourcesInv, NEW h \in Pair, Sources!FeedShows(h) PROVE SourcesInv'
<1>1. /\ UNCHANGED <<gNear, gUp, gPolled, gShots, gFirst, gTorn>>
      /\ UNCHANGED <<gTasks, gSuppressed, gCursor, gAliasRows, gSnapshot>>
      /\ UNCHANGED <<gSeen, gTracker, gLatest, gResponse, gCores, gPending, gTodo>>
  BY DEF Sources!FeedShows, Sources!world, Sources!store, Sources!source, Sources!shotmap
<1>2. PICK form \in {"bare", "named"} :
         /\ gFeed[h] = "none" \/ (gFeed[h] = "bare" /\ form = "named")
         /\ gFeed' = [gFeed EXCEPT ![h] = form]
  BY DEF Sources!FeedShows
<1>3. /\ TaskSet' = TaskSet /\ TaskKeys' = TaskKeys
      /\ \A g : TasksOf(g)' = TasksOf(g) /\ (OverviewOnly(g)' <=> OverviewOnly(g))
      /\ \A tr : Backed(tr)' <=> Backed(tr)
      /\ \A g, tr, keys : Traced(g, tr, keys)' <=> Traced(g, tr, keys)
      /\ Promoted' = Promoted /\ \A g : New(g)' = New(g)
  BY <1>1, TasksFrame, TodoFrame
<1>4. ShotsOnce' /\ Forgotten'
  BY <1>1, <1>3 DEF SourcesInv, ShotsOnce, Forgotten
<1>5. SUFFICES ASSUME Separable' PROVE Orderly'
  BY <1>1, <1>4 DEF SourcesInv
<1>6. Orderly
  BY <1>1, <1>5 DEF SourcesInv, Separable
<1>7. gFeed \in [Pair -> {"none", "bare", "named"}]
  BY <1>6 DEF Orderly, Watched
<1>8. \A g \in Pair : gFeed'[g] = gFeed[g] \/ (g = h /\ gFeed'[g] = form)
  BY <1>2, <1>7
<1>9. \A g \in Pair, f \in {"bare", "named"} : gFeed[g] \in {f, "named"} =>
        gFeed'[g] \in {f, "named"}
  BY <1>2, <1>8
<1>10. TasksPure'
  <2>1. \A t \in TaskSet : Listed(t.key) => t.key[2] \in {"bare", "named"} /\ OwnerOf(t) \in Pair
    BY <1>6, PureIs, KeyIs DEF Orderly, TasksPure, Listed
  <2>2. TasksPure
    BY <1>6 DEF Orderly
  <2>. QED
    BY <1>1, <1>3, <1>9, <2>1, <2>2 DEF TasksPure
<1>11. ASSUME NEW tr, Tracker(tr), Displayed(tr) PROVE Displayed(tr)'
  <2>1. \A v \in DOMAIN tr : Listed(v) => v[2] \in {"bare", "named"} /\ v[1] \in Pair
    BY <1>11, KeyIs DEF Tracker, Listed
  <2>. QED
    BY <1>1, <1>9, <1>11, <2>1 DEF Displayed
<1>12. ShotTasks' /\ TodoOK' /\ AllNamed'
  BY <1>1, <1>3, <1>6 DEF Orderly, ShotTasks, TodoOK, AllNamed, Named, Some
<1>13. Watched'
  <2>1. Watched /\ Displayed(gTracker)
    BY <1>6 DEF Orderly
  <2>2. gFeed' \in [Pair -> {"none", "bare", "named"}]
    BY <1>2, <1>7
  <2>3. \A g \in Pair : gFeed'[g] = "bare" => gFeed[g] \in {"none", "bare"}
    BY <1>2, <1>7, <1>8
  <2>4. \A g \in Pair : gFeed[g] = "none" => <<g, "bare", 0>> \notin DOMAIN gTracker /\
          gFirst[g] = "none"
    BY <2>1 DEF Watched, Displayed, Listed
  <2>5. \A g \in Pair : gFeed[g] # "none" => gFeed'[g] # "none"
    BY <1>2, <1>8
  <2>6. \A g \in Pair : gFeed[g] = "named" => gFeed'[g] = "named"
    BY <1>2, <1>8
  <2>7. \A g \in Pair : gFirst[g] = "seeded" /\ gFeed'[g] = "bare" => gFeed[g] = "bare"
    BY <2>3, <2>4
  <2>8. \A g \in Pair : gFeed'[g] = "bare" /\ <<g, "bare", 0>> \in DOMAIN gTracker =>
          gFeed[g] = "bare"
    BY <2>3, <2>4
  <2>. QED
    BY <1>1, <2>1, <2>2, <2>5, <2>6, <2>7, <2>8 DEF Watched, Some
<1>14. ASSUME NEW g \in Pair \ gTorn PROVE Accounted(g)'
  <2>1. Accounted(g)
    BY <1>6 DEF Orderly
  <2>2. Unremembered(g)' <=> Unremembered(g)
    BY <1>1 DEF Unremembered
  <2>. QED
    BY <1>1, <1>3, <2>1, <2>2 DEF Accounted, Some
<1>. QED
  BY <1>1, <1>3, <1>6, <1>10, <1>11, <1>12, <1>13, <1>14 DEF Orderly

\* A step that leaves the goals of the overview and the process as they are.
LEMMA ShotFrame ==
  ASSUME SourcesInv,
         UNCHANGED <<gNear, gUp, gPolled, gFeed, gFirst, gTorn>>,
         UNCHANGED <<gTasks, gSuppressed, gCursor, gAliasRows, gSnapshot>>,
         UNCHANGED <<gSeen, gTracker, gLatest, gPending, gTodo>>
  PROVE  Separable' => Orderly'
<1>. SUFFICES ASSUME Separable' PROVE Orderly'
  OBVIOUS
<1>1. /\ TaskSet' = TaskSet /\ TaskKeys' = TaskKeys
      /\ \A g : TasksOf(g)' = TasksOf(g) /\ (OverviewOnly(g)' <=> OverviewOnly(g))
      /\ \A tr : Backed(tr)' <=> Backed(tr)
      /\ \A g, tr, keys : Traced(g, tr, keys)' <=> Traced(g, tr, keys)
      /\ Promoted' = Promoted /\ \A g : New(g)' = New(g)
  BY TasksFrame, TodoFrame
<1>2. Orderly
  BY DEF SourcesInv, Separable
<1>3. TasksPure' /\ ShotTasks' /\ TodoOK' /\ AllNamed'
  BY <1>1, <1>2 DEF Orderly, TasksPure, ShotTasks, TodoOK, AllNamed, Named, Some
<1>4. \A tr : Displayed(tr)' <=> Displayed(tr)
  BY DEF Displayed
<1>5. Watched'
  BY <1>2 DEF Orderly, Watched, Some
<1>6. ASSUME NEW g \in Pair \ gTorn PROVE Accounted(g)'
  <2>1. Accounted(g)
    BY <1>2 DEF Orderly
  <2>2. Unremembered(g)' <=> Unremembered(g)
    BY DEF Unremembered
  <2>. QED
    BY <1>1, <2>1, <2>2 DEF Accounted, Some
<1>. QED
  BY <1>1, <1>2, <1>3, <1>4, <1>5, <1>6 DEF Orderly

\* The shotmap lists a goal, or corrects it.
LEMMA ShotStep ==
  ASSUME SourcesInv, NEW h \in Pair, Sources!ShotShows(h) PROVE SourcesInv'
<1>1. /\ UNCHANGED <<gNear, gUp, gPolled, gFeed, gFirst, gTorn>>
      /\ UNCHANGED <<gTasks, gSuppressed, gCursor, gAliasRows, gSnapshot>>
      /\ UNCHANGED <<gSeen, gTracker, gLatest, gResponse, gCores, gPending, gTodo>>
      /\ gShots[h] < Versions[h] /\ gShots' = [gShots EXCEPT ![h] = @ + 1]
  BY DEF Sources!ShotShows, Sources!store, Sources!source, Sources!shotmap
<1>2. ShotsOnce /\ Promoted' = Promoted
  BY <1>1, TodoFrame DEF SourcesInv
<1>3. gShots' \in [Pair -> Nat] /\ \A g \in Pair : gShots'[g] <= Versions[g]
  BY <1>1, <1>2, SourcesConstants DEF ShotsOnce
<1>4. \A g \in Pair : gShots[g] > 0 => gShots'[g] > 0
  BY <1>1, <1>2 DEF ShotsOnce
<1>5. \A s \in Sources!Shots : s[1] \in Pair
  BY ShotIs
<1>6. ShotsOnce'
  <2>1. \A s \in gSnapshot : s \in Pair /\ gShots'[s] > 0
    BY <1>2, <1>4 DEF ShotsOnce
  <2>2. ASSUME gResponse # None, NEW s \in gResponse PROVE gShots'[s[1]] > 0
    BY <1>2, <1>4, <1>5, <2>2 DEF ShotsOnce
  <2>. QED
    BY <1>1, <1>2, <1>3, <2>1, <2>2 DEF ShotsOnce
<1>. QED
  BY <1>1, <1>6, ShotFrame DEF SourcesInv, Forgotten

\* A response lists every goal at most once.
LEMMA FetchStep ==
  ASSUME SourcesInv, Sources!Fetch PROVE SourcesInv'
<1>. DEFINE listed == {<<g, gShots[g]>> : g \in {k \in Pair : gShots[k] > 0}}
<1>1. /\ UNCHANGED <<gNear, gUp, gPolled, gFeed, gFirst, gTorn>>
      /\ UNCHANGED <<gTasks, gSuppressed, gCursor, gAliasRows, gSnapshot>>
      /\ UNCHANGED <<gSeen, gTracker, gLatest, gCores, gPending, gTodo, gShots>>
      /\ gUp /\ gResponse' = listed
  BY DEF Sources!Fetch, Sources!store, Sources!source, Sources!world
<1>2. ShotsOnce /\ Promoted' = Promoted
  BY <1>1, TodoFrame DEF SourcesInv
<1>3. listed \subseteq Sources!Shots
  <2>1. ASSUME NEW g \in Pair, gShots[g] > 0 PROVE <<g, gShots[g]>> \in Sources!Shots
    <3>1. gShots[g] \in 1..Versions[g]
      BY <1>2, <2>1, SourcesConstants DEF ShotsOnce
    <3>. QED  BY <3>1 DEF Sources!Shots
  <2>. QED  BY <2>1
<1>4. /\ \A s \in listed : gShots[s[1]] > 0
      /\ \A s, u \in listed : s[1] = u[1] => s = u
      /\ gSnapshot \subseteq {s[1] : s \in listed}
  <2>1. \A s \in listed : gShots[s[1]] > 0 /\ s = <<s[1], gShots[s[1]]>>
    OBVIOUS
  <2>2. ASSUME NEW g \in gSnapshot PROVE g \in {s[1] : s \in listed}
    <3>1. <<g, gShots[g]>> \in listed  BY <1>2 DEF ShotsOnce
    <3>2. <<g, gShots[g]>>[1] = g  OBVIOUS
    <3>. HIDE DEF listed
    <3>. QED  BY <3>1, <3>2
  <2>. HIDE DEF listed
  <2>. QED  BY <2>1, <2>2
<1>. HIDE DEF listed
<1>5. ShotsOnce'
  BY <1>1, <1>2, <1>3, <1>4 DEF ShotsOnce
<1>. QED
  BY <1>1, <1>5, ShotFrame DEF SourcesInv, Forgotten

\* What the pass has read is remembered: nothing of it is new any more.
LEMMA RememberStep ==
  ASSUME SourcesInv, Sources!Remember PROVE SourcesInv'
<1>1. /\ UNCHANGED <<gNear, gUp, gFeed, gShots, gFirst, gTorn, gTasks, gSuppressed, gSnapshot>>
      /\ UNCHANGED <<gSeen, gTracker, gLatest, gResponse, gCores, gPending, gTodo>>
      /\ gUp /\ gTodo = {} /\ gPolled /\ gPolled' = FALSE
      /\ gCursor' = gSeen \cup Some(gCursor) /\ gAliasRows' = gTracker
  BY DEF Sources!Remember, Sources!world, Sources!source, Sources!shotmap, Some
<1>2. /\ TaskSet' = TaskSet /\ TaskKeys' = TaskKeys
      /\ \A g : TasksOf(g)' = TasksOf(g) /\ (OverviewOnly(g)' <=> OverviewOnly(g))
      /\ \A tr : Backed(tr)' <=> Backed(tr)
      /\ \A g, tr, keys : Traced(g, tr, keys)' <=> Traced(g, tr, keys)
      /\ Promoted' = Promoted /\ \A g : New(g)' = New(g)
  BY <1>1, TasksFrame, TodoFrame
<1>3. ShotsOnce' /\ Forgotten'
  BY <1>1, <1>2 DEF SourcesInv, ShotsOnce, Forgotten
<1>4. SUFFICES ASSUME Separable' PROVE Orderly'
  BY <1>1, <1>3 DEF SourcesInv
<1>5. Orderly
  BY <1>1, <1>4 DEF SourcesInv, Separable
<1>6. TasksPure' /\ ShotTasks' /\ TodoOK'
  BY <1>1, <1>2, <1>5 DEF Orderly, TasksPure, ShotTasks, TodoOK
<1>7. \A tr : Displayed(tr)' <=> Displayed(tr)
  BY <1>1 DEF Displayed
<1>8. gSeen # None /\ gSeen \subseteq DOMAIN gTracker /\ Some(gSeen) = gSeen
  BY <1>1, <1>5 DEF Orderly, TodoOK, Watched, Some
<1>9. Some(gCursor) \subseteq DOMAIN gTracker
  BY <1>1, <1>5 DEF Orderly, Watched, Some
<1>10. gCursor' # None /\ Some(gCursor)' = gSeen \cup Some(gCursor) /\ Some(gSeen)' = gSeen
  <2>1. gSeen \cup Some(gCursor) \in SUBSET Sources!Keys
    BY <1>5, <1>8, <1>9 DEF Orderly, Tracker
  <2>. QED
    BY <1>1, <1>8, <2>1, SourcesConstants DEF Some
<1>11. Watched'
  BY <1>1, <1>5, <1>8, <1>9, <1>10 DEF Orderly, Watched
<1>12. AllNamed'
  BY <1>1, <1>2, <1>5, <1>8, <1>10 DEF Orderly, AllNamed, Named
<1>13. ASSUME NEW g \in Pair \ gTorn PROVE Accounted(g)'
  <2>1. Accounted(g)
    BY <1>5 DEF Orderly
  <2>2. New(g) = {} /\ ~Unremembered(g)'
    BY <1>1 DEF New, Unremembered
  <2>3. Traced(g, gTracker, gSeen)
    BY <1>1, <2>1 DEF Accounted
  <2>4. Traced(g, gTracker, gCursor')
    BY <1>8, <1>10, <2>3 DEF Traced, Some
  <2>5. Traced(g, gAliasRows, gCursor)' /\ Traced(g, gTracker, gSeen)'
    BY <1>1, <1>2, <2>3, <2>4
  <2>. QED
    BY <1>1, <1>2, <2>1, <2>2, <2>5 DEF Accounted
<1>. QED
  BY <1>1, <1>2, <1>5, <1>6, <1>7, <1>11, <1>12, <1>13 DEF Orderly

\* A process dies: goals whose rows were not remembered are torn.
LEMMA CrashStep ==
  ASSUME SourcesInv, Sources!Crash PROVE SourcesInv'
<1>1. /\ UNCHANGED <<gNear, gFeed, gShots, gFirst, gTasks, gSuppressed, gCursor, gAliasRows,
        gSnapshot>>
      /\ gUp /\ gUp' = FALSE /\ gPolled' = FALSE
      /\ gSeen' = None /\ gTracker' = <<>> /\ gResponse' = None /\ gPending' = {} /\ gTodo' = {}
      /\ gTorn' = gTorn \cup {v[1] : v \in {w \in DOMAIN gTracker \ DOMAIN gAliasRows : w[2] # "shot"}}
  BY DEF Sources!Crash, Sources!world, Sources!store
<1>2. /\ TaskSet' = TaskSet /\ TaskKeys' = TaskKeys
      /\ \A g : TasksOf(g)' = TasksOf(g) /\ (OverviewOnly(g)' <=> OverviewOnly(g))
      /\ \A tr : Backed(tr)' <=> Backed(tr)
      /\ \A g, tr, keys : Traced(g, tr, keys)' <=> Traced(g, tr, keys)
  BY <1>1, TasksFrame
<1>3. Promoted' = {} /\ (\A g : New(g)' = {}) /\ DOMAIN gTracker' = {} /\ Some(gSeen)' = {}
  BY <1>1 DEF Promoted, New, Some
<1>4. ShotsOnce' /\ Forgotten'
  BY <1>1, <1>3 DEF SourcesInv, ShotsOnce, Forgotten
<1>5. SUFFICES ASSUME Separable' PROVE Orderly'
  BY <1>1, <1>4 DEF SourcesInv
<1>6. Orderly
  BY <1>1, <1>5 DEF SourcesInv, Separable
<1>7. TasksPure' /\ ShotTasks' /\ TodoOK'
  BY <1>1, <1>2, <1>3, <1>6 DEF Orderly, TasksPure, ShotTasks, TodoOK
<1>8. \A tr : Displayed(tr)' <=> Displayed(tr)
  BY <1>1 DEF Displayed
<1>9. Watched'
  BY <1>1, <1>3, <1>6 DEF Orderly, Watched, Some
<1>10. AllNamed'
  BY <1>1, <1>2, <1>3, <1>6 DEF Orderly, AllNamed, Named, Some
<1>11. Tracker(<<>>) /\ Backed(<<>>) /\ Displayed(<<>>)
  <2>1. DOMAIN <<>> = {}  OBVIOUS
  <2>. QED  BY <2>1 DEF Tracker, Backed, Displayed
<1>12. ASSUME NEW g \in Pair \ gTorn' PROVE Accounted(g)'
  <2>1. Accounted(g)
    BY <1>1, <1>6, <1>12 DEF Orderly
  <2>2. ~Unremembered(g)
    BY <1>1, <1>12 DEF Unremembered, Listed
  <2>3. New(g) = {}
    BY <2>1, <2>2 DEF Accounted
  <2>4. Traced(g, gAliasRows, gCursor)'
    BY <1>1, <1>2, <2>1, <2>2 DEF Accounted
  <2>. QED
    BY <1>1, <1>2, <1>3, <2>1, <2>3, <2>4 DEF Accounted
<1>. QED
  BY <1>1, <1>2, <1>6, <1>7, <1>8, <1>9, <1>10, <1>11, <1>12 DEF Orderly

\* A goal that was told has one task, and one that is remembered has it.
LEMMA InvImplies ==
  ASSUME SourcesInv PROVE Sources!OneTaskPerGoal /\ Sources!GoalHasTask
<1>1. ASSUME NEW g \in Pair, Sources!Told(g) PROVE Orderly /\ Accounted(g)
  <2>1. Separable  BY <1>1 DEF Sources!Told, Separable
  <2>2. Orderly  BY <2>1 DEF SourcesInv
  <2>. QED  BY <1>1, <2>2 DEF Orderly, Sources!Told
<1>2. ASSUME Orderly, NEW t \in TaskSet PROVE Sources!Of(t) = OwnerOf(t)
  <2>1. TasksPure  BY <1>2 DEF Orderly
  <2>2. Pure(t) /\ (Listed(t.key) => t.label = "overview")
    BY <2>1 DEF TasksPure
  <2>. QED
    BY <2>2, PureIs DEF Sources!Of
<1>3. ASSUME NEW g \in Pair, Sources!Told(g)
      PROVE  \A i, j \in DOMAIN gTasks :
                OwnerOf(gTasks[i]) = g /\ OwnerOf(gTasks[j]) = g => i = j
  <2>1. TasksPure /\ Accounted(g)
    BY <1>1, <1>3 DEF Orderly
  <2>2. ASSUME NEW i \in DOMAIN gTasks, NEW j \in DOMAIN gTasks,
               OwnerOf(gTasks[i]) = g, OwnerOf(gTasks[j]) = g
        PROVE  i = j
    <3>1. gTasks[i] \in TasksOf(g) /\ gTasks[j] \in TasksOf(g)
      BY <2>2 DEF TasksOf, TaskSet
    <3>2. gTasks[i].key = gTasks[j].key
      BY <2>1, <3>1 DEF Accounted
    <3>. QED  BY <2>1, <3>2 DEF TasksPure
  <2>. QED  BY <2>2
<1>4. ASSUME NEW g \in Pair, Sources!Told(g) PROVE Sources!Cardinality(Sources!Tasks(g)) <= 1
  <2>. DEFINE T == Sources!Tasks(g)
  <2>1. \A i, j \in T : i = j
    <3>1. \A i \in T : i \in DOMAIN gTasks /\ OwnerOf(gTasks[i]) = g
      BY <1>1, <1>2, <1>4 DEF Sources!Tasks, TaskSet
    <3>. HIDE DEF T
    <3>. QED  BY <1>3, <1>4, <3>1
  <2>. HIDE DEF T
  <2>2. CASE T = {}
    <3>1. Cardinality(T) = 0  BY <2>2, FS_EmptySet
    <3>. QED  BY <3>1, CardIs DEF T
  <2>3. CASE T # {}
    <3>1. PICK i \in T : TRUE  BY <2>3
    <3>2. T = {i}  BY <2>1, <3>1
    <3>3. Sources!Cardinality(T) = 1  BY <3>2, OneIs
    <3>. QED  BY <3>3 DEF T
  <2>. QED
    BY <2>2, <2>3
<1>5. ASSUME NEW g \in Pair, gFirst[g] \in {"bare", "named"}, Sources!Told(g), Sources!Remembered(g)
      PROVE  Sources!Tasks(g) # {}
  <2>1. Orderly /\ TasksPure /\ Accounted(g) /\ Tracker(gAliasRows)
    BY <1>1, <1>5 DEF Orderly
  <2>2. PICK v \in DOMAIN gAliasRows : v[1] = g /\ gCursor # None /\ gAliasRows[v].key \in gCursor
    BY <1>5 DEF Sources!Remembered
  <2>3. gAliasRows[v].key[1] = g
    BY <2>1, <2>2, TrackerIs
  <2>4. PICK t \in TasksOf(g) : TRUE
    BY <1>5, <2>1, <2>2, <2>3 DEF Accounted, Some
  <2>5. PICK i \in DOMAIN gTasks : gTasks[i] = t /\ OwnerOf(t) = g /\ t \in TaskSet
    BY <2>4 DEF TasksOf, TaskSet
  <2>6. Sources!Of(gTasks[i]) = g
    BY <1>2, <2>1, <2>5
  <2>7. gTasks[i].key \notin gSuppressed
    <3>1. SUFFICES ASSUME gTasks[i].key \in gSuppressed PROVE FALSE  OBVIOUS
    <3>2. PICK a \in DOMAIN gTasks, b \in DOMAIN gTasks :
             a # b /\ gTasks[a].key = gTasks[i].key /\ OwnerOf(gTasks[b]) = gTasks[i].key[1]
      BY <2>1, <3>1 DEF TasksPure
    <3>3. OwnerOf(gTasks[a]) = g /\ OwnerOf(gTasks[b]) = g
      BY <2>5, <3>2 DEF OwnerOf
    <3>. QED  BY <1>3, <1>5, <3>2, <3>3
  <2>. QED
    BY <2>6, <2>7 DEF Sources!Tasks
<1>. QED
  BY <1>4, <1>5 DEF Sources!OneTaskPerGoal, Sources!GoalHasTask

-----------------------------------------------------------------------------
(* A process starts. *)
\* The tasks after recovery, one by one.
LEMMA RestoredIs ==
  ASSUME TasksPure, Sources!Start
  PROVE  /\ DOMAIN gTasks' = DOMAIN gTasks /\ gTasks' \in Seq(Sources!Event)
         /\ \A i \in DOMAIN gTasks :
              /\ gTasks[i] \in TaskSet /\ gTasks'[i] \in TaskSet'
              /\ Pure(gTasks'[i]) /\ gTasks'[i].key = gTasks[i].key /\
                      gTasks'[i].label = gTasks[i].label
              /\ gTasks[i].src = "shotmap" => gTasks'[i].src = "shotmap"
              /\ gTasks[i].person # None => gTasks'[i].person # None
              /\ gTasks'[i].src = "shotmap" =>
                      \E t \in TasksOf(OwnerOf(gTasks[i])) : t.src = "shotmap"
              /\ Alone(i) => gTasks'[i] = gTasks[i]
<1>. DEFINE kept == Sources!Recovered.kept
            of(i) == {p \in kept : p.key = gTasks[i].key}
            one(i) == CHOOSE p \in kept : p.key = gTasks[i].key
<1>1. gTasks' = [i \in DOMAIN gTasks |->
                   IF \E p \in kept : p.key = gTasks[i].key THEN one(i) ELSE gTasks[i]]
  BY DEF Sources!Start
<1>2. \A p \in kept : \E j \in DOMAIN gTasks :
              /\ Pure(p) /\ p.key = gTasks[j].key /\ p.label = gTasks[j].label
              /\ gTasks[j].src = "shotmap" => p.src = "shotmap"
              /\ gTasks[j].person # None => p.person # None
              /\ p.src = "shotmap" => \E t \in TasksOf(OwnerOf(p)) : t.src = "shotmap"
              /\ Alone(j) => p = gTasks[j]
  BY RecoveredIs
<1>. HIDE DEF kept
<1>3. DOMAIN gTasks' = DOMAIN gTasks
  BY <1>1
<1>4. ASSUME NEW i \in DOMAIN gTasks
      PROVE  /\ gTasks[i] \in TaskSet
             /\ Pure(gTasks'[i]) /\ gTasks'[i].key = gTasks[i].key /\
                     gTasks'[i].label = gTasks[i].label
             /\ gTasks[i].src = "shotmap" => gTasks'[i].src = "shotmap"
             /\ gTasks[i].person # None => gTasks'[i].person # None
             /\ gTasks'[i].src = "shotmap" =>
                     \E t \in TasksOf(OwnerOf(gTasks[i])) : t.src = "shotmap"
             /\ Alone(i) => gTasks'[i] = gTasks[i]
  <2>1. gTasks[i] \in TaskSet /\ Pure(gTasks[i])
    BY DEF TaskSet, TasksPure
  <2>2. CASE \E p \in kept : p.key = gTasks[i].key
    <3>. DEFINE p == one(i)
    <3>1. p \in kept /\ p.key = gTasks[i].key
      BY <2>2
    <3>2. gTasks'[i] = p
      BY <1>1, <2>2
    <3>. HIDE DEF p
    <3>3. PICK j \in DOMAIN gTasks :
              /\ Pure(p) /\ p.key = gTasks[j].key /\ p.label = gTasks[j].label
              /\ gTasks[j].src = "shotmap" => p.src = "shotmap"
              /\ gTasks[j].person # None => p.person # None
              /\ p.src = "shotmap" => \E t \in TasksOf(OwnerOf(p)) : t.src = "shotmap"
              /\ Alone(j) => p = gTasks[j]
      BY <1>2, <3>1
    <3>4. i = j
      BY <3>1, <3>3 DEF TasksPure
    <3>5. OwnerOf(p) = OwnerOf(gTasks[i])
      BY <3>1 DEF OwnerOf
    <3>. QED
      BY <2>1, <3>1, <3>2, <3>3, <3>4, <3>5
  <2>3. CASE ~ \E p \in kept : p.key = gTasks[i].key
    <3>1. gTasks'[i] = gTasks[i]
      BY <1>1, <2>3
    <3>. QED
      BY <2>1, <3>1 DEF TasksOf
  <2>. QED
    BY <2>2, <2>3
<1>5. \A i \in DOMAIN gTasks : gTasks'[i] \in TaskSet'
  BY <1>3 DEF TaskSet
<1>6. gTasks' \in Seq(Sources!Event)
  <2>1. Len(gTasks) \in Nat /\ DOMAIN gTasks = 1..Len(gTasks)
    BY DEF TasksPure
  <2>2. \A i \in 1..Len(gTasks) : gTasks'[i] \in Sources!Event
    BY <1>4, <2>1, PureIs
  <2>3. gTasks' \in [1..Len(gTasks) -> Sources!Event]
    BY <1>1, <2>1, <2>2
  <2>. QED
    BY <2>1, <2>3
<1>. QED
  BY <1>3, <1>4, <1>5, <1>6

\* A process starts: the alias rows and the tasks make the tracker, and recovery
\* changes no goal that has one task.
LEMMA StartStep ==
  ASSUME SourcesInv, Sources!Start PROVE SourcesInv'
<1>. DEFINE n == Sources!LoadAliases
<1>1. /\ UNCHANGED <<gNear, gFeed, gShots, gFirst, gTorn, gCursor, gAliasRows, gSnapshot>>
      /\ UNCHANGED <<gResponse, gPending, gTodo, gPolled>>
      /\ ~gUp /\ gUp' = TRUE
      /\ gSeen' = gCursor /\ gTracker' = n /\ gLatest' = Sources!Canonicals(n) /\
              gCores' = gSnapshot
      /\ \E left \in SUBSET Sources!Recovered.doubles : gSuppressed' = gSuppressed \cup left
  BY DEF Sources!Start
<1>. HIDE DEF n
<1>2. Promoted' = {} /\ (\A g : New(g)' = {} /\ New(g) = {}) /\ gTodo' = {} /\ gPending' = {} /\
        gResponse' = None /\ gPolled' = FALSE
  BY <1>1 DEF Promoted, New, SourcesInv, Forgotten
<1>3. ShotsOnce' /\ Forgotten'
  BY <1>1, <1>2 DEF SourcesInv, ShotsOnce, Forgotten
<1>4. SUFFICES ASSUME Separable' PROVE Orderly'
  BY <1>1, <1>2, <1>3 DEF SourcesInv
<1>5. Orderly
  BY <1>1, <1>4 DEF SourcesInv, Separable
<1>6. TasksPure /\ Tracker(gAliasRows) /\ Backed(gAliasRows) /\ Displayed(gAliasRows) /\ Watched
  BY <1>5 DEF Orderly
<1>7. /\ Tracker(n) /\ Backed(n) /\ Evolves(gAliasRows, n)
      /\ DOMAIN n = DOMAIN gAliasRows \cup TaskKeys
      /\ \A t \in TaskSet : t.person # None => n[t.key].person # None
      /\ \A g : TasksOf(g) = {} => SamePart(g, n, gAliasRows)
      /\ \A j \in DOMAIN gTasks : Alone(j) =>
           SamePart(OwnerOf(gTasks[j]), n, Sources!JoinTask(gAliasRows, gTasks[j]))
  BY <1>6, LoadAliasesIs DEF n
<1>8. /\ DOMAIN gTasks' = DOMAIN gTasks /\ gTasks' \in Seq(Sources!Event)
      /\ \A i \in DOMAIN gTasks :
           /\ gTasks[i] \in TaskSet /\ gTasks'[i] \in TaskSet'
           /\ Pure(gTasks'[i]) /\ gTasks'[i].key = gTasks[i].key /\
                   gTasks'[i].label = gTasks[i].label
           /\ gTasks[i].src = "shotmap" => gTasks'[i].src = "shotmap"
           /\ gTasks[i].person # None => gTasks'[i].person # None
           /\ gTasks'[i].src = "shotmap" => \E t \in TasksOf(OwnerOf(gTasks[i])) : t.src = "shotmap"
           /\ Alone(i) => gTasks'[i] = gTasks[i]
  BY <1>6, RestoredIs
<1>9. /\ \A t \in TaskSet' : \E i \in DOMAIN gTasks : t = gTasks'[i]
      /\ \A t \in TaskSet : \E i \in DOMAIN gTasks : t = gTasks[i]
  BY <1>8 DEF TaskSet
<1>10. TaskKeys' = TaskKeys
  <2>1. ASSUME NEW k \in TaskKeys' PROVE k \in TaskKeys
    <3>1. PICK t \in TaskSet' : k = t.key  BY <2>1 DEF TaskKeys
    <3>2. PICK i \in DOMAIN gTasks : t = gTasks'[i]  BY <1>9
    <3>. QED  BY <1>8, <3>1, <3>2 DEF TaskKeys
  <2>2. ASSUME NEW k \in TaskKeys PROVE k \in TaskKeys'
    <3>1. PICK t \in TaskSet : k = t.key  BY <2>2 DEF TaskKeys
    <3>2. PICK i \in DOMAIN gTasks : t = gTasks[i]  BY <1>9
    <3>. QED  BY <1>8, <3>1, <3>2 DEF TaskKeys
  <2>. QED
    BY <2>1, <2>2
<1>11. ASSUME NEW g, NEW t \in TasksOf(g)'
       PROVE  \E i \in DOMAIN gTasks : t = gTasks'[i] /\ gTasks[i] \in TasksOf(g)
  <2>1. t \in TaskSet' /\ OwnerOf(t) = g  BY <1>11 DEF TasksOf
  <2>2. PICK i \in DOMAIN gTasks : t = gTasks'[i]  BY <1>9, <2>1
  <2>. QED  BY <1>8, <2>1, <2>2 DEF TasksOf, OwnerOf
<1>12. ASSUME NEW g, NEW t \in TasksOf(g)
       PROVE  \E i \in DOMAIN gTasks : t = gTasks[i] /\ gTasks'[i] \in TasksOf(g)'
  <2>1. t \in TaskSet /\ OwnerOf(t) = g  BY <1>12 DEF TasksOf
  <2>2. PICK i \in DOMAIN gTasks : t = gTasks[i]  BY <1>9, <2>1
  <2>3. OwnerOf(gTasks'[i]) = g  BY <1>8, <2>1, <2>2 DEF OwnerOf
  <2>. QED  BY <1>8, <2>2, <2>3 DEF TasksOf
<1>13. \A g : (\E t \in TasksOf(g) : t.src = "shotmap") => \E t \in TasksOf(g)' : t.src = "shotmap"
  BY <1>8, <1>12
<1>14. TasksPure'
  <2>1. \A t \in TaskSet' : Pure(t)
    BY <1>8, <1>9
  <2>2. ASSUME NEW t \in TaskSet', Listed(t.key)
        PROVE  /\ t.label = "overview"
               /\ gFeed[OwnerOf(t)] \in {t.key[2], "named"} /\ gFirst[OwnerOf(t)] # "none"
    <3>1. PICK i \in DOMAIN gTasks : t = gTasks'[i]  BY <1>9
    <3>2. gTasks[i] \in TaskSet /\ gTasks[i].key = t.key /\ gTasks[i].label = t.label
      BY <1>8, <3>1
    <3>. QED  BY <1>6, <2>2, <3>2 DEF TasksPure, OwnerOf
  <2>3. ASSUME NEW i \in DOMAIN gTasks, NEW j \in DOMAIN gTasks, gTasks'[i].key = gTasks'[j].key
          PROVE i = j
    BY <1>6, <1>8, <2>3 DEF TasksPure
  <2>4. ASSUME NEW t \in TaskSet', NEW u \in TaskSet', ~Listed(t.key), ~Listed(u.key),
          OwnerOf(t) = OwnerOf(u)
        PROVE  t = u
    <3>1. PICK i \in DOMAIN gTasks : t = gTasks'[i]  BY <1>9
    <3>2. PICK j \in DOMAIN gTasks : u = gTasks'[j]  BY <1>9
    <3>3. gTasks[i].key = t.key /\ gTasks[j].key = u.key /\ gTasks[i] \in TaskSet /\
            gTasks[j] \in TaskSet
      BY <1>8, <3>1, <3>2
    <3>4. gTasks[i] = gTasks[j]
      BY <1>6, <2>4, <3>3 DEF TasksPure, OwnerOf
    <3>. QED  BY <1>6, <3>1, <3>2, <3>4 DEF TasksPure
  <2>5. PICK left \in SUBSET Sources!Recovered.doubles : gSuppressed' = gSuppressed \cup left
    BY <1>1
  <2>6. \A k \in left : k \in Sources!Keys /\ \E i, j \in DOMAIN gTasks :
              i # j /\ gTasks[i].key = k /\ OwnerOf(gTasks[j]) = k[1]
    BY <1>6, RecoveredIs
  <2>7. gSuppressed' \subseteq Sources!Keys
    BY <1>6, <2>5, <2>6 DEF TasksPure
  <2>8. ASSUME NEW k \in gSuppressed'
        PROVE  \E i, j \in DOMAIN gTasks' : i # j /\ gTasks'[i].key = k /\
                OwnerOf(gTasks'[j]) = k[1]
    <3>1. PICK i \in DOMAIN gTasks, j \in DOMAIN gTasks :
             i # j /\ gTasks[i].key = k /\ OwnerOf(gTasks[j]) = k[1]
      BY <1>6, <2>5, <2>6 DEF TasksPure
    <3>2. gTasks'[i].key = k /\ OwnerOf(gTasks'[j]) = k[1]
      BY <1>8, <3>1 DEF OwnerOf
    <3>. QED  BY <1>8, <3>1, <3>2
  <2>. QED
    BY <1>1, <1>8, <2>1, <2>2, <2>3, <2>4, <2>7, <2>8 DEF TasksPure
<1>15. ShotTasks'
  <2>1. ASSUME NEW t \in TaskSet', t.src = "shotmap" PROVE OwnerOf(t) \in gSnapshot
    <3>1. PICK i \in DOMAIN gTasks : t = gTasks'[i]  BY <1>9
    <3>2. PICK u \in TasksOf(OwnerOf(t)) : u.src = "shotmap"
      BY <1>8, <2>1, <3>1 DEF OwnerOf
    <3>. QED  BY <1>5, <3>2 DEF Orderly, ShotTasks, TasksOf
  <2>. QED
    BY <1>1, <1>2, <2>1 DEF ShotTasks
<1>16. TodoOK'
  BY <1>2 DEF TodoOK
<1>17. \A tr : Displayed(tr)' <=> Displayed(tr)
  BY <1>1 DEF Displayed
<1>18. Displayed(n)
  <2>1. ASSUME NEW k \in TaskKeys, Listed(k) PROVE gFeed[k[1]] \in {k[2], "named"} /\
          gFirst[k[1]] # "none"
    BY <1>6, <2>1 DEF TaskKeys, TasksPure, OwnerOf
  <2>. QED
    BY <1>6, <1>7, <2>1 DEF Displayed
<1>19. ASSUME NEW tr, Backed(tr) PROVE Backed(tr)'
  <2>1. ASSUME NEW t \in TaskSet', t.key \in DOMAIN tr, tr[t.key].label = "overview"
          PROVE t.label = "overview"
    <3>1. PICK i \in DOMAIN gTasks : t = gTasks'[i]  BY <1>9
    <3>2. gTasks[i] \in TaskSet /\ gTasks[i].key = t.key /\ gTasks[i].label = t.label
      BY <1>8, <3>1
    <3>. QED  BY <1>19, <2>1, <3>2 DEF Backed
  <2>. QED
    BY <1>10, <1>13, <1>19, <2>1 DEF Backed
<1>20. Watched'
  <2>1. \A v \in DOMAIN n : n[v] \in Sources!Canonicals(n)
    BY DEF Sources!Canonicals
  <2>2. Some(gSeen)' = Some(gCursor) /\ Some(gCursor)' = Some(gCursor)
    BY <1>1 DEF Some
  <2>. QED
    BY <1>1, <1>6, <1>7, <2>1, <2>2 DEF Watched
<1>21. AllNamed'
  <2>1. SUFFICES ASSUME gNear PROVE (\A t \in TaskSet' : t.person # None) /\ Named(n, gCursor) /\
          Named(gAliasRows, gCursor)
    BY <1>1, <1>2 DEF AllNamed, Named, Some
  <2>2. (\A t \in TaskSet : t.person # None) /\ Named(gAliasRows, gCursor)
    BY <1>5, <2>1 DEF Orderly, AllNamed
  <2>3. \A t \in TaskSet' : t.person # None
    BY <1>8, <1>9, <2>2
  <2>4. Named(n, gCursor)
    BY <1>7, <2>2 DEF Named, Evolves, TaskKeys
  <2>. QED
    BY <2>2, <2>3, <2>4
<1>22. ASSUME NEW g \in Pair \ gTorn PROVE Accounted(g)'
  <2>1. Accounted(g) /\ Traced(g, gAliasRows, gCursor)
    BY <1>1, <1>5, <1>22 DEF Orderly, Accounted
  <2>2. \A i, j \in DOMAIN gTasks : gTasks[i] \in TasksOf(g) /\ gTasks[j] \in TasksOf(g) => i = j
    BY <1>6, <2>1 DEF Accounted, TasksPure
  <2>3. ASSUME NEW i \in DOMAIN gTasks, gTasks[i] \in TasksOf(g)
        PROVE  Alone(i) /\ gTasks'[i] = gTasks[i] /\ OwnerOf(gTasks[i]) = g
    <3>1. OwnerOf(gTasks[i]) = g  BY <2>3 DEF TasksOf
    <3>2. Alone(i)  BY <1>8, <2>2, <2>3, <3>1 DEF Alone, TasksOf
    <3>. QED  BY <1>8, <3>1, <3>2
  <2>4. TasksOf(g)' = TasksOf(g)
    <3>1. ASSUME NEW t \in TasksOf(g)' PROVE t \in TasksOf(g)
      BY <1>11, <2>3, <3>1
    <3>2. ASSUME NEW t \in TasksOf(g) PROVE t \in TasksOf(g)'
      BY <1>12, <2>3, <3>2
    <3>. QED  BY <3>1, <3>2
  <2>5. \A tr, keys : Traced(g, tr, keys)' <=> Traced(g, tr, keys)
    BY <1>10, <2>4 DEF Traced, OverviewOnly
  <2>6. Traced(g, n, gCursor)
    <3>1. CASE TasksOf(g) = {}
      <4>1. SamePart(g, n, gAliasRows)  BY <1>7, <3>1
      <4>2. \A v \in DOMAIN n : v[1] = g => v \in DOMAIN gAliasRows /\ n[v] = gAliasRows[v]
        BY <1>7, <4>1 DEF SamePart, Tracker
      <4>3. DOMAIN gAliasRows \subseteq DOMAIN n
        BY <1>7
      <4>. QED
        BY <2>1, <3>1, <4>2, <4>3 DEF Traced
    <3>2. CASE TasksOf(g) # {}
      <4>1. PICK t \in TasksOf(g) : TRUE  BY <3>2
      <4>2. PICK j \in DOMAIN gTasks : gTasks[j] = t /\ t \in TaskSet /\ OwnerOf(t) = g
        BY <1>9, <4>1 DEF TasksOf
      <4>3. TasksOf(g) = {t}
        BY <2>1, <4>1 DEF Accounted
      <4>. DEFINE x == Sources!JoinTask(gAliasRows, t)
                  m == Sources!Merged(Base(gAliasRows, t), t)
      <4>4. SamePart(g, n, x)
        BY <1>7, <2>3, <4>1, <4>2
      <4>5. Joinable(t) /\ Pure(t)
        BY <1>6, <4>2, TaskJoinable DEF TasksPure
      <4>6. /\ Tracker(x) /\ Evolves(gAliasRows, x)
            /\ DOMAIN x = DOMAIN gAliasRows \cup {t.key} /\ x[t.key] = m
            /\ \A w \in DOMAIN gAliasRows : x[w] = IF gAliasRows[w].key = m.key THEN m
                    ELSE gAliasRows[w]
        BY <1>6, <4>5, JoinKeeps
      <4>7. /\ OwnerOf(m) = g /\ m.key = Base(gAliasRows, t).key
            /\ m.name # None <=> (Base(gAliasRows, t).name # None \/ t.name # None)
            /\ \/ t.key \in DOMAIN gAliasRows /\ Base(gAliasRows, t) = gAliasRows[t.key]
               \/ t.key \notin DOMAIN gAliasRows
                  /\ \E w \in DOMAIN gAliasRows : w[1] = g /\ Base(gAliasRows, t) = gAliasRows[w]
               \/ t.key \notin DOMAIN gAliasRows /\ Base(gAliasRows, t) = t
        BY <1>6, <4>2, <4>5, BaseIs, MergedIs
      <4>. HIDE DEF x, m
      <4>8. \A v \in DOMAIN n : v[1] = g => v \in DOMAIN x /\ n[v] = x[v]
        BY <1>7, <4>4 DEF SamePart, Tracker
      <4>9. t.key[1] = g /\ t.key \in TaskKeys
        BY <4>2 DEF OwnerOf, TaskKeys
      <4>10. \A v \in DOMAIN gAliasRows : n[v].key = gAliasRows[v].key
        BY <1>7 DEF Evolves
      <4>11. ~Listed(t.key) \/ (t.key \in DOMAIN gAliasRows /\ gAliasRows[t.key].key = t.key)
        BY <2>1, <4>1 DEF Traced
      <4>12. ASSUME NEW v \in DOMAIN n, v[1] = g
             PROVE  n[v].key \in Some(gCursor) \cup (IF Listed(v) THEN {} ELSE TaskKeys)
        <5>1. CASE v \in DOMAIN gAliasRows
          BY <2>1, <4>10, <4>12, <5>1 DEF Traced
        <5>2. CASE v \notin DOMAIN gAliasRows
          <6>1. v = t.key /\ ~Listed(v) /\ n[v] = m
            BY <4>6, <4>8, <4>11, <4>12, <5>2
          <6>2. CASE m.key = t.key
            BY <4>9, <6>1, <6>2
          <6>3. ASSUME NEW w \in DOMAIN gAliasRows, w[1] = g, m.key = gAliasRows[w].key
                PROVE  m.key \in Some(gCursor) \cup TaskKeys
            BY <2>1, <6>3 DEF Traced
          <6>. QED
            BY <4>7, <5>2, <6>1, <6>2, <6>3
        <5>. QED
          BY <5>1, <5>2
      <4>13. \A u \in TasksOf(g) : Listed(u.key) => u.key \in DOMAIN n /\ n[u.key].key = u.key
        BY <1>7, <2>1, <4>10 DEF Traced
      <4>14. ASSUME OverviewOnly(g)
             PROVE  /\ \A v, w \in DOMAIN n : v[1] = g /\ w[1] = g => n[v].key = n[w].key
                    /\ (\E u \in TasksOf(g) : u.name # None) \/
                            (\E v \in DOMAIN n : v[1] = g /\ n[v].name # None)
                          => <<g, "named", 0>> \in DOMAIN n
        <5>1. Listed(t.key) /\ t.key \in DOMAIN gAliasRows
          BY <4>1, <4>5, <4>11, <4>14, PureIs DEF OverviewOnly
        <5>2. \A v \in DOMAIN n : v[1] = g => v \in DOMAIN gAliasRows
          BY <4>6, <4>8, <5>1
        <5>3. \A v, w \in DOMAIN n : v[1] = g /\ w[1] = g => n[v].key = n[w].key
          BY <2>1, <4>10, <4>14, <5>2 DEF Traced
        <5>4. ASSUME NEW v \in DOMAIN n, v[1] = g, n[v].name # None
              PROVE  t.name # None \/ \E w \in DOMAIN gAliasRows : w[1] = g /\
                      gAliasRows[w].name # None
          <6>1. n[v] \in {m, gAliasRows[v]} /\ v \in DOMAIN gAliasRows
            BY <4>6, <4>8, <5>2, <5>4
          <6>. QED
            BY <4>7, <4>9, <5>1, <5>4, <6>1
        <5>5. (\E u \in TasksOf(g) : u.name # None) \/
                (\E v \in DOMAIN gAliasRows : v[1] = g /\ gAliasRows[v].name # None)
                 => <<g, "named", 0>> \in DOMAIN gAliasRows
          BY <2>1, <4>14 DEF Traced
        <5>6. (\E u \in TasksOf(g) : u.name # None) \/
                (\E v \in DOMAIN n : v[1] = g /\ n[v].name # None)
                 => <<g, "named", 0>> \in DOMAIN n
          BY <1>7, <4>1, <5>4, <5>5
        <5>. QED
          BY <5>3, <5>6
      <4>. QED
        BY <4>12, <4>13, <4>14 DEF Traced
    <3>. QED
      BY <3>1, <3>2
  <2>7. Traced(g, gAliasRows, gCursor)' /\ Traced(g, gTracker, gSeen)'
    BY <1>1, <2>1, <2>5, <2>6
  <2>. QED
    BY <1>1, <1>2, <2>1, <2>4, <2>7 DEF Accounted
<1>. QED
  BY <1>1, <1>6, <1>7, <1>14, <1>15, <1>16, <1>17, <1>18, <1>19, <1>20, <1>21, <1>22 DEF Orderly

-----------------------------------------------------------------------------
(* What a pass reads. *)
Read(due) == IF due THEN Sources!Reconciled(gTracker, {Sources!Row(g) : g \in Sources!Shown})
        ELSE gTracker
ReadNow(due) == {Read(due)[Sources!Row(g).key] : g \in Sources!Shown}
ReadNew(due) == IF due /\ gSeen # None THEN {e \in ReadNow(due) : e.key \notin gSeen} ELSE {}
ReadLate(due) == IF due /\ gSeen # None THEN {e \in ReadNow(due) \ gLatest : e.key \in gSeen}
        ELSE {}
Candidates == gPending \cup Sources!Fresh(Some(gResponse))

\* What a pass writes.
LEMMA PollIs ==
  ASSUME NEW due \in BOOLEAN, Sources!Poll(due)
  PROVE  /\ UNCHANGED <<gNear, gUp, gFeed, gShots, gTorn, gTasks, gSuppressed, gCursor, gAliasRows>>
         /\ gUp /\ gTodo = {} /\ ~gPolled
         /\ gPolled' = due /\ gTracker' = Read(due)
         /\ gSeen' = IF due THEN {e.key : e \in ReadNow(due)} \cup Some(gSeen) ELSE gSeen
         /\ gLatest' = IF due THEN ReadNow(due) ELSE gLatest
         /\ gResponse' = None /\ gCores' = gCores \cup {s[1] : s \in Some(gResponse)}
         /\ gSnapshot' = IF gResponse = None THEN gSnapshot ELSE {s[1] : s \in gResponse}
         /\ gFirst' = [g \in Pair |-> IF due /\ g \in Sources!Shown /\ gFirst[g] = "none"
                         THEN IF gSeen = None THEN "seeded"
                              ELSE IF Read(due)[Sources!Row(g).key] \in ReadNew(due) THEN gFeed[g]
                                      ELSE "none"
                         ELSE gFirst[g]]
         /\ \E prom \in SUBSET Candidates :
              /\ gPending' = Candidates \ prom
              /\ gTodo' = {[phase |-> 1, event |-> e] : e \in ReadLate(due)}
                     \cup {[phase |-> 2, event |-> Sources!ShotEvent(c)] : c \in prom}
                     \cup {[phase |-> 3, event |-> e] : e \in ReadNew(due)}
<1>1. /\ UNCHANGED <<gNear, gUp, gFeed, gShots, gTorn, gTasks, gSuppressed, gCursor, gAliasRows>>
      /\ gUp /\ gTodo = {} /\ ~gPolled
      /\ gPolled' = due /\ gTracker' = Read(due)
      /\ gSeen' = IF due THEN {e.key : e \in ReadNow(due)} \cup Some(gSeen) ELSE gSeen
      /\ gLatest' = IF due THEN ReadNow(due) ELSE gLatest
      /\ gResponse' = None /\ gCores' = gCores \cup {s[1] : s \in Some(gResponse)}
      /\ gSnapshot' = IF gResponse = None THEN gSnapshot ELSE {s[1] : s \in Some(gResponse)}
  BY DEF Sources!Poll, Sources!Between, Sources!world, Read, ReadNow, Some
<1>2. gFirst' = [g \in Pair |-> IF due /\ g \in Sources!Shown /\ gFirst[g] = "none"
                         THEN IF gSeen = None THEN "seeded"
                              ELSE IF Read(due)[Sources!Row(g).key] \in ReadNew(due) THEN gFeed[g]
                                      ELSE "none"
                         ELSE gFirst[g]]
  BY DEF Sources!Poll, Read, ReadNow, ReadNew
<1>3. PICK retained \in SUBSET Candidates :
         LET prom == Sources!Promoted(Candidates, ReadNew(due), retained) IN
              /\ gPending' = Sources!Acknowledged(Candidates, prom)
              /\ gTodo' = {[phase |-> 1, event |-> e] : e \in ReadLate(due)}
                     \cup {[phase |-> 2, event |-> Sources!ShotEvent(c)] : c \in prom}
                     \cup {[phase |-> 3, event |-> e] : e \in ReadNew(due)}
  BY DEF Sources!Poll, Read, ReadNow, ReadNew, ReadLate, Candidates, Some
<1>4. Sources!Promoted(Candidates, ReadNew(due), retained) \in SUBSET Candidates
  BY DEF Sources!Promoted
<1>. QED
  BY <1>1, <1>2, <1>3, <1>4 DEF Sources!Acknowledged, Some

\* The shotmap: a candidate is fresh, or waited for its anchor.
LEMMA PollShots ==
  ASSUME SourcesInv, NEW due \in BOOLEAN, Sources!Poll(due)
  PROVE  /\ ShotsOnce' /\ Forgotten' /\ gSnapshot \subseteq gSnapshot'
         /\ \A g \in gSnapshot : (\A s \in gPending : s[1] # g) =>
               (\A s \in gPending' : s[1] # g) /\ \A x \in Promoted' : OwnerOf(x.event) # g
<1>1. PICK prom \in SUBSET Candidates :
         /\ gPending' = Candidates \ prom
         /\ gTodo' = {[phase |-> 1, event |-> e] : e \in ReadLate(due)}
                \cup {[phase |-> 2, event |-> Sources!ShotEvent(c)] : c \in prom}
                \cup {[phase |-> 3, event |-> e] : e \in ReadNew(due)}
  BY PollIs
<1>2. /\ UNCHANGED <<gNear, gUp, gShots>>
      /\ gUp /\ gResponse' = None /\ gCores' = gCores \cup {s[1] : s \in Some(gResponse)}
      /\ gSnapshot' = IF gResponse = None THEN gSnapshot ELSE {s[1] : s \in gResponse}
  BY PollIs
<1>3. Promoted' = {[phase |-> 2, event |-> Sources!ShotEvent(c)] : c \in prom}
  BY <1>1 DEF Promoted
<1>4. ShotsOnce
  BY DEF SourcesInv
<1>5. /\ Sources!Fresh(Some(gResponse)) \subseteq Some(gResponse)
      /\ \A s \in Sources!Fresh(Some(gResponse)) : s[1] \notin gCores
  BY DEF Sources!Fresh
<1>6. gSnapshot \subseteq gSnapshot' /\ gSnapshot \subseteq gCores /\ gSnapshot' \subseteq gCores'
  BY <1>2, <1>4 DEF ShotsOnce, Some
<1>7. /\ Some(gResponse) \subseteq Sources!Shots
      /\ \A s, u \in Some(gResponse) : s[1] = u[1] => s = u
      /\ \A s \in Some(gResponse) : s[1] \in gSnapshot' /\ gShots[s[1]] > 0
  BY <1>2, <1>4 DEF ShotsOnce, Some
<1>8. /\ Candidates \subseteq Sources!Shots
      /\ \A s \in Candidates : s[1] \in gSnapshot'
  BY <1>4, <1>5, <1>6, <1>7 DEF ShotsOnce, Candidates
<1>9. \A s, u \in Candidates : s[1] = u[1] => s = u
  <2>1. \A s \in gPending : s[1] \in gCores
    BY <1>4, <1>6 DEF ShotsOnce
  <2>2. \A s, u \in gPending : s[1] = u[1] => s = u
    BY <1>4 DEF ShotsOnce
  <2>. QED
    BY <1>5, <1>7, <2>1, <2>2 DEF Candidates
<1>10. \A c \in Candidates : OwnerOf(Sources!ShotEvent(c)) = c[1]
  BY <1>8, ShotEventIs
<1>11. \A s \in gSnapshot' : s \in Pair /\ gShots[s] > 0
  <2>1. CASE gResponse = None
    BY <1>2, <1>4, <2>1 DEF ShotsOnce
  <2>2. CASE gResponse # None
    <3>1. \A s \in gResponse : s[1] \in Pair
      BY <1>7, <2>2, ShotIs DEF Some
    <3>. QED
      BY <1>2, <1>7, <2>2, <3>1 DEF Some
  <2>. QED
    BY <2>1, <2>2
<1>12. \A x \in Promoted' : \E c \in prom : x = [phase |-> 2, event |-> Sources!ShotEvent(c)] /\
        c \in Candidates
  BY <1>1, <1>3
<1>13. gPending' \subseteq Candidates /\ \A c \in prom : c \notin gPending'
  BY <1>1
<1>14. \A x \in Promoted' :
          /\ \E s \in Sources!Shots : x.event = Sources!ShotEvent(s)
          /\ OwnerOf(x.event) \in gSnapshot'
          /\ \A s \in gPending' : s[1] # OwnerOf(x.event)
  <2>. SUFFICES ASSUME NEW x \in Promoted'
                PROVE  /\ \E s \in Sources!Shots : x.event = Sources!ShotEvent(s)
                       /\ OwnerOf(x.event) \in gSnapshot'
                       /\ \A s \in gPending' : s[1] # OwnerOf(x.event)
    OBVIOUS
  <2>1. PICK c \in prom : x = [phase |-> 2, event |-> Sources!ShotEvent(c)] /\ c \in Candidates
    BY <1>12
  <2>2. x.event = Sources!ShotEvent(c) /\ OwnerOf(x.event) = c[1]
    BY <1>10, <2>1
  <2>. QED
    BY <1>8, <1>9, <1>13, <2>1, <2>2
<1>15. \A x, y \in Promoted' : OwnerOf(x.event) = OwnerOf(y.event) => x = y
  <2>. SUFFICES ASSUME NEW x \in Promoted', NEW y \in Promoted', OwnerOf(x.event) = OwnerOf(y.event)
                PROVE  x = y
    OBVIOUS
  <2>1. PICK c \in prom : x = [phase |-> 2, event |-> Sources!ShotEvent(c)] /\ c \in Candidates
    BY <1>12
  <2>2. PICK d \in prom : y = [phase |-> 2, event |-> Sources!ShotEvent(d)] /\ d \in Candidates
    BY <1>12
  <2>3. c[1] = d[1]
    BY <1>10, <2>1, <2>2
  <2>. QED
    BY <1>9, <2>1, <2>2, <2>3
<1>16. ShotsOnce'
  <2>1. \A s, u \in gPending' : s[1] = u[1] => s = u
    BY <1>9, <1>13
  <2>2. gPending' \subseteq Sources!Shots /\ \A s \in gPending' : s[1] \in gSnapshot'
    BY <1>8, <1>13
  <2>. QED
    BY <1>2, <1>4, <1>6, <1>11, <1>14, <1>15, <2>1, <2>2 DEF ShotsOnce
<1>17. ASSUME NEW g \in gSnapshot, \A s \in gPending : s[1] # g
       PROVE  (\A s \in gPending' : s[1] # g) /\ \A x \in Promoted' : OwnerOf(x.event) # g
  <2>1. \A s \in Candidates : s[1] # g
    BY <1>5, <1>6, <1>17 DEF Candidates
  <2>2. \A x \in Promoted' : OwnerOf(x.event) # g
    BY <1>10, <1>12, <2>1
  <2>. QED
    BY <1>13, <2>1, <2>2
<1>. QED
  BY <1>2, <1>6, <1>16, <1>17 DEF Forgotten

\* The tracker after a snapshot, for the goal of a row and for another goal.
LEMMA ReadPart ==
  ASSUME Orderly, NEW g \in Pair, gFeed[g] \in {"bare", "named"}
  PROVE  LET r == Sources!Row(g)
             b == Base(gTracker, r)
             m == Sources!Merged(b, r)
             tr == Read(TRUE) IN
         /\ r.key = <<g, gFeed[g], 0>> /\ r.key \in DOMAIN tr /\ tr[r.key] = m
         /\ \A v \in DOMAIN tr : v[1] = g => v = r.key \/ v \in DOMAIN gTracker
         /\ \A v \in DOMAIN gTracker : v[1] = g =>
               v \in DOMAIN tr /\ tr[v] = IF gTracker[v].key = m.key THEN m ELSE gTracker[v]
         /\ Pure(m) /\ OwnerOf(m) = g /\ m.key = b.key /\ m.label = "overview"
         /\ m.src = "shotmap" <=> b.src = "shotmap"
         /\ m.person # None <=> (b.person # None \/ gFeed[g] = "named")
         /\ m.name # None <=> (b.name # None \/ gFeed[g] = "named")
         /\ \/ r.key \in DOMAIN gTracker /\ b = gTracker[r.key]
            \/ r.key \notin DOMAIN gTracker /\ \E w \in DOMAIN gTracker : w[1] = g /\
                    b = gTracker[w]
            \/ r.key \notin DOMAIN gTracker /\ b = r
<1>. DEFINE r == Sources!Row(g)
            b == Base(gTracker, r)
            m == Sources!Merged(b, r)
            x == Sources!JoinTask(gTracker, r)
            tr == Read(TRUE)
<1>1. TasksPure /\ Watched /\ Tracker(gTracker) /\ Backed(gTracker)
  BY DEF Orderly
<1>2. Tracker(tr) /\ SamePart(g, tr, x)
  BY <1>1, ReconciledIs DEF Read, Watched
<1>3. /\ Pure(r) /\ OwnerOf(r) = g /\ r.key = <<g, gFeed[g], 0>> /\ r.src = "overview" /\
        r.label = "overview"
      /\ r.person # None <=> gFeed[g] = "named"
      /\ r.name # None <=> gFeed[g] = "named"
      /\ Joinable(r)
  BY RowIs, RowJoinable, SourcesConstants
<1>4. /\ Tracker(x) /\ DOMAIN x = DOMAIN gTracker \cup {r.key} /\ x[r.key] = m
      /\ \A w \in DOMAIN gTracker : x[w] = IF gTracker[w].key = m.key THEN m ELSE gTracker[w]
  <2>1. Joinable(r)  BY <1>3
  <2>. HIDE DEF r
  <2>. QED  BY <1>1, <2>1, JoinKeeps
<1>5. /\ Pure(b) /\ OwnerOf(b) = g
      /\ \/ r.key \in DOMAIN gTracker /\ b = gTracker[r.key]
         \/ r.key \notin DOMAIN gTracker /\ \E w \in DOMAIN gTracker : w[1] = g /\ b = gTracker[w]
         \/ r.key \notin DOMAIN gTracker /\ b = r
  BY <1>1, <1>3, BaseIs
<1>. HIDE DEF b
<1>6. /\ Pure(m) /\ OwnerOf(m) = g /\ m.key = b.key /\ m.label = r.label
      /\ m.src = "shotmap" <=> (b.src = "shotmap" \/ r.src = "shotmap")
      /\ m.person # None <=> (b.person # None \/ r.person # None)
      /\ m.name # None <=> (b.name # None \/ r.name # None)
  BY <1>3, <1>5, MergedIs
<1>. HIDE DEF x, m, r, tr
<1>7. \A v \in Sources!Keys : v[1] = g => (v \in DOMAIN tr <=> v \in DOMAIN x) /\
        (v \in DOMAIN tr => tr[v] = x[v])
  BY <1>2 DEF SamePart
<1>8. r.key \in Sources!Keys /\ r.key[1] = g
  BY <1>3, PureIs DEF OwnerOf
<1>9. r.key \in DOMAIN tr /\ tr[r.key] = m
  BY <1>4, <1>7, <1>8
<1>10. \A v \in DOMAIN tr : v[1] = g => v = r.key \/ v \in DOMAIN gTracker
  BY <1>2, <1>4, <1>7 DEF Tracker
<1>11. \A v \in DOMAIN gTracker : v[1] = g =>
          v \in DOMAIN tr /\ tr[v] = IF gTracker[v].key = m.key THEN m ELSE gTracker[v]
  BY <1>1, <1>4, <1>7 DEF Tracker
<1>. QED
  BY <1>3, <1>5, <1>6, <1>9, <1>10, <1>11 DEF r, m, b, tr

\* A goal that is not shown keeps what the tracker says of it.
LEMMA ReadOther ==
  ASSUME Orderly, NEW g \in Pair, gFeed[g] \notin {"bare", "named"}
  PROVE  /\ \A v \in DOMAIN Read(TRUE) : v[1] = g => v \in DOMAIN gTracker /\
          Read(TRUE)[v] = gTracker[v]
<1>1. TasksPure /\ Watched /\ Tracker(gTracker) /\ Backed(gTracker)
  BY DEF Orderly
<1>2. Tracker(Read(TRUE)) /\ SamePart(g, Read(TRUE), gTracker)
  BY <1>1, ReconciledIs DEF Read, Watched
<1>. QED
  BY <1>2 DEF SamePart, Tracker

\* The tracker after a snapshot knows every row that is shown.
LEMMA ReadIs ==
  ASSUME Orderly
  PROVE  LET tr == Read(TRUE) IN
         /\ Tracker(tr) /\ Backed(tr) /\ Evolves(gTracker, tr)
         /\ DOMAIN tr = DOMAIN gTracker \cup {Sources!Row(g).key : g \in Sources!Shown}
         /\ \A g \in Pair : g \in Sources!Shown <=> gFeed[g] \in {"bare", "named"}
<1>1. TasksPure /\ Watched /\ Tracker(gTracker) /\ Backed(gTracker)
  BY DEF Orderly
<1>2. \A g \in Pair : g \in Sources!Shown <=> gFeed[g] \in {"bare", "named"}
  BY <1>1 DEF Watched, Sources!Shown
<1>. QED
  BY <1>1, <1>2, ReconciledIs DEF Read, Watched

\* A row of a goal whose versions are one event so far joins that event.
LEMMA OnlyOne ==
  ASSUME Orderly, NEW g \in Pair, gFeed[g] \in {"bare", "named"}, Traced(g, gTracker, gSeen),
         OverviewOnly(g), <<g, gFeed[g], 0>> \notin DOMAIN gTracker,
         NEW w \in DOMAIN gTracker, w[1] = g
  PROVE  Base(gTracker, Sources!Row(g)) = gTracker[w]
<1>. DEFINE r == Sources!Row(g)
            c == gTracker[w]
<1>1. TasksPure /\ Watched /\ Tracker(gTracker) /\ Backed(gTracker) /\ Displayed(gTracker)
  BY DEF Orderly
<1>2. Pure(r) /\ OwnerOf(r) = g /\ r.key = <<g, gFeed[g], 0>> /\ (gFeed[g] = "named" => r.name = g)
  BY RowIs
<1>3. Pure(c) /\ OwnerOf(c) = g /\ w \in Sources!Keys
  BY <1>1, TrackerIs
<1>4. c.src = "overview" /\ c.label = "overview" /\ Listed(w)
  <2>1. c.src # "shotmap"  BY <1>1 DEF Backed, OverviewOnly
  <2>. QED  BY <1>1, <1>3, <2>1, PureIs, TrackerIs
<1>5. gFeed[g] = "named"
  BY <1>1, <1>3, <1>4, KeyIs DEF Displayed, Listed
<1>6. c.name = None
  BY <1>5 DEF Traced
<1>7. Sources!Details(c) # Sources!Details(r)
  BY <1>2, <1>5, <1>6, SourcesConstants DEF Sources!Details
<1>8. Sources!SameIncident(c, r, FALSE)
  BY <1>3, <1>4, <1>7, RowKnown
<1>. HIDE DEF r
<1>9. ASSUME NEW d \in Alike(gTracker, r) PROVE d = c
  <2>1. PICK u \in DOMAIN gTracker : d = gTracker[u]
    BY DEF Alike, Sources!Canonicals
  <2>2. Pure(d) /\ OwnerOf(d) = u[1] /\ d = gTracker[d.key] /\ c = gTracker[c.key]
    BY <1>1, <2>1, TrackerIs
  <2>3. u[1] = g
    BY <1>2, <2>2, SameOwner DEF Alike
  <2>4. d.key = c.key
    BY <2>1, <2>3 DEF Traced
  <2>. QED  BY <2>2, <2>4
<1>10. c \in Alike(gTracker, r)
  BY <1>8 DEF Alike, Sources!Canonicals
<1>. HIDE DEF c
<1>11. Alike(gTracker, r) = {c}
  BY <1>9, <1>10
<1>12. Base(gTracker, r) = c
  BY <1>2, <1>11, OneIs DEF Base
<1>. QED
  BY <1>12 DEF r, c

\* What a pass has to handle.
LEMMA PollTodo ==
  ASSUME NEW due \in BOOLEAN, Sources!Poll(due)
  PROVE  /\ \A x \in gTodo' :
              /\ x.phase \in {1, 2, 3} /\ x = [phase |-> x.phase, event |-> x.event]
              /\ x.phase = 1 => x.event \in ReadLate(due)
              /\ x.phase = 3 => x.event \in ReadNew(due)
         /\ \A e \in ReadNew(due) : [phase |-> 3, event |-> e] \in gTodo'
<1>1. PICK prom \in SUBSET Candidates :
         gTodo' = {[phase |-> 1, event |-> e] : e \in ReadLate(due)}
                \cup {[phase |-> 2, event |-> Sources!ShotEvent(c)] : c \in prom}
                \cup {[phase |-> 3, event |-> e] : e \in ReadNew(due)}
  <2>. HIDE DEF ReadLate, ReadNew
  <2>. QED  BY PollIs
<1>. DEFINE of1 == {[phase |-> 1, event |-> e] : e \in ReadLate(due)}
            of2 == {[phase |-> 2, event |-> Sources!ShotEvent(c)] : c \in prom}
            of3 == {[phase |-> 3, event |-> e] : e \in ReadNew(due)}
<1>2. \A x \in of1 : x.phase = 1 /\ x = [phase |-> x.phase, event |-> x.event] /\
        x.event \in ReadLate(due)
  OBVIOUS
<1>3. \A x \in of2 : x.phase = 2 /\ x = [phase |-> x.phase, event |-> x.event]
  OBVIOUS
<1>4. /\ \A x \in of3 : x.phase = 3 /\ x = [phase |-> x.phase, event |-> x.event] /\
        x.event \in ReadNew(due)
      /\ \A e \in ReadNew(due) : [phase |-> 3, event |-> e] \in of3
  OBVIOUS
<1>5. gTodo' = of1 \cup of2 \cup of3
  BY <1>1
<1>. HIDE DEF of1, of2, of3
<1>. QED
  BY <1>2, <1>3, <1>4, <1>5

\* A goal first shown stays first shown so.
LEMMA SeparableBefore ==
  ASSUME NEW due \in BOOLEAN, Sources!Poll(due), Separable' PROVE Separable
<1>1. gNear' = gNear /\ \A g \in Pair : gFirst[g] # "none" => gFirst'[g] = gFirst[g]
  BY PollIs
<1>. QED
  BY <1>1 DEF Separable

\* A pass without a snapshot of the overview.
LEMMA PollNotDue ==
  ASSUME SourcesInv, Sources!Poll(FALSE), Separable' PROVE Orderly'
<1>1. Orderly
  BY SeparableBefore DEF SourcesInv
<1>2. /\ UNCHANGED <<gNear, gUp, gFeed, gTorn, gTasks, gSuppressed, gCursor, gAliasRows>>
      /\ UNCHANGED <<gTracker, gSeen, gLatest>>
      /\ gTodo = {} /\ gPolled' = FALSE
  BY PollIs DEF Read
<1>3. gFirst' = gFirst
  <2>1. gFirst' = [g \in Pair |-> gFirst[g]]  BY PollIs
  <2>. QED  BY <1>1, <2>1 DEF Orderly, Watched
<1>4. \A x \in gTodo' : x.phase = 2
  BY PollTodo DEF ReadLate, ReadNew
<1>5. /\ TaskSet' = TaskSet /\ TaskKeys' = TaskKeys
      /\ \A g : TasksOf(g)' = TasksOf(g) /\ (OverviewOnly(g)' <=> OverviewOnly(g))
      /\ \A tr : Backed(tr)' <=> Backed(tr)
      /\ \A g, tr, keys : Traced(g, tr, keys)' <=> Traced(g, tr, keys)
  BY <1>2, TasksFrame
<1>6. /\ \A g \in gSnapshot : (\A s \in gPending : s[1] # g) =>
           (\A s \in gPending' : s[1] # g) /\ \A x \in Promoted' : OwnerOf(x.event) # g
      /\ gSnapshot \subseteq gSnapshot' /\ ShotsOnce'
  BY PollShots
<1>7. ShotTasks'
  BY <1>1, <1>5, <1>6 DEF Orderly, ShotTasks
<1>8. (\A x \in gTodo' : x.phase = 2) /\ \A g : New(g)' = {} /\ New(g) = {}
  BY <1>2, <1>4 DEF New
<1>9. TasksPure' /\ TodoOK'
  BY <1>1, <1>2, <1>3, <1>5, <1>8 DEF Orderly, TasksPure, TodoOK
<1>10. \A tr : Displayed(tr)' <=> Displayed(tr)
  BY <1>2, <1>3 DEF Displayed
<1>11. Watched'
  BY <1>1, <1>2, <1>3 DEF Orderly, Watched, Some
<1>12. AllNamed'
  <2>1. \A x \in gTodo' : x.event.person # None
    <3>1. \A x \in Promoted' : \E s \in Sources!Shots : x.event = Sources!ShotEvent(s)
      BY <1>6 DEF ShotsOnce
    <3>2. \A s \in Sources!Shots : Sources!ShotEvent(s).person # None
      BY ShotEventIs, ShotIs, SourcesConstants
    <3>. QED  BY <1>8, <3>1, <3>2 DEF Promoted
  <2>. QED
    BY <1>1, <1>2, <1>5, <2>1 DEF Orderly, AllNamed, Named, Some
<1>13. ASSUME NEW g \in Pair \ gTorn PROVE Accounted(g)'
  <2>1. Accounted(g)
    BY <1>1 DEF Orderly
  <2>2. Unremembered(g)' <=> Unremembered(g)
    BY <1>2 DEF Unremembered
  <2>. QED
    BY <1>2, <1>3, <1>5, <1>8, <2>1, <2>2 DEF Accounted, Some
<1>. QED
  BY <1>1, <1>2, <1>5, <1>7, <1>9, <1>10, <1>11, <1>12, <1>13 DEF Orderly

\* A pass with a snapshot of the overview.
LEMMA PollDue ==
  ASSUME SourcesInv, Sources!Poll(TRUE), Separable' PROVE Orderly'
<1>. DEFINE tr == Read(TRUE)
            key(g) == <<g, gFeed[g], 0>>
            shown(g) == gFeed[g] \in {"bare", "named"}
<1>1. Orderly
  BY SeparableBefore DEF SourcesInv
<1>2. TasksPure /\ Watched /\ Tracker(gTracker) /\ Backed(gTracker) /\ Displayed(gTracker)
  BY <1>1 DEF Orderly
<1>3. /\ UNCHANGED <<gNear, gUp, gFeed, gTorn, gTasks, gSuppressed, gCursor, gAliasRows>>
      /\ gUp /\ gTodo = {} /\ gPolled' = TRUE /\ gTracker' = tr /\ gLatest' = ReadNow(TRUE)
      /\ gSeen' = {e.key : e \in ReadNow(TRUE)} \cup Some(gSeen)
  BY PollIs
<1>4. /\ \A x \in gTodo' :
           /\ x.phase \in {1, 2, 3}
           /\ x.phase = 1 => x.event \in ReadLate(TRUE)
           /\ x.phase = 3 => x.event \in ReadNew(TRUE)
  BY PollTodo
<1>4a. /\ \A x \in gTodo' : x = [phase |-> x.phase, event |-> x.event]
       /\ \A e \in ReadNew(TRUE) : [phase |-> 3, event |-> e] \in gTodo'
  BY PollTodo
<1>5. /\ Tracker(tr) /\ Backed(tr) /\ Evolves(gTracker, tr)
      /\ DOMAIN tr = DOMAIN gTracker \cup {Sources!Row(g).key : g \in Sources!Shown}
      /\ \A g \in Pair : g \in Sources!Shown <=> shown(g)
      /\ Sources!Shown \subseteq Pair
  BY <1>1, ReadIs DEF Sources!Shown
<1>6. ASSUME NEW g \in Pair, shown(g)
      PROVE  /\ Sources!Row(g).key = key(g) /\ key(g) \in DOMAIN tr
             /\ Pure(tr[key(g)]) /\ OwnerOf(tr[key(g)]) = g /\ tr[key(g)].label = "overview"
             /\ Listed(key(g)) /\ key(g)[1] = g
             /\ gFeed[g] = "named" => tr[key(g)].person # None
  <2>. DEFINE r == Sources!Row(g)
              b == Base(gTracker, r)
              m == Sources!Merged(b, r)
  <2>1. /\ r.key = key(g) /\ r.key \in DOMAIN tr /\ tr[r.key] = m
        /\ Pure(m) /\ OwnerOf(m) = g /\ m.label = "overview"
        /\ m.person # None <=> (b.person # None \/ gFeed[g] = "named")
    BY <1>1, <1>6, ReadPart
  <2>. HIDE DEF tr, r, b, m
  <2>2. Listed(key(g)) /\ key(g)[1] = g
    BY <1>6 DEF Listed
  <2>3. tr[key(g)] = m
    BY <2>1
  <2>4. r = Sources!Row(g)  BY DEF r
  <2>. HIDE DEF key
  <2>. QED  BY <2>1, <2>2, <2>3, <2>4
<1>. HIDE DEF tr
<1>7. /\ \A g \in Pair : shown(g) => tr[key(g)] \in ReadNow(TRUE)
      /\ \A e \in ReadNow(TRUE) : \E g \in Pair : shown(g) /\ e = tr[key(g)]
  <2>1. ReadNow(TRUE) = {tr[Sources!Row(g).key] : g \in Sources!Shown}
    BY DEF ReadNow, tr
  <2>2. \A g \in Pair : shown(g) => Sources!Row(g).key = key(g)
    BY <1>6
  <2>. HIDE DEF key, shown
  <2>. QED
    BY <1>5, <2>1, <2>2
<1>8. /\ \A e \in ReadNew(TRUE) : e \in ReadNow(TRUE) /\ gSeen # None /\ e.key \notin gSeen
      /\ \A e \in ReadNow(TRUE) : gSeen # None /\ e.key \notin gSeen => e \in ReadNew(TRUE)
      /\ \A e \in ReadLate(TRUE) : e \in ReadNow(TRUE) /\ gSeen # None /\ e.key \in gSeen /\
              e \notin gLatest
  BY DEF ReadNew, ReadLate
<1>9. ASSUME NEW g \in Pair
      PROVE  /\ gFirst[g] # "none" \/ ~shown(g) => gFirst'[g] = gFirst[g]
             /\ gFirst[g] = "none" /\ shown(g) /\ gSeen = None => gFirst'[g] = "seeded"
             /\ gFirst[g] = "none" /\ shown(g) /\ gSeen # None =>
                  gFirst'[g] = gFeed[g] /\ tr[key(g)] \in ReadNew(TRUE)
  <2>1. gFirst'[g] = IF g \in Sources!Shown /\ gFirst[g] = "none"
                     THEN IF gSeen = None THEN "seeded"
                          ELSE IF tr[Sources!Row(g).key] \in ReadNew(TRUE) THEN gFeed[g] ELSE "none"
                     ELSE gFirst[g]
    BY PollIs DEF tr
  <2>2. ASSUME gFirst[g] = "none", shown(g), gSeen # None PROVE tr[key(g)] \in ReadNew(TRUE)
    <3>1. tr[key(g)].key \notin gSeen
      BY <1>2, <1>6, <2>2 DEF Watched, Some, OwnerOf
    <3>. QED  BY <1>7, <1>8, <2>2, <3>1
  <2>. QED
    BY <1>5, <1>6, <2>1, <2>2
<1>10. \A v \in DOMAIN gTracker : v \in DOMAIN tr /\ tr[v].key = gTracker[v].key
          /\ (gTracker[v].person # None => tr[v].person # None)
  BY <1>5 DEF Evolves
<1>11. \A v \in DOMAIN tr : v \in DOMAIN gTracker \/ \E g \in Pair : shown(g) /\ v = key(g)
  <2>1. ASSUME NEW g \in Sources!Shown PROVE g \in Pair /\ shown(g) /\ Sources!Row(g).key = key(g)
    BY <1>5, <1>6, <2>1
  <2>. HIDE DEF key, shown
  <2>. QED
    BY <1>5, <2>1
<1>12. /\ TaskSet' = TaskSet /\ TaskKeys' = TaskKeys
       /\ \A g : TasksOf(g)' = TasksOf(g) /\ (OverviewOnly(g)' <=> OverviewOnly(g))
       /\ \A t : Backed(t)' <=> Backed(t)
       /\ \A g, t, keys : Traced(g, t, keys)' <=> Traced(g, t, keys)
  BY <1>3, TasksFrame
<1>13. ShotsOnce' /\ ShotTasks'
  <2>1. /\ \A g \in gSnapshot : (\A s \in gPending : s[1] # g) =>
             (\A s \in gPending' : s[1] # g) /\ \A x \in Promoted' : OwnerOf(x.event) # g
        /\ gSnapshot \subseteq gSnapshot' /\ ShotsOnce'
    BY PollShots
  <2>. QED
    BY <1>1, <1>12, <2>1 DEF Orderly, ShotTasks
<1>14. \A g \in Pair : gFirst[g] # "none" => gFirst'[g] = gFirst[g]
  BY <1>9
<1>15. gFirst' \in [Pair -> {"none", "seeded", "bare", "named"}]
  <2>1. \A g \in Pair : gFirst'[g] \in {"none", "seeded", "bare", "named"}
    BY <1>2, <1>9 DEF Watched
  <2>2. DOMAIN gFirst' = Pair /\ gFirst' = [g \in DOMAIN gFirst' |-> gFirst'[g]]
    BY PollIs
  <2>. QED  BY <2>1, <2>2
<1>16. TasksPure'
  <2>1. \A t \in TaskSet : OwnerOf(t) \in Pair
    BY <1>2, PureIs DEF TasksPure
  <2>. QED
    BY <1>2, <1>3, <1>12, <1>14, <2>1 DEF TasksPure
<1>17. ASSUME NEW t, Tracker(t), Displayed(t) PROVE Displayed(t)'
  <2>1. \A v \in DOMAIN t : v[1] \in Pair
    BY <1>17, TrackerIs
  <2>. QED
    BY <1>3, <1>14, <1>17, <2>1 DEF Displayed
<1>18a. gTracker' = tr
  BY <1>3
<1>18. Displayed(gTracker)'
  <2>1. ASSUME NEW g \in Pair, shown(g) PROVE gFirst'[g] # "none"
    BY <1>9, <2>1
  <2>2. Displayed(gTracker) /\ \A v \in DOMAIN gTracker : v[1] \in Pair
    BY <1>2, TrackerIs
  <2>3. ASSUME NEW v \in DOMAIN tr, Listed(v)
        PROVE  gFeed[v[1]] \in {v[2], "named"} /\ gFirst'[v[1]] # "none"
    <3>1. CASE v \in DOMAIN gTracker
      BY <1>14, <2>2, <2>3, <3>1 DEF Displayed
    <3>2. ASSUME NEW g \in Pair, shown(g), v = key(g) PROVE gFeed[v[1]] \in {v[2], "named"} /\
            gFirst'[v[1]] # "none"
      BY <2>1, <3>2
    <3>. QED
      BY <1>11, <3>1, <3>2
  <2>4. gFeed' = gFeed  BY <1>3
  <2>. QED
    BY <1>18a, <2>3, <2>4 DEF Displayed
<1>19. /\ gSeen' # None /\ Some(gSeen)' = gSeen' /\ Some(gCursor)' = Some(gCursor)
       /\ gSeen' \subseteq DOMAIN tr
       /\ \A k \in gSeen' : k \in Some(gSeen) \/ \E g \in Pair : shown(g) /\ k[1] = g
       /\ \A g \in Pair : shown(g) => tr[key(g)].key \in gSeen'
  <2>1. ASSUME NEW k \in gSeen' PROVE k \in DOMAIN tr /\
          (k \in Some(gSeen) \/ \E g \in Pair : shown(g) /\ k[1] = g)
    <3>1. CASE k \in Some(gSeen)
      BY <1>2, <1>10, <3>1 DEF Watched, Some
    <3>2. ASSUME NEW e \in ReadNow(TRUE), k = e.key
          PROVE  k \in DOMAIN tr /\ \E g \in Pair : shown(g) /\ k[1] = g
      <4>1. PICK g \in Pair : shown(g) /\ e = tr[key(g)]  BY <1>7
      <4>2. k[1] = g  BY <1>6, <3>2, <4>1 DEF OwnerOf
      <4>3. k \in DOMAIN tr  BY <1>5, <1>6, <3>2, <4>1, TrackerIs
      <4>. QED  BY <4>1, <4>2, <4>3
    <3>. QED
      BY <1>3, <3>1, <3>2
  <2>2. gSeen' \in SUBSET Sources!Keys
    BY <1>5, <2>1 DEF Tracker
  <2>3. gSeen' # None
    BY <2>2, SourcesConstants
  <2>4. \A g \in Pair : shown(g) => tr[key(g)].key \in gSeen'
    BY <1>3, <1>7
  <2>. QED
    BY <1>3, <2>1, <2>3, <2>4 DEF Some
<1>20. TodoOK'
  <2>1. \A x \in gTodo' : x.phase # 2 => x.phase \in {1, 3} /\ x.event \in ReadNow(TRUE)
    BY <1>4, <1>8
  <2>2. ASSUME NEW x \in gTodo', x.phase # 2 PROVE \E v \in DOMAIN tr : Listed(v) /\ x.event = tr[v]
    <3>1. PICK g \in Pair : shown(g) /\ x.event = tr[key(g)]  BY <1>7, <2>1, <2>2
    <3>. QED  BY <1>6, <3>1
  <2>3. \A x \in gTodo' : x.phase \in 1..3
    <3>1. \A x \in gTodo' : x.phase \in {1, 2, 3}  BY <1>4
    <3>. QED  BY <3>1
  <2>4. ASSUME NEW x \in gTodo', NEW y \in gTodo', x.phase = 3, y.phase = 3,
          OwnerOf(x.event) = OwnerOf(y.event)
        PROVE  x = y
    <3>. HIDE DEF key, shown
    <3>0. \A z \in gTodo' : z.phase = 3 => z.event \in ReadNow(TRUE)
      <4>1. 3 # 2  OBVIOUS
      <4>2. \A z : z.phase = 3 => z.phase # 2  BY <4>1, Zenon
      <4>. QED  BY <2>1, <4>2, Zenon
    <3>1. PICK g \in Pair : shown(g) /\ x.event = tr[key(g)]  BY <1>7, <2>4, <3>0
    <3>2. PICK h \in Pair : shown(h) /\ y.event = tr[key(h)]  BY <1>7, <2>4, <3>0
    <3>3. x.event = y.event  BY <1>6, <2>4, <3>1, <3>2
    <3>4. x = [phase |-> 3, event |-> x.event] /\ y = [phase |-> 3, event |-> y.event]
      BY <1>4a, <2>4
    <3>. QED  BY <3>3, <3>4
  <2>. QED
    BY <1>3, <1>19, <2>2, <2>3, <2>4 DEF TodoOK
<1>21. Watched'
  <2>1. \A g \in Pair : (gFirst'[g] # "none" => gFeed[g] # "none") /\
          (gFirst'[g] = "named" => gFeed[g] = "named")
    BY <1>2, <1>9 DEF Watched
  <2>2. ASSUME NEW g \in Pair, gFirst'[g] = "none"
          PROVE \A k \in gSeen' \cup Some(gCursor) : k[1] # g
    <3>1. gFirst[g] = "none" /\ ~shown(g)
      BY <1>9, <2>2
    <3>. QED
      BY <1>2, <1>19, <3>1 DEF Watched
  <2>3. ASSUME NEW g \in Pair, gFirst'[g] = "seeded", gFeed[g] = "bare"
        PROVE  /\ <<g, "bare", 0>> \in DOMAIN tr
               /\ gCursor # None => <<g, "bare", 0>> \in DOMAIN gAliasRows
    <3>1. <<g, "bare", 0>> \in DOMAIN tr
      BY <1>6, <2>3
    <3>2. CASE gFirst[g] = "seeded"
      BY <1>2, <2>3, <3>1, <3>2 DEF Watched
    <3>3. CASE gFirst[g] # "seeded"
      <4>1. gSeen = None  BY <1>9, <2>3, <3>3
      <4>. QED  BY <1>2, <1>3, <3>1, <4>1 DEF Watched
    <3>. QED
      BY <3>2, <3>3
  <2>4. \A g \in Pair : gFeed[g] = "bare" => tr[<<g, "bare", 0>>] \in gLatest'
    BY <1>3, <1>7
  <2>5. DOMAIN gAliasRows \subseteq DOMAIN tr
    BY <1>2, <1>3, <1>10 DEF Watched
  <2>. QED
    BY <1>2, <1>3, <1>15, <1>19, <2>1, <2>2, <2>3, <2>4, <2>5 DEF Watched
<1>22. AllNamed'
  <2>1. SUFFICES ASSUME gNear
                 PROVE  /\ \A t \in TaskSet : t.person # None
                        /\ \A x \in gTodo' : x.event.person # None
                        /\ Named(tr, gSeen') /\ Named(gAliasRows, gCursor)
    BY <1>3, <1>12 DEF AllNamed, Named, Some
  <2>2. /\ \A t \in TaskSet : t.person # None
        /\ Named(gTracker, gSeen) /\ Named(gAliasRows, gCursor)
    BY <1>1, <2>1 DEF Orderly, AllNamed
  <2>3. Named(tr, gSeen')
    <3>1. ASSUME NEW v \in DOMAIN tr, Listed(v) PROVE tr[v].key \in Some(gSeen)' \/
            tr[v].person # None
      <4>1. CASE v \in DOMAIN gTracker
        <5>1. gTracker[v].key \in Some(gSeen) \/ gTracker[v].person # None
          BY <2>2, <3>1, <4>1 DEF Named
        <5>. QED
          BY <1>3, <1>10, <1>19, <4>1, <5>1
      <4>2. ASSUME NEW g \in Pair, shown(g), v = key(g) PROVE tr[v].key \in Some(gSeen)'
        BY <1>19, <4>2
      <4>. QED
        BY <1>11, <4>1, <4>2
    <3>. QED
      BY <3>1 DEF Named, Some
  <2>4. ASSUME NEW g \in Pair, shown(g), gSeen # None,
               tr[key(g)] \notin gLatest \/ tr[key(g)].key \notin gSeen
        PROVE  tr[key(g)].person # None
    <3>1. CASE gFeed[g] = "named"
      BY <1>6, <2>4, <3>1
    <3>2. CASE gFeed[g] = "bare"
      <4>1. gFirst'[g] # "bare"
        BY <1>3, <2>1 DEF Separable
      <4>2. gFirst[g] = "seeded"
        BY <1>2, <1>9, <2>4, <3>2, <4>1 DEF Watched
      <4>3. key(g) \in DOMAIN gTracker
        BY <1>2, <2>4, <3>2, <4>2 DEF Watched
      <4>4. gTracker[key(g)] \in gLatest
        BY <1>2, <1>3, <3>2, <4>3 DEF Watched
      <4>. DEFINE b == gTracker[key(g)]
                  r == Sources!Row(g)
      <4>5. Pure(b) /\ OwnerOf(b) = g /\ b.label = "overview"
        BY <1>2, <1>6, <2>4, <4>3, TrackerIs
      <4>6. tr[key(g)] = Sources!Merged(b, r)
        <5>1. Base(gTracker, r) = b
          BY <1>6, <2>4, <4>3 DEF Base
        <5>. QED  BY <1>1, <1>6, <2>4, <5>1, ReadPart DEF tr
      <4>7. Sources!Merged(b, r) = b
        <5>1. /\ r.src = "overview" /\ r.at = g /\ r.label = "overview" /\ r.person = None /\
                r.name = None
              /\ r.score = g /\ r.second = None
          BY <2>4, <3>2, RowIs
        <5>. HIDE DEF b, r
        <5>2. b \in Sources!Event /\ b.score = g /\ b.at = g /\
                b.src \in {"overview", "shotmap"} /\ g # None
          BY <4>5, PureIs
        <5>3. Sources!Merged(b, r) =
                [key |-> b.key, src |-> b.src, at |-> b.at, label |-> b.label, person |-> b.person,
                 name |-> b.name, score |-> b.score, second |-> b.second]
          BY <4>5, <5>1, <5>2 DEF Sources!Merged, Sources!Or
        <5>. QED
          BY <5>2, <5>3 DEF Sources!Event
      <4>8. b.key \notin gSeen
        BY <2>4, <4>4, <4>6, <4>7
      <4>9. b.person # None
        BY <1>6, <2>2, <2>4, <4>3, <4>8 DEF Named, Some
      <4>. QED
        BY <4>6, <4>7, <4>9
    <3>. QED
      BY <2>4, <3>1, <3>2
  <2>5. ASSUME NEW x \in gTodo' PROVE x.event.person # None
    <3>1. CASE x.phase = 2
      <4>1. PICK s \in Sources!Shots : x.event = Sources!ShotEvent(s)
        BY <1>13, <3>1 DEF ShotsOnce, Promoted
      <4>. QED  BY <4>1, ShotEventIs, ShotIs, SourcesConstants
    <3>2. CASE x.phase # 2
      <4>1. /\ x.event \in ReadNow(TRUE) /\ gSeen # None
            /\ x.event \notin gLatest \/ x.event.key \notin gSeen
        BY <1>4, <1>8, <3>2
      <4>. QED  BY <1>7, <2>4, <4>1
    <3>. QED
      BY <3>1, <3>2
  <2>. QED
    BY <2>2, <2>3, <2>5
<1>23. ASSUME NEW g \in Pair \ gTorn PROVE Accounted(g)'
  <2>1. Accounted(g) /\ Traced(g, gTracker, gSeen)
    BY <1>1, <1>3 DEF Orderly, Accounted
  <2>2. Some(gSeen) \subseteq gSeen'
    BY <1>3
  <2>3. ASSUME shown(g), key(g) \notin DOMAIN gTracker, OverviewOnly(g), NEW w \in DOMAIN gTracker,
          w[1] = g
        PROVE  Base(gTracker, Sources!Row(g)) = gTracker[w]
    BY <1>1, <2>1, <2>3, OnlyOne
  <2>4. ASSUME shown(g)
        PROVE  LET b == Base(gTracker, Sources!Row(g))
                   m == Sources!Merged(b, Sources!Row(g)) IN
               /\ tr[key(g)] = m /\ m.key = b.key
               /\ \A v \in DOMAIN tr : v[1] = g => v = key(g) \/ v \in DOMAIN gTracker
               /\ \A v \in DOMAIN gTracker : v[1] = g => tr[v] = IF gTracker[v].key = m.key THEN m
                       ELSE gTracker[v]
               /\ m.src = "shotmap" <=> b.src = "shotmap"
               /\ m.src \in {"overview", "shotmap"}
               /\ m.name # None <=> (b.name # None \/ gFeed[g] = "named")
               /\ \/ key(g) \in DOMAIN gTracker /\ b = gTracker[key(g)]
                  \/ key(g) \notin DOMAIN gTracker /\ \E w \in DOMAIN gTracker : w[1] = g /\
                          b = gTracker[w]
                  \/ key(g) \notin DOMAIN gTracker /\ b = Sources!Row(g)
    <3>. DEFINE b == Base(gTracker, Sources!Row(g))
                m == Sources!Merged(b, Sources!Row(g))
    <3>0. LET r == Sources!Row(g) IN
          /\ r.key = key(g) /\ r.key \in DOMAIN tr /\ tr[r.key] = m
          /\ \A v \in DOMAIN tr : v[1] = g => v = r.key \/ v \in DOMAIN gTracker
          /\ \A v \in DOMAIN gTracker : v[1] = g =>
                v \in DOMAIN tr /\ tr[v] = IF gTracker[v].key = m.key THEN m ELSE gTracker[v]
          /\ Pure(m) /\ OwnerOf(m) = g /\ m.key = b.key /\ m.label = "overview"
          /\ m.src = "shotmap" <=> b.src = "shotmap"
          /\ m.name # None <=> (b.name # None \/ gFeed[g] = "named")
          /\ \/ r.key \in DOMAIN gTracker /\ b = gTracker[r.key]
             \/ r.key \notin DOMAIN gTracker /\ \E w \in DOMAIN gTracker : w[1] = g /\
                     b = gTracker[w]
             \/ r.key \notin DOMAIN gTracker /\ b = r
      BY <1>1, <2>4, ReadPart DEF tr
    <3>. HIDE DEF m, b
    <3>1. /\ Sources!Row(g).key = key(g) /\ tr[key(g)] = m /\ Pure(m) /\ m.key = b.key
          /\ \A v \in DOMAIN tr : v[1] = g => v = key(g) \/ v \in DOMAIN gTracker
          /\ \A v \in DOMAIN gTracker : v[1] = g => tr[v] = IF gTracker[v].key = m.key THEN m
                  ELSE gTracker[v]
          /\ m.src = "shotmap" <=> b.src = "shotmap"
          /\ m.name # None <=> (b.name # None \/ gFeed[g] = "named")
          /\ \/ key(g) \in DOMAIN gTracker /\ b = gTracker[key(g)]
             \/ key(g) \notin DOMAIN gTracker /\ \E w \in DOMAIN gTracker : w[1] = g /\
                     b = gTracker[w]
             \/ key(g) \notin DOMAIN gTracker /\ b = Sources!Row(g)
      <4>1. key(g) = Sources!Row(g).key  BY <3>0
      <4>. HIDE DEF key
      <4>. QED  BY <3>0, <4>1
    <3>2. m.src \in {"overview", "shotmap"}  BY <3>1, PureIs
    <3>. QED  BY <3>1, <3>2 DEF m, b
  <2>. DEFINE b == Base(gTracker, Sources!Row(g))
              m == Sources!Merged(b, Sources!Row(g))
  <2>5. ~shown(g) => \A v \in DOMAIN tr : v[1] = g => v \in DOMAIN gTracker /\ tr[v] = gTracker[v]
    BY <1>1, ReadOther DEF tr
  <2>. HIDE DEF m, b
  <2>6. Traced(g, tr, gSeen')
    <3>1. ASSUME NEW v \in DOMAIN tr, v[1] = g
          PROVE  tr[v].key \in Some(gSeen)' \cup (IF Listed(v) THEN {} ELSE TaskKeys)
      <4>1. CASE v \in DOMAIN gTracker
        BY <1>10, <1>19, <2>1, <2>2, <3>1, <4>1 DEF Traced
      <4>2. CASE v \notin DOMAIN gTracker
        BY <1>6, <1>11, <1>19, <3>1, <4>2
      <4>. QED
        BY <4>1, <4>2
    <3>2. \A t \in TasksOf(g) : Listed(t.key) => t.key \in DOMAIN tr /\ tr[t.key].key = t.key
      BY <1>10, <2>1 DEF Traced
    <3>3. ASSUME OverviewOnly(g), NEW v \in DOMAIN tr, NEW w \in DOMAIN tr, v[1] = g, w[1] = g
          PROVE  tr[v].key = tr[w].key
      <4>1. \A x, y \in DOMAIN gTracker : x[1] = g /\ y[1] = g => gTracker[x].key = gTracker[y].key
        BY <2>1, <3>3 DEF Traced
      <4>2. CASE v \in DOMAIN gTracker /\ w \in DOMAIN gTracker
        BY <1>10, <3>3, <4>1, <4>2
      <4>3. ASSUME NEW x \in DOMAIN tr, x[1] = g, x \notin DOMAIN gTracker,
                   NEW y \in DOMAIN gTracker, y[1] = g
            PROVE  tr[x].key = tr[y].key
        <5>1. shown(g) /\ x = key(g)
          BY <2>4, <2>5, <4>3
        <5>2. b = gTracker[y]
          BY <2>3, <3>3, <4>3, <5>1 DEF b
        <5>3. tr[x].key = b.key
          BY <2>4, <5>1 DEF m, b
        <5>. QED
          BY <1>10, <4>3, <5>2, <5>3
      <4>4. CASE v \notin DOMAIN gTracker /\ w \notin DOMAIN gTracker
        <5>1. v = w  BY <2>4, <2>5, <3>3, <4>4
        <5>. QED  BY <5>1
      <4>. QED
        BY <3>3, <4>2, <4>3, <4>4
    <3>4. ASSUME OverviewOnly(g), <<g, "named", 0>> \notin DOMAIN tr
          PROVE  /\ \A t \in TasksOf(g) : t.name = None
                 /\ \A v \in DOMAIN tr : v[1] = g => tr[v].name = None
      <4>1. <<g, "named", 0>> \notin DOMAIN gTracker
        BY <1>10, <3>4
      <4>2. /\ \A t \in TasksOf(g) : t.name = None
            /\ \A v \in DOMAIN gTracker : v[1] = g => gTracker[v].name = None
        BY <2>1, <3>4, <4>1 DEF Traced
      <4>3. ASSUME shown(g) PROVE m.name = None
        <5>1. gFeed[g] = "bare"  BY <1>6, <3>4, <4>3
        <5>2. Sources!Row(g).name = None  BY <5>1, RowIs
        <5>3. b.name = None
          BY <1>6, <2>4, <4>2, <4>3, <5>2 DEF b
        <5>. QED  BY <2>4, <4>3, <5>1, <5>3 DEF m, b
      <4>4. ASSUME NEW v \in DOMAIN tr, v[1] = g PROVE tr[v].name = None
        <5>1. CASE ~shown(g)  BY <2>5, <4>2, <4>4, <5>1
        <5>2. CASE shown(g)
          <6>1. tr[v] = m \/ (v \in DOMAIN gTracker /\ tr[v] = gTracker[v])
            BY <2>4, <4>4, <5>2 DEF m, b
          <6>. QED  BY <4>2, <4>3, <4>4, <5>2, <6>1
        <5>. QED  BY <5>1, <5>2
      <4>. QED
        BY <4>2, <4>4
    <3>. QED
      BY <3>1, <3>2, <3>3, <3>4 DEF Traced, Some
  <2>7. Unremembered(g) => Unremembered(g)'
    BY <1>3, <1>10 DEF Unremembered
  <2>8. ASSUME NEW x \in New(g)'
        PROVE  /\ Unremembered(g)'
               /\ x.event.key \in TaskKeys \/
                    (x.event.src = "overview" /\ \A t \in TasksOf(g) : t.src = "shotmap")
    <3>1. x \in gTodo' /\ x.phase = 3 /\ OwnerOf(x.event) = g
      BY DEF New
    <3>2. x.event \in ReadNew(TRUE)
      <4>1. \A z \in gTodo' : z.phase = 3 => z.event \in ReadNew(TRUE)  BY <1>4, Zenon
      <4>. QED  BY <3>1, <4>1
    <3>3. shown(g) /\ x.event = tr[key(g)] /\ gSeen # None /\ tr[key(g)].key \notin gSeen
      <4>1. x.event \in ReadNow(TRUE) /\ gSeen # None /\ x.event.key \notin gSeen
        BY <1>8, <3>2
      <4>2. PICK h \in Pair : shown(h) /\ x.event = tr[key(h)]
        BY <1>7, <4>1
      <4>3. h = g
        BY <1>6, <3>1, <4>2
      <4>. QED
        BY <4>1, <4>2, <4>3
    <3>4. Listed(key(g)) /\ key(g)[1] = g /\ key(g) \in DOMAIN tr
      BY <1>6, <3>3
    <3>5. key(g) \notin DOMAIN gTracker
      <4>1. SUFFICES ASSUME key(g) \in DOMAIN gTracker PROVE FALSE  OBVIOUS
      <4>2. gTracker[key(g)].key \in gSeen
        BY <2>1, <3>3, <3>4, <4>1 DEF Traced, Some
      <4>. QED  BY <1>10, <3>3, <4>1, <4>2
    <3>6. Unremembered(g)'
      <4>1. key(g) \notin DOMAIN gAliasRows
        BY <1>2, <1>3, <3>5 DEF Watched
      <4>. QED  BY <1>3, <3>4, <4>1 DEF Unremembered
    <3>7. x.event = m /\ m.key = b.key
      BY <2>4, <3>3 DEF m, b
    <3>8. ASSUME NEW w \in DOMAIN gTracker, w[1] = g, b = gTracker[w] PROVE x.event.key \in TaskKeys
      <4>1. gTracker[w].key \in gSeen \cup TaskKeys
        BY <2>1, <3>3, <3>8 DEF Traced, Some
      <4>. QED  BY <3>3, <3>7, <3>8, <4>1
    <3>9. ASSUME b = Sources!Row(g)
          PROVE  x.event.src = "overview" /\ \A t \in TasksOf(g) : t.src = "shotmap"
      <4>1. b.src = "overview" /\ b.key = key(g)
        BY <1>6, <3>3, <3>9, RowIs
      <4>2. x.event.src = "overview"
        BY <2>4, <3>3, <3>7, <4>1 DEF m, b
      <4>3. ASSUME NEW t \in TasksOf(g), t.src # "shotmap" PROVE FALSE
        <5>1. t \in TaskSet /\ OwnerOf(t) = g /\ Pure(t)
          BY <1>2 DEF TasksOf, TasksPure
        <5>2. OverviewOnly(g)
          BY <2>1, <4>3, <5>1, PureIs DEF Accounted, OverviewOnly
        <5>3. Listed(t.key) /\ t.key[1] = g
          BY <4>3, <5>1, PureIs DEF OwnerOf
        <5>4. t.key \in DOMAIN gTracker
          BY <2>1, <5>3 DEF Traced
        <5>5. b = gTracker[t.key]
          BY <2>3, <3>3, <3>5, <5>2, <5>3, <5>4 DEF b
        <5>6. b.key \in DOMAIN gTracker
          BY <1>2, <5>4, <5>5, TrackerIs
        <5>. QED
          BY <3>5, <4>1, <5>6
      <4>. QED
        BY <4>2, <4>3
    <3>. QED
      BY <2>4, <3>3, <3>5, <3>6, <3>8, <3>9 DEF m, b
  <2>9. ASSUME gFirst'[g] \in {"bare", "named"}
        PROVE  TasksOf(g) # {} \/ (New(g)' # {} /\ \A k \in Some(gCursor) : k[1] # g)
    <3>1. CASE gFirst[g] # "none"
      <4>1. New(g) = {}  BY <1>3 DEF New
      <4>. QED  BY <1>9, <2>1, <2>9, <3>1, <4>1 DEF Accounted
    <3>2. CASE gFirst[g] = "none"
      <4>1. shown(g) /\ tr[key(g)] \in ReadNew(TRUE)
        BY <1>9, <2>9, <3>2
      <4>2. [phase |-> 3, event |-> tr[key(g)]] \in gTodo'
        BY <1>4a, <4>1
      <4>3. [phase |-> 3, event |-> tr[key(g)]] \in New(g)'
        BY <1>6, <4>1, <4>2 DEF New
      <4>. QED  BY <1>2, <3>2, <4>3 DEF Watched
    <3>. QED
      BY <3>1, <3>2
  <2>10. Traced(g, gTracker, gSeen)' /\ (~Unremembered(g)' => Traced(g, gAliasRows, gCursor)')
    <3>1. ~Unremembered(g) => Traced(g, gAliasRows, gCursor)
      BY <2>1 DEF Accounted
    <3>. QED
      BY <1>3, <1>12, <2>6, <2>7, <3>1
  <2>. QED
    BY <1>3, <1>12, <1>19, <2>1, <2>8, <2>9, <2>10 DEF Accounted
<1>. QED
  BY <1>1, <1>2, <1>3, <1>5, <1>12, <1>13, <1>16, <1>17, <1>18, <1>20, <1>21, <1>22,
          <1>23 DEF Orderly

\* A pass starts, with or without a snapshot of the overview.
LEMMA PollStep ==
  ASSUME SourcesInv, NEW due \in BOOLEAN, Sources!Poll(due) PROVE SourcesInv'
<1>1. ShotsOnce' /\ Forgotten'
  BY PollShots
<1>2. gNear' = gNear /\ gUp' = gUp /\ gPolled' = due
  BY PollIs
<1>3. Separable' => Orderly'
  <2>1. CASE due  BY <2>1, PollDue
  <2>2. CASE ~due  BY <2>2, PollNotDue
  <2>. QED  BY <2>1, <2>2
<1>. QED
  BY <1>1, <1>2, <1>3 DEF SourcesInv

-----------------------------------------------------------------------------
(* An event of a pass. *)
\* What handling an event of a pass leaves alone.
Handling(x) ==
  /\ UNCHANGED <<gNear, gUp, gFeed, gShots, gTorn, gSuppressed, gCursor, gAliasRows, gSnapshot>>
  /\ UNCHANGED <<gSeen, gTracker, gLatest, gResponse, gCores, gPending, gPolled, gFirst>>
  /\ gUp /\ x \in gTodo /\ gTodo' = gTodo \ {x}

LEMMA HandlingIs ==
  ASSUME NEW x \in gTodo, Sources!Handle(x) PROVE Handling(x)
  BY DEF Sources!Handle, Sources!world, Sources!source, Sources!shotmap, Handling

LEMMA HandlingShots ==
  ASSUME SourcesInv, NEW x, Handling(x)
  PROVE  /\ ShotsOnce' /\ Forgotten' /\ (Separable' => Orderly)
         /\ Promoted' \subseteq Promoted /\ x \notin Promoted'
         /\ \A g : New(g)' \subseteq New(g)
         /\ \A g : (x.phase = 3 /\ OwnerOf(x.event) = g) \/ New(g)' = New(g)
<1>1. Promoted' \subseteq Promoted /\ x \notin Promoted'
  BY DEF Handling, Promoted
<1>2. ShotsOnce' /\ Forgotten'
  BY <1>1 DEF Handling, SourcesInv, ShotsOnce, Forgotten
<1>3. Separable' => Orderly
  BY DEF Handling, SourcesInv, Separable
<1>4. \A g : New(g)' \subseteq New(g)
  BY DEF Handling, New
<1>5. \A g : (x.phase = 3 /\ OwnerOf(x.event) = g) \/ New(g)' = New(g)
  BY DEF Handling, New
<1>. QED
  BY <1>1, <1>2, <1>3, <1>4, <1>5

\* The event of a pass, and what is known of its goal when it is from the shotmap.
LEMMA TodoEvent ==
  ASSUME SourcesInv, Orderly, NEW x \in gTodo
  PROVE  LET e == x.event IN
         /\ Pure(e) /\ x.phase \in 1..3 /\ (gNear => e.person # None)
         /\ x.phase # 2 => /\ e.label = "overview" /\ e.key \in DOMAIN gTracker
                           /\ e = gTracker[e.key]
         /\ x.phase = 2 => ~Listed(e.key) /\ e.src = "shotmap" /\ e.label = "shotmap"
<1>1. TodoOK /\ Tracker(gTracker) /\ AllNamed
  BY DEF Orderly
<1>2. CASE x.phase = 2
  <2>1. x \in Promoted
    BY <1>2 DEF Promoted
  <2>2. PICK s \in Sources!Shots : x.event = Sources!ShotEvent(s)
    BY <2>1 DEF SourcesInv, ShotsOnce
  <2>. QED
    BY <1>1, <1>2, <2>2, ShotEventIs DEF TodoOK, AllNamed
<1>3. CASE x.phase # 2
  <2>1. PICK v \in DOMAIN gTracker : Listed(v) /\ x.event = gTracker[v]
    BY <1>1, <1>3 DEF TodoOK
  <2>2. Pure(x.event) /\ x.event.label = "overview" /\ x.event.key \in DOMAIN gTracker /\
          x.event = gTracker[x.event.key]
    BY <1>1, <2>1, TrackerIs
  <2>. QED
    BY <1>1, <1>3, <2>2 DEF TodoOK, AllNamed
<1>. QED
  BY <1>2, <1>3

\* A goal with a shotmap event has no other candidate.
LEMMA ShotReady ==
  ASSUME SourcesInv, Orderly, NEW x, Handling(x), x.event.src = "shotmap"
  PROVE  /\ OwnerOf(x.event) \in gSnapshot
         /\ \A s \in gPending : s[1] # OwnerOf(x.event)
         /\ \A y \in Promoted' : OwnerOf(y.event) # OwnerOf(x.event)
<1>1. x \in gTodo /\ Promoted' \subseteq Promoted /\ x \notin Promoted'
  BY HandlingShots DEF Handling
<1>2. CASE x.phase = 2
  <2>1. x \in Promoted
    BY <1>1, <1>2 DEF Promoted
  <2>. QED
    BY <1>1, <2>1 DEF SourcesInv, ShotsOnce
<1>3. CASE x.phase # 2
  <2>1. x.event.key \in DOMAIN gTracker /\ x.event = gTracker[x.event.key]
    BY <1>1, <1>3, TodoEvent
  <2>2. PICK t \in TasksOf(OwnerOf(x.event)) : t.src = "shotmap"
    BY <2>1 DEF Orderly, Backed, OwnerOf
  <2>3. t \in TaskSet /\ OwnerOf(t) = OwnerOf(x.event)
    BY DEF TasksOf
  <2>. QED
    BY <1>1, <2>2, <2>3 DEF Orderly, ShotTasks
<1>. QED
  BY <1>2, <1>3

\* The task of another source is one of the same goal, and one is found.
LEMMA SelectedIs ==
  ASSUME Orderly, NEW e, Pure(e), gNear => e.person # None, NEW t \in Sources!Selected(e)
  PROVE  t \in TaskSet /\ Pure(t) /\ t.src # e.src /\ OwnerOf(t) = OwnerOf(e)
<1>. DEFINE candidates == {u \in Sources!ToSet(gTasks) : u.src # e.src /\ Sources!SameGoal(u, e)}
            strong == {u \in candidates : Sources!Strong(u, e)}
<1>1. t \in candidates
  <2>1. Sources!Selected(e) \subseteq candidates
    <3>1. strong \subseteq candidates  OBVIOUS
    <3>2. Sources!Selected(e) = IF Sources!Cardinality(strong) = 1 THEN strong
              ELSE IF strong = {} /\ Sources!Cardinality(candidates) = 1 THEN candidates ELSE {}
      BY DEF Sources!Selected
    <3>. HIDE DEF strong, candidates
    <3>. QED  BY <3>1, <3>2
  <2>. QED  BY <2>1
<1>2. t \in TaskSet /\ t.src # e.src /\ Sources!SameGoal(t, e)
  BY <1>1 DEF Sources!ToSet, TaskSet
<1>3. Pure(t) /\ (gNear => t.person # None)
  BY <1>2 DEF Orderly, TasksPure, AllNamed
<1>4. OwnerOf(t) = OwnerOf(e)
  <2>1. CASE t.at = e.at
    BY <1>3, <2>1, PureIs
  <2>2. CASE gNear
    <3>1. t.person = e.person
      BY <1>2, <1>3, <2>2 DEF Sources!SameGoal, Sources!Differ
    <3>. QED
      BY <1>3, <2>2, <3>1, PureIs
  <2>. QED
    BY <1>2, <2>1, <2>2 DEF Sources!SameGoal, Sources!Close
<1>. QED
  BY <1>2, <1>3, <1>4

\* A goal with one task of the other source is found.
LEMMA SelectedSome ==
  ASSUME Orderly, NEW e, Pure(e), gNear => e.person # None, NEW t \in TasksOf(OwnerOf(e)),
         t.src # e.src, \A u \in TasksOf(OwnerOf(e)) : u = t
  PROVE  Sources!Selected(e) # {}
<1>. DEFINE candidates == {u \in Sources!ToSet(gTasks) : u.src # e.src /\ Sources!SameGoal(u, e)}
            strong == {u \in candidates : Sources!Strong(u, e)}
<1>1. t \in TaskSet /\ Pure(t) /\ OwnerOf(t) = OwnerOf(e)
  BY DEF TasksOf, Orderly, TasksPure
<1>2. Sources!SameGoal(t, e)
  BY <1>1, PureIs DEF Sources!SameGoal, Sources!Close, Sources!Differ
<1>3. t \in candidates
  BY <1>1, <1>2 DEF Sources!ToSet, TaskSet
<1>4. ASSUME NEW u \in candidates PROVE u = t
  <2>1. u \in TaskSet /\ u.src # e.src /\ Sources!SameGoal(u, e)
    BY <1>4 DEF Sources!ToSet, TaskSet
  <2>2. Pure(u) /\ (gNear => u.person # None)
    BY <2>1 DEF Orderly, TasksPure, AllNamed
  <2>3. OwnerOf(u) = OwnerOf(e)
    <3>1. CASE u.at = e.at
      BY <2>2, <3>1, PureIs
    <3>2. CASE gNear
      <4>1. u.person = e.person
        BY <2>1, <2>2, <3>2 DEF Sources!SameGoal, Sources!Differ
      <4>. QED
        BY <2>2, <3>2, <4>1, PureIs
    <3>. QED
      BY <2>1, <3>1, <3>2 DEF Sources!SameGoal, Sources!Close
  <2>. QED
    BY <2>1, <2>3 DEF TasksOf
<1>5. candidates = {t}
  BY <1>3, <1>4
<1>6. strong = {} \/ strong = {t}
  BY <1>5
<1>7. Sources!Selected(e) = IF Sources!Cardinality(strong) = 1 THEN strong
          ELSE IF strong = {} /\ Sources!Cardinality(candidates) = 1 THEN candidates ELSE {}
  BY DEF Sources!Selected
<1>. HIDE DEF strong, candidates
<1>8. Sources!Cardinality({t}) = 1 /\ Sources!Cardinality({}) # 1  BY OneIs
<1>9. CASE strong = {t}
  BY <1>7, <1>8, <1>9
<1>10. CASE strong = {}
  BY <1>5, <1>7, <1>8, <1>10
<1>. QED
  BY <1>6, <1>9, <1>10

\* What an event adds to a task.
Enriched(t, m) ==
  /\ Pure(m) /\ OwnerOf(m) = OwnerOf(t) /\ m.key = t.key
  /\ t.src = "shotmap" => m.src = "shotmap"
  /\ t.person # None => m.person # None
  /\ t.label = "overview" \/ Listed(t.key) => m.label = "overview"

\* A task is replaced where it is.
LEMMA UpdateIs ==
  ASSUME TasksPure, NEW t \in TaskSet, NEW m, Enriched(t, m), gTasks' = Sources!Update(t, m)
  PROVE  /\ gTasks' \in Seq(Sources!Event) /\ DOMAIN gTasks' = DOMAIN gTasks
         /\ \A i \in DOMAIN gTasks : gTasks'[i] = IF gTasks[i] = t THEN m ELSE gTasks[i]
         /\ \A i \in DOMAIN gTasks : gTasks'[i].key = gTasks[i].key
         /\ TaskSet' = (TaskSet \ {t}) \cup {m} /\ TaskKeys' = TaskKeys
<1>1. gTasks \in Seq(Sources!Event) /\ m \in Sources!Event
  BY PureIs DEF TasksPure, Enriched
<1>2. gTasks' = [i \in 1..Len(gTasks) |-> IF gTasks[i] = t THEN m ELSE gTasks[i]]
  BY DEF Sources!Update, Sources!ReplaceAll
<1>3. DOMAIN gTasks = 1..Len(gTasks) /\ Len(gTasks) \in Nat /\
        \A i \in DOMAIN gTasks : gTasks[i] \in Sources!Event
  BY <1>1
<1>4. /\ DOMAIN gTasks' = DOMAIN gTasks
      /\ \A i \in DOMAIN gTasks : gTasks'[i] = IF gTasks[i] = t THEN m ELSE gTasks[i]
  BY <1>2, <1>3
<1>5. gTasks' \in Seq(Sources!Event)
  <2>1. gTasks' \in [1..Len(gTasks) -> Sources!Event]
    BY <1>1, <1>2, <1>3
  <2>. QED
    BY <1>3, <2>1
<1>6. \A i \in DOMAIN gTasks : gTasks'[i].key = gTasks[i].key
  BY <1>4 DEF Enriched
<1>7. TaskSet' = (TaskSet \ {t}) \cup {m}
  <2>1. PICK k \in DOMAIN gTasks : gTasks[k] = t
    BY DEF TaskSet
  <2>2. ASSUME NEW u \in TaskSet' PROVE u \in (TaskSet \ {t}) \cup {m}
    BY <1>4, <2>2 DEF TaskSet
  <2>3. ASSUME NEW u \in (TaskSet \ {t}) \cup {m} PROVE u \in TaskSet'
    <3>1. m \in TaskSet'
      BY <1>4, <2>1 DEF TaskSet
    <3>2. CASE u \in TaskSet /\ u # t
      <4>1. PICK i \in DOMAIN gTasks : gTasks[i] = u
        BY <3>2 DEF TaskSet
      <4>2. gTasks'[i] = u /\ i \in DOMAIN gTasks'
        BY <1>4, <3>2, <4>1
      <4>. QED
        BY <4>2 DEF TaskSet
    <3>. QED
      BY <2>3, <3>1, <3>2
  <2>. QED
    BY <2>2, <2>3
<1>8. TaskKeys' = TaskKeys
  BY <1>7 DEF TaskKeys, Enriched
<1>. QED
  BY <1>4, <1>5, <1>6, <1>7, <1>8

\* The tasks stay pure, and those of other goals as they are.
LEMMA UpdatePure ==
  ASSUME TasksPure, NEW t \in TaskSet, NEW m, Enriched(t, m), gTasks' = Sources!Update(t, m),
         UNCHANGED <<gFeed, gFirst, gSuppressed>>
  PROVE  /\ TasksPure'
         /\ \A g : g # OwnerOf(t) => TasksOf(g)' = TasksOf(g)
         /\ TasksOf(OwnerOf(t))' = (TasksOf(OwnerOf(t)) \ {t}) \cup {m}
<1>1. /\ gTasks' \in Seq(Sources!Event) /\ DOMAIN gTasks' = DOMAIN gTasks
      /\ \A i \in DOMAIN gTasks : gTasks'[i] = IF gTasks[i] = t THEN m ELSE gTasks[i]
      /\ \A i \in DOMAIN gTasks : gTasks'[i].key = gTasks[i].key
      /\ TaskSet' = (TaskSet \ {t}) \cup {m}
  BY UpdateIs
<1>2. /\ \A u \in TaskSet : Pure(u)
      /\ Pure(m) /\ OwnerOf(m) = OwnerOf(t) /\ m.key = t.key
      /\ t.label = "overview" \/ Listed(t.key) => m.label = "overview"
  BY DEF TasksPure, Enriched
<1>3. \A u \in TaskSet' : Pure(u)
  BY <1>1, <1>2
<1>4. \A u \in TaskSet' : Listed(u.key) =>
        /\ u.label = "overview"
        /\ gFeed'[OwnerOf(u)] \in {u.key[2], "named"} /\ gFirst'[OwnerOf(u)] # "none"
  BY <1>1, <1>2 DEF TasksPure
<1>5. \A i, j \in DOMAIN gTasks' : gTasks'[i].key = gTasks'[j].key => i = j
  BY <1>1 DEF TasksPure
<1>6. \A u, w \in TaskSet' : ~Listed(u.key) /\ ~Listed(w.key) /\ OwnerOf(u) = OwnerOf(w) => u = w
  BY <1>1, <1>2 DEF TasksPure
<1>7. \A i \in DOMAIN gTasks : OwnerOf(gTasks'[i]) = OwnerOf(gTasks[i])
  BY <1>1 DEF OwnerOf
<1>8. \A k \in gSuppressed : \E i, j \in DOMAIN gTasks' :
        i # j /\ gTasks'[i].key = k /\ OwnerOf(gTasks'[j]) = k[1]
  BY <1>1, <1>7 DEF TasksPure
<1>9. TasksPure'
  BY <1>1, <1>3, <1>4, <1>5, <1>6, <1>8 DEF TasksPure
<1>. QED
  BY <1>1, <1>2, <1>9 DEF TasksOf

\* The rest of the invariant does not depend on how an event is handled.
LEMMA HandlingOrderly ==
  ASSUME SourcesInv, Orderly, NEW x, Handling(x),
         TasksPure', ShotTasks', Backed(gTracker)', Backed(gAliasRows)',
         gNear => \A t \in TaskSet' : t.person # None,
         \A g \in Pair \ gTorn : Accounted(g)'
  PROVE  Orderly'
<1>1. TodoOK'
  BY DEF Orderly, TodoOK, Handling
<1>2. Watched' /\ Displayed(gTracker)' /\ Displayed(gAliasRows)'
  BY DEF Orderly, Watched, Displayed, Handling, Some
<1>3. AllNamed'
  BY DEF Orderly, AllNamed, Named, Handling, Some
<1>4. Tracker(gTracker)' /\ Tracker(gAliasRows)'
  BY DEF Orderly, Handling
<1>5. gTorn' = gTorn
  BY DEF Handling
<1>. QED
  BY <1>1, <1>2, <1>3, <1>4, <1>5 DEF Orderly

\* A goal without a task of its own in the step.
LEMMA KeptApart ==
  ASSUME NEW x, Handling(x), NEW g, Accounted(g), TaskKeys \subseteq TaskKeys',
          TasksOf(g)' = TasksOf(g),
         New(g)' \subseteq New(g), New(g)' = New(g) \/ TasksOf(g) # {}
  PROVE  Accounted(g)'
<1>1. OverviewOnly(g)' <=> OverviewOnly(g)
  BY DEF OverviewOnly
<1>2. Unremembered(g)' <=> Unremembered(g)
  BY DEF Unremembered, Handling
<1>3. Traced(g, gTracker, gSeen) => Traced(g, gTracker, gSeen)'
  BY <1>1 DEF Traced, Handling, Some
<1>4. Traced(g, gAliasRows, gCursor) => Traced(g, gAliasRows, gCursor)'
  BY <1>1 DEF Traced, Handling, Some
<1>5. gUp' = gUp /\ gFirst' = gFirst /\ Some(gCursor)' = Some(gCursor)
  BY DEF Handling, Some
<1>6. ASSUME NEW y \in New(g)'
      PROVE  /\ Unremembered(g)'
             /\ y.event.key \in TaskKeys' \/
                  (y.event.src = "overview" /\ \A t \in TasksOf(g)' : t.src = "shotmap")
  BY <1>2, <1>6 DEF Accounted
<1>7. gFirst'[g] \in {"bare", "named"} =>
        TasksOf(g)' # {} \/ (New(g)' # {} /\ \A k \in Some(gCursor)' : k[1] # g)
  BY <1>5 DEF Accounted
<1>8. \A t, u \in TasksOf(g)' : t = u
  BY DEF Accounted
<1>. QED
  BY <1>2, <1>3, <1>4, <1>5, <1>6, <1>7, <1>8 DEF Accounted

\* An event that changes no task has a task of its goal already.
LEMMA HandleKeep ==
  ASSUME SourcesInv, Orderly, NEW x, Handling(x), gTasks' = gTasks,
         x.phase = 3 => TasksOf(OwnerOf(x.event)) # {}
  PROVE  Orderly'
<1>1. /\ TaskSet' = TaskSet /\ TaskKeys' = TaskKeys
      /\ \A g : TasksOf(g)' = TasksOf(g)
      /\ \A tr : Backed(tr)' <=> Backed(tr)
  BY TasksFrame
<1>2. /\ Promoted' \subseteq Promoted /\ \A g : New(g)' \subseteq New(g)
      /\ \A g : (x.phase = 3 /\ OwnerOf(x.event) = g) \/ New(g)' = New(g)
  BY HandlingShots
<1>3. TasksPure'
  BY <1>1 DEF Orderly, TasksPure, Handling
<1>4. ShotTasks'
  BY <1>1, <1>2 DEF Orderly, ShotTasks, Handling
<1>5. Backed(gTracker)' /\ Backed(gAliasRows)'
  BY <1>1 DEF Orderly, Handling
<1>6. gNear => \A t \in TaskSet' : t.person # None
  BY <1>1 DEF Orderly, AllNamed
<1>7. ASSUME NEW g \in Pair \ gTorn PROVE Accounted(g)'
  <2>1. Accounted(g)
    BY DEF Orderly
  <2>2. New(g)' = New(g) \/ TasksOf(g) # {}
    BY <1>2
  <2>. QED
    BY <1>1, <1>2, <2>1, <2>2, KeptApart
<1>. QED
  BY <1>3, <1>4, <1>5, <1>6, <1>7, HandlingOrderly

\* An event that a task of its goal takes up.
LEMMA HandleUpdate ==
  ASSUME SourcesInv, Orderly, NEW x, Handling(x),
         NEW t \in TaskSet, OwnerOf(t) = OwnerOf(x.event),
         NEW m, Enriched(t, m), gTasks' = Sources!Update(t, m),
         m.src = "shotmap" => t.src = "shotmap" \/ x.event.src = "shotmap",
         m.src = "shotmap" \/ m.name = None \/ t.name # None
           \/ (x.event.name # None /\ x.event.key \in DOMAIN gTracker /\
                   x.event = gTracker[x.event.key])
  PROVE  Orderly'
<1>. DEFINE h == OwnerOf(t)
<1>1. TasksPure /\ ShotTasks /\ Backed(gTracker) /\ Backed(gAliasRows)
  BY DEF Orderly
<1>2. TaskSet' = (TaskSet \ {t}) \cup {m} /\ TaskKeys' = TaskKeys
  BY <1>1, UpdateIs
<1>3. /\ TasksPure'
      /\ \A g : g # h => TasksOf(g)' = TasksOf(g)
      /\ TasksOf(h)' = (TasksOf(h) \ {t}) \cup {m}
  <2>1. UNCHANGED <<gFeed, gFirst, gSuppressed>>
    BY DEF Handling
  <2>. QED
    BY <1>1, <2>1, UpdatePure
<1>4. /\ Promoted' \subseteq Promoted /\ \A g : New(g)' \subseteq New(g)
      /\ \A g : (x.phase = 3 /\ OwnerOf(x.event) = g) \/ New(g)' = New(g)
  BY HandlingShots
<1>5. /\ Pure(m) /\ OwnerOf(m) = h /\ m.key = t.key
      /\ t.src = "shotmap" => m.src = "shotmap"
      /\ t.person # None => m.person # None
      /\ t.label = "overview" \/ Listed(t.key) => m.label = "overview"
  BY DEF Enriched
<1>6. t \in TasksOf(h)
  BY DEF TasksOf
<1>7. ShotTasks'
  <2>1. UNCHANGED <<gSnapshot, gPending>>
    BY DEF Handling
  <2>2. ASSUME NEW u \in TaskSet', u.src = "shotmap"
        PROVE  /\ OwnerOf(u) \in gSnapshot
               /\ \A s \in gPending : s[1] # OwnerOf(u)
               /\ \A y \in Promoted' : OwnerOf(y.event) # OwnerOf(u)
    <3>1. CASE u \in TaskSet
      BY <1>1, <1>4, <2>2, <3>1 DEF ShotTasks
    <3>2. CASE u = m /\ t.src = "shotmap"
      BY <1>1, <1>4, <1>5, <3>2 DEF ShotTasks
    <3>3. CASE u = m /\ x.event.src = "shotmap"
      BY <1>5, <3>3, ShotReady
    <3>. QED
      BY <1>2, <2>2, <3>1, <3>2, <3>3
  <2>. QED
    BY <2>1, <2>2 DEF ShotTasks
<1>8. ASSUME NEW tr, Backed(tr) PROVE Backed(tr)'
  <2>1. ASSUME NEW g, NEW u \in TasksOf(g), u.src = "shotmap"
        PROVE  \E w \in TasksOf(g)' : w.src = "shotmap"
    BY <1>3, <1>5, <2>1
  <2>2. \A v \in DOMAIN tr :
          /\ ~Listed(v) => v \in TaskKeys
          /\ tr[v].src = "shotmap" => \E u \in TasksOf(v[1]) : u.src = "shotmap"
    BY <1>8 DEF Backed
  <2>3. \A v \in DOMAIN tr :
          /\ ~Listed(v) => v \in TaskKeys'
          /\ tr[v].src = "shotmap" => \E u \in TasksOf(v[1])' : u.src = "shotmap"
    BY <1>2, <2>1, <2>2
  <2>4. \A u \in TaskSet' : u.key \in DOMAIN tr /\ tr[u.key].label = "overview" =>
          u.label = "overview"
    BY <1>2, <1>5, <1>8 DEF Backed
  <2>. QED
    BY <2>3, <2>4 DEF Backed
<1>9. Backed(gTracker)' /\ Backed(gAliasRows)'
  BY <1>1, <1>8 DEF Handling
<1>10. gNear => \A u \in TaskSet' : u.person # None
  BY <1>2, <1>5 DEF Orderly, AllNamed
<1>11. ASSUME NEW g \in Pair \ gTorn, g # h PROVE Accounted(g)'
  <2>1. Accounted(g)
    BY <1>11 DEF Orderly
  <2>2. New(g)' = New(g) \/ TasksOf(g) # {}
    BY <1>4, <1>11
  <2>. QED
    BY <1>2, <1>3, <1>4, <1>11, <2>1, <2>2, KeptApart
<1>12. ASSUME h \in Pair \ gTorn PROVE Accounted(h)'
  <2>1. Accounted(h)
    BY <1>12 DEF Orderly
  <2>2. TasksOf(h) = {t}
    BY <1>6, <2>1 DEF Accounted
  <2>3. TasksOf(h)' = {m}
    BY <1>3, <2>2
  <2>4. OverviewOnly(h)' => OverviewOnly(h) /\ m.src # "shotmap"
    <3>1. t.src # "shotmap" => t.src = "overview"
      BY <1>1, PureIs DEF TasksPure
    <3>. QED
      BY <1>5, <2>2, <2>3, <3>1 DEF OverviewOnly
  <2>5. ASSUME OverviewOnly(h)', m.name # None, t.name = None PROVE <<h, "named",
          0>> \in DOMAIN gTracker
    <3>1. x.event.name # None /\ x.event.key \in DOMAIN gTracker /\ x.event = gTracker[x.event.key]
      BY <2>4, <2>5
    <3>2. x.event.key[1] = h
      BY DEF OwnerOf
    <3>3. OverviewOnly(h) /\ gUp
      BY <2>4, <2>5 DEF Handling
    <3>4. Traced(h, gTracker, gSeen)
      BY <2>1, <3>3 DEF Accounted
    <3>. QED
      BY <3>1, <3>2, <3>3, <3>4 DEF Traced
  <2>6. ASSUME NEW tr, NEW keys, Traced(h, tr, keys),
               <<h, "named", 0>> \in DOMAIN gTracker => <<h, "named", 0>> \in DOMAIN tr
        PROVE  /\ \A v \in DOMAIN tr : v[1] = h =>
                    tr[v].key \in Some(keys) \cup (IF Listed(v) THEN {} ELSE TaskKeys')
               /\ \A u \in TasksOf(h)' : Listed(u.key) => u.key \in DOMAIN tr /\
                       tr[u.key].key = u.key
               /\ OverviewOnly(h)' =>
                    /\ \A v, w \in DOMAIN tr : v[1] = h /\ w[1] = h => tr[v].key = tr[w].key
                    /\ (\E u \in TasksOf(h)' : u.name # None) \/
                            (\E v \in DOMAIN tr : v[1] = h /\ tr[v].name # None)
                          => <<h, "named", 0>> \in DOMAIN tr
    <3>1. \A v \in DOMAIN tr : v[1] = h =>
             tr[v].key \in Some(keys) \cup (IF Listed(v) THEN {} ELSE TaskKeys')
      BY <1>2, <2>6 DEF Traced
    <3>2. \A u \in TasksOf(h)' : Listed(u.key) => u.key \in DOMAIN tr /\ tr[u.key].key = u.key
      BY <1>5, <2>2, <2>3, <2>6 DEF Traced
    <3>3. ASSUME OverviewOnly(h)'
          PROVE  /\ \A v, w \in DOMAIN tr : v[1] = h /\ w[1] = h => tr[v].key = tr[w].key
                 /\ (\E v \in DOMAIN tr : v[1] = h /\ tr[v].name # None) => <<h, "named",
                         0>> \in DOMAIN tr
      BY <2>4, <2>6, <3>3 DEF Traced
    <3>4. ASSUME OverviewOnly(h)', NEW u \in TasksOf(h)', u.name # None PROVE <<h, "named",
            0>> \in DOMAIN tr
      <4>1. u = m  BY <2>3, <3>4
      <4>2. CASE t.name # None
        BY <2>2, <2>4, <2>6, <3>4, <4>2 DEF Traced
      <4>3. CASE t.name = None
        BY <2>5, <2>6, <3>4, <4>1, <4>3
      <4>. QED
        BY <4>2, <4>3
    <3>. QED
      BY <3>1, <3>2, <3>3, <3>4
  <2>7. gUp /\ gUp' /\ (Unremembered(h)' <=> Unremembered(h)) /\ gFirst' = gFirst
    BY DEF Handling, Unremembered
  <2>8. Traced(h, gTracker, gSeen)'
    <3>1. Traced(h, gTracker, gSeen)
      BY <2>1, <2>7 DEF Accounted
    <3>2. gTracker' = gTracker /\ gSeen' = gSeen  BY DEF Handling
    <3>3. /\ \A v \in DOMAIN gTracker : v[1] = h =>
                gTracker[v].key \in Some(gSeen) \cup (IF Listed(v) THEN {} ELSE TaskKeys')
          /\ \A u \in TasksOf(h)' : Listed(u.key) => u.key \in DOMAIN gTracker /\
                  gTracker[u.key].key = u.key
          /\ OverviewOnly(h)' =>
                /\ \A v, w \in DOMAIN gTracker : v[1] = h /\ w[1] = h =>
                        gTracker[v].key = gTracker[w].key
                /\ (\E u \in TasksOf(h)' : u.name # None)
                     \/ (\E v \in DOMAIN gTracker : v[1] = h /\ gTracker[v].name # None)
                      => <<h, "named", 0>> \in DOMAIN gTracker
      BY <2>6, <3>1
    <3>. QED
      BY <3>2, <3>3 DEF Traced, Some
  <2>9. ASSUME ~Unremembered(h) PROVE Traced(h, gAliasRows, gCursor)'
    <3>1. Traced(h, gAliasRows, gCursor)
      BY <2>1, <2>9 DEF Accounted
    <3>2. gAliasRows' = gAliasRows /\ gCursor' = gCursor  BY DEF Handling
    <3>3. <<h, "named", 0>> \in DOMAIN gTracker => <<h, "named", 0>> \in DOMAIN gAliasRows
      BY <2>9 DEF Unremembered, Listed
    <3>4. /\ \A v \in DOMAIN gAliasRows : v[1] = h =>
                gAliasRows[v].key \in Some(gCursor) \cup (IF Listed(v) THEN {} ELSE TaskKeys')
          /\ \A u \in TasksOf(h)' : Listed(u.key) => u.key \in DOMAIN gAliasRows /\
                  gAliasRows[u.key].key = u.key
          /\ OverviewOnly(h)' =>
                /\ \A v, w \in DOMAIN gAliasRows : v[1] = h /\ w[1] = h =>
                        gAliasRows[v].key = gAliasRows[w].key
                /\ (\E u \in TasksOf(h)' : u.name # None)
                     \/ (\E v \in DOMAIN gAliasRows : v[1] = h /\ gAliasRows[v].name # None)
                      => <<h, "named", 0>> \in DOMAIN gAliasRows
      BY <2>6, <3>1, <3>3
    <3>. QED
      BY <3>2, <3>4 DEF Traced, Some
  <2>10. ASSUME NEW y \in New(h)'
         PROVE  /\ Unremembered(h)'
                /\ y.event.key \in TaskKeys' \/
                     (y.event.src = "overview" /\ \A u \in TasksOf(h)' : u.src = "shotmap")
    <3>1. /\ Unremembered(h)
          /\ y.event.key \in TaskKeys \/
               (y.event.src = "overview" /\ \A u \in TasksOf(h) : u.src = "shotmap")
      BY <1>4, <2>1, <2>10 DEF Accounted
    <3>. QED
      BY <1>2, <1>5, <2>2, <2>3, <2>7, <3>1
  <2>11. (\A u, w \in TasksOf(h)' : u = w) /\ TasksOf(h)' # {}
    BY <2>3
  <2>. QED
    BY <2>7, <2>8, <2>9, <2>10, <2>11 DEF Accounted
<1>13. \A g \in Pair \ gTorn : Accounted(g)'
  <2>. HIDE DEF h
  <2>. QED  BY <1>11, <1>12
<1>. QED
  BY <1>3, <1>7, <1>9, <1>10, <1>13, HandlingOrderly

\* A task is added at the end.
LEMMA AppendIs ==
  ASSUME TasksPure, NEW e \in Sources!Event, gTasks' = Append(gTasks, e)
  PROVE  /\ gTasks' \in Seq(Sources!Event)
         /\ TaskSet' = TaskSet \cup {e} /\ TaskKeys' = TaskKeys \cup {e.key}
         /\ \E n : /\ DOMAIN gTasks' = DOMAIN gTasks \cup {n} /\ gTasks'[n] = e
                   /\ \A i \in DOMAIN gTasks : gTasks'[i] = gTasks[i]
<1>. DEFINE n == Len(gTasks) + 1
<1>1. gTasks \in Seq(Sources!Event)
  BY DEF TasksPure
<1>2. /\ gTasks' \in Seq(Sources!Event)
      /\ DOMAIN gTasks' = DOMAIN gTasks \cup {n} /\ gTasks'[n] = e
      /\ \A i \in DOMAIN gTasks : gTasks'[i] = gTasks[i]
  BY <1>1
<1>. HIDE DEF n
<1>3. TaskSet' = TaskSet \cup {e}
  BY <1>2 DEF TaskSet
<1>4. TaskKeys' = TaskKeys \cup {e.key}
  BY <1>3 DEF TaskKeys
<1>. QED
  BY <1>2, <1>3, <1>4

\* An event that becomes a task is the first of its goal.
LEMMA HandleAppend ==
  ASSUME SourcesInv, Orderly, NEW x, Handling(x), x.phase # 1,
         Sources!Selected(x.event) = {}, x.event.key \notin TaskKeys,
         gTasks' = Append(gTasks, x.event)
  PROVE  Orderly'
<1>. DEFINE e == x.event
            h == OwnerOf(e)
<1>1. TasksPure /\ ShotTasks /\ Backed(gTracker) /\ Backed(gAliasRows) /\ Displayed(gTracker)
  BY DEF Orderly
<1>2. /\ x \in gTodo /\ Pure(e) /\ x.phase \in 1..3 /\ (gNear => e.person # None)
      /\ x.phase # 2 => e.label = "overview" /\ e.key \in DOMAIN gTracker /\ e = gTracker[e.key]
      /\ x.phase = 2 => ~Listed(e.key) /\ e.src = "shotmap" /\ e.label = "shotmap"
  <2>1. x \in gTodo  BY DEF Handling
  <2>. QED  BY <2>1, TodoEvent
<1>3. /\ Promoted' \subseteq Promoted /\ \A g : New(g)' \subseteq New(g)
      /\ \A g : (x.phase = 3 /\ OwnerOf(x.event) = g) \/ New(g)' = New(g)
  BY HandlingShots
<1>4. x.phase # 2 => Listed(e.key)
  BY <1>1, <1>2 DEF Backed
<1>5. e \in Sources!Event /\ h \in Pair /\ e.src \in {"overview", "shotmap"} /\ e.key[1] = h
  BY <1>2, PureIs DEF OwnerOf
<1>6. e.src = "shotmap" =>
        /\ h \in gSnapshot /\ (\A s \in gPending : s[1] # h)
        /\ \A y \in Promoted' : OwnerOf(y.event) # h
  BY ShotReady
<1>7. x.phase = 2 => \A t \in TasksOf(h) : t.src # "shotmap"
  <2>1. ASSUME x.phase = 2, NEW t \in TasksOf(h), t.src = "shotmap" PROVE FALSE
    <3>1. x \in Promoted  BY <1>2, <2>1 DEF Promoted
    <3>2. t \in TaskSet /\ OwnerOf(t) = h  BY DEF TasksOf
    <3>. QED  BY <1>1, <2>1, <3>1, <3>2 DEF ShotTasks
  <2>. QED  BY <2>1
<1>8. /\ gTasks' \in Seq(Sources!Event)
      /\ TaskSet' = TaskSet \cup {e} /\ TaskKeys' = TaskKeys \cup {e.key}
      /\ \E n : /\ DOMAIN gTasks' = DOMAIN gTasks \cup {n} /\ gTasks'[n] = e
                /\ \A i \in DOMAIN gTasks : gTasks'[i] = gTasks[i]
  BY <1>1, <1>5, AppendIs
<1>9. PICK n : /\ DOMAIN gTasks' = DOMAIN gTasks \cup {n} /\ gTasks'[n] = e
               /\ \A i \in DOMAIN gTasks : gTasks'[i] = gTasks[i]
  BY <1>8
<1>10. e.key \notin TaskKeys /\ Sources!Selected(e) = {}
  OBVIOUS
<1>. HIDE DEF e
<1>11. TasksPure'
  <2>1. UNCHANGED <<gFeed, gFirst, gSuppressed>>
    BY DEF Handling
  <2>2. \A t \in TaskSet' : Pure(t)
    BY <1>1, <1>2, <1>8 DEF TasksPure
  <2>3. \A t \in TaskSet' : Listed(t.key) =>
          /\ t.label = "overview"
          /\ gFeed[OwnerOf(t)] \in {t.key[2], "named"} /\ gFirst[OwnerOf(t)] # "none"
    <3>1. Listed(e.key) =>
            /\ e.label = "overview"
            /\ gFeed[h] \in {e.key[2], "named"} /\ gFirst[h] # "none"
      BY <1>1, <1>2, <1>5 DEF Displayed
    <3>. QED
      BY <1>1, <1>8, <3>1 DEF TasksPure
  <2>4. \A i \in DOMAIN gTasks : gTasks[i].key # e.key
    BY <1>10 DEF TaskKeys, TaskSet
  <2>5. \A i, j \in DOMAIN gTasks' : gTasks'[i].key = gTasks'[j].key => i = j
    BY <1>1, <1>9, <2>4 DEF TasksPure
  <2>6. ASSUME ~Listed(e.key), NEW t \in TaskSet, ~Listed(t.key), OwnerOf(t) = h PROVE FALSE
    <3>1. t.src = "shotmap"
      BY <1>1, <2>6 DEF TasksPure, Pure
    <3>2. x.phase = 2
      BY <1>4, <2>6
    <3>. QED
      BY <1>7, <2>6, <3>1, <3>2 DEF TasksOf
  <2>7. \A t, u \in TaskSet' : ~Listed(t.key) /\ ~Listed(u.key) /\ OwnerOf(t) = OwnerOf(u) => t = u
    BY <1>1, <1>8, <2>6 DEF TasksPure
  <2>8. \A k \in gSuppressed : \E i, j \in DOMAIN gTasks' :
          i # j /\ gTasks'[i].key = k /\ OwnerOf(gTasks'[j]) = k[1]
    BY <1>1, <1>9 DEF TasksPure
  <2>9. gSuppressed \subseteq Sources!Keys
    BY <1>1 DEF TasksPure
  <2>. QED
    BY <1>8, <2>1, <2>2, <2>3, <2>5, <2>7, <2>8, <2>9 DEF TasksPure
<1>12. ShotTasks'
  <2>1. UNCHANGED <<gSnapshot, gPending>>
    BY DEF Handling
  <2>2. ASSUME NEW t \in TaskSet', t.src = "shotmap"
        PROVE  /\ OwnerOf(t) \in gSnapshot
               /\ \A s \in gPending : s[1] # OwnerOf(t)
               /\ \A y \in Promoted' : OwnerOf(y.event) # OwnerOf(t)
    <3>1. CASE t \in TaskSet
      BY <1>1, <1>3, <2>2, <3>1 DEF ShotTasks
    <3>2. CASE t = e
      BY <1>6, <2>2, <3>2
    <3>. QED
      BY <1>8, <2>2, <3>1, <3>2
  <2>. QED
    BY <2>1, <2>2 DEF ShotTasks
<1>13. ASSUME NEW tr, Backed(tr) PROVE Backed(tr)'
  <2>1. \A g : TasksOf(g) \subseteq TasksOf(g)'
    BY <1>8 DEF TasksOf
  <2>2. \A v \in DOMAIN tr :
          /\ ~Listed(v) => v \in TaskKeys'
          /\ tr[v].src = "shotmap" => \E t \in TasksOf(v[1])' : t.src = "shotmap"
    BY <1>8, <1>13, <2>1 DEF Backed
  <2>3. e.key \in DOMAIN tr => e.label = "overview"
    BY <1>2, <1>10, <1>13 DEF Backed
  <2>4. \A t \in TaskSet' : t.key \in DOMAIN tr /\ tr[t.key].label = "overview" =>
          t.label = "overview"
    BY <1>8, <1>13, <2>3 DEF Backed
  <2>. QED
    BY <2>2, <2>4 DEF Backed
<1>14. Backed(gTracker)' /\ Backed(gAliasRows)'
  BY <1>1, <1>13 DEF Handling
<1>15. gNear => \A t \in TaskSet' : t.person # None
  BY <1>2, <1>8 DEF Orderly, AllNamed
<1>16. ASSUME NEW g \in Pair \ gTorn, g # h PROVE Accounted(g)'
  <2>1. Accounted(g)
    BY DEF Orderly
  <2>2. New(g)' = New(g)
    BY <1>3, <1>16 DEF e
  <2>3. TasksOf(g)' = TasksOf(g)
    BY <1>8, <1>16 DEF TasksOf
  <2>4. TaskKeys \subseteq TaskKeys'
    BY <1>8
  <2>. QED
    BY <2>1, <2>2, <2>3, <2>4, KeptApart
<1>17. ASSUME h \in Pair \ gTorn PROVE Accounted(h)'
  <2>1. Accounted(h) /\ gUp
    BY <1>17 DEF Orderly, Handling
  <2>2. x.phase = 3 => /\ x \in New(h) /\ Unremembered(h)
                       /\ e.src = "overview" /\ \A t \in TasksOf(h) : t.src = "shotmap"
    <3>1. x.phase = 3 => x \in New(h)
      BY <1>2 DEF New, e
    <3>. QED
      BY <1>10, <2>1, <3>1 DEF Accounted, e
  <2>3. x.phase = 2 \/ x.phase = 3
    BY <1>2
  <2>4. TasksOf(h) = {}
    <3>1. SUFFICES ASSUME NEW t \in TasksOf(h) PROVE FALSE  OBVIOUS
    <3>2. t.src # e.src
      BY <1>2, <1>7, <2>2, <2>3
    <3>3. \A u \in TasksOf(h) : u = t
      BY <2>1 DEF Accounted
    <3>4. t \in TasksOf(OwnerOf(e)) /\ \A u \in TasksOf(OwnerOf(e)) : u = t
      BY <3>3
    <3>. HIDE DEF h
    <3>. QED
      BY <1>2, <1>10, <3>2, <3>4, SelectedSome
  <2>5. TasksOf(h)' = {e}
    BY <1>8, <2>4 DEF TasksOf
  <2>6. gUp' /\ (Unremembered(h)' <=> Unremembered(h)) /\ gFirst' = gFirst
    BY DEF Handling, Unremembered
  <2>7. OverviewOnly(h)
    BY <2>4 DEF OverviewOnly
  <2>8. ASSUME OverviewOnly(h)' PROVE x.phase = 3
    BY <1>2, <2>3, <2>5, <2>8 DEF OverviewOnly
  <2>9. Traced(h, gTracker, gSeen)'
    <3>1. Traced(h, gTracker, gSeen)
      BY <2>1 DEF Accounted
    <3>2. gTracker' = gTracker /\ Some(gSeen)' = Some(gSeen)  BY DEF Handling, Some
    <3>3. \A v \in DOMAIN gTracker : v[1] = h =>
            gTracker[v].key \in Some(gSeen) \cup (IF Listed(v) THEN {} ELSE TaskKeys')
      BY <1>8, <3>1 DEF Traced
    <3>4. \A t \in TasksOf(h)' : Listed(t.key) => t.key \in DOMAIN gTracker /\
            gTracker[t.key].key = t.key
      BY <1>2, <2>3, <2>5
    <3>5. \A v, w \in DOMAIN gTracker : v[1] = h /\ w[1] = h => gTracker[v].key = gTracker[w].key
      BY <2>7, <3>1 DEF Traced
    <3>6. ASSUME OverviewOnly(h)',
                 \/ \E t \in TasksOf(h)' : t.name # None
                 \/ \E v \in DOMAIN gTracker : v[1] = h /\ gTracker[v].name # None
          PROVE  <<h, "named", 0>> \in DOMAIN gTracker
      <4>1. e.key \in DOMAIN gTracker /\ e = gTracker[e.key] /\ e.key[1] = h
        BY <1>2, <1>5, <2>8, <3>6
      <4>2. \E v \in DOMAIN gTracker : v[1] = h /\ gTracker[v].name # None
        BY <2>5, <3>6, <4>1
      <4>. QED
        BY <2>7, <3>1, <4>2 DEF Traced
    <3>. QED
      BY <3>2, <3>3, <3>4, <3>5, <3>6 DEF Traced
  <2>10. ASSUME ~Unremembered(h) PROVE Traced(h, gAliasRows, gCursor)'
    <3>1. Traced(h, gAliasRows, gCursor)
      BY <2>1, <2>10 DEF Accounted
    <3>2. gAliasRows' = gAliasRows /\ Some(gCursor)' = Some(gCursor)  BY DEF Handling, Some
    <3>3. x.phase = 2
      BY <2>2, <2>3, <2>10
    <3>4. \A v \in DOMAIN gAliasRows : v[1] = h =>
            gAliasRows[v].key \in Some(gCursor) \cup (IF Listed(v) THEN {} ELSE TaskKeys')
      BY <1>8, <3>1 DEF Traced
    <3>5. \A t \in TasksOf(h)' : ~Listed(t.key)
      BY <1>2, <2>5, <3>3
    <3>6. ~OverviewOnly(h)'
      BY <2>8, <3>3
    <3>. QED
      BY <3>2, <3>4, <3>5, <3>6 DEF Traced
  <2>11. ASSUME NEW y \in New(h)'
         PROVE  /\ Unremembered(h)'
                /\ y.event.key \in TaskKeys' \/
                     (y.event.src = "overview" /\ \A t \in TasksOf(h)' : t.src = "shotmap")
    <3>1. x.phase = 2
      <4>1. SUFFICES ASSUME x.phase = 3 PROVE FALSE  BY <2>3
      <4>2. y \in gTodo /\ y # x /\ y.phase = 3 /\ OwnerOf(y.event) = OwnerOf(x.event)
        BY <2>11 DEF New, Handling, e
      <4>. QED
        BY <1>2, <4>1, <4>2 DEF Orderly, TodoOK
    <3>2. /\ Unremembered(h)
          /\ y.event.key \in TaskKeys \/ y.event.src = "overview"
      BY <1>3, <2>1, <2>11 DEF Accounted
    <3>. QED
      BY <1>2, <1>8, <2>5, <2>6, <3>1, <3>2
  <2>12. (\A t, u \in TasksOf(h)' : t = u) /\ TasksOf(h)' # {}
    BY <2>5
  <2>. QED
    BY <2>6, <2>9, <2>10, <2>11, <2>12 DEF Accounted
<1>18. \A g \in Pair \ gTorn : Accounted(g)'
  <2>. HIDE DEF h
  <2>. QED  BY <1>16, <1>17
<1>. QED
  BY <1>11, <1>12, <1>14, <1>15, <1>18, HandlingOrderly

\* What handling an event does to the tasks.
LEMMA HandleStep ==
  ASSUME SourcesInv, NEW x \in gTodo, Sources!Handle(x) PROVE SourcesInv'
<1>. DEFINE e == x.event
<1>1. Handling(x)
  BY HandlingIs
<1>2. /\ ShotsOnce' /\ Forgotten' /\ (Separable' => Orderly)
      /\ gNear' = gNear /\ gUp' = gUp /\ gPolled' = gPolled
  BY <1>1, HandlingShots DEF Handling
<1>3. SUFFICES ASSUME Orderly PROVE Orderly'
  BY <1>2 DEF SourcesInv
<1>4. /\ Pure(e) /\ x.phase \in 1..3 /\ (gNear => e.person # None)
      /\ x.phase # 2 => e.label = "overview" /\ e.key \in DOMAIN gTracker /\ e = gTracker[e.key]
      /\ x.phase = 2 => ~Listed(e.key) /\ e.src = "shotmap" /\ e.label = "shotmap"
  BY <1>3, TodoEvent
<1>5. \A t \in TaskSet : Pure(t) /\ (Listed(t.key) => t.label = "overview")
  BY <1>3 DEF Orderly, TasksPure
<1>6. IF x.phase = 1 THEN Sources!Revise(e) ELSE Sources!Discover(e)
  BY DEF Sources!Handle
<1>. HIDE DEF e
<1>7. ASSUME NEW t \in Sources!Selected(e), gTasks' = Sources!Update(t, Sources!CrossMerged(t, e))
      PROVE  Orderly'
  <2>. DEFINE m == Sources!CrossMerged(t, e)
  <2>1. t \in TaskSet /\ Pure(t) /\ t.src # e.src /\ OwnerOf(t) = OwnerOf(e)
    BY <1>3, <1>4, <1>7, SelectedIs
  <2>2. /\ Pure(m) /\ OwnerOf(m) = OwnerOf(t) /\ m.key = t.key /\ m.src = "shotmap"
        /\ e.src = "shotmap" => m.label = t.label
        /\ e.src # "shotmap" => m.label = e.label
        /\ m.person # None
    BY <1>4, <2>1, CrossMergedIs
  <2>. HIDE DEF m
  <2>3. Enriched(t, m)
    BY <1>4, <1>5, <2>1, <2>2 DEF Enriched
  <2>4. t.src = "shotmap" \/ e.src = "shotmap"
    BY <1>4, <2>1, PureIs
  <2>5. gTasks' = Sources!Update(t, m)
    BY <1>7 DEF m
  <2>. QED
    BY <1>1, <1>3, <2>1, <2>2, <2>3, <2>4, <2>5, HandleUpdate DEF e
<1>8. ASSUME NEW t \in TaskSet, t.key = e.key, x.phase = 1,
        gTasks' = Sources!Update(t, Sources!Merged(t, e))
      PROVE  Orderly'
  <2>. DEFINE m == Sources!Merged(t, e)
  <2>1. Pure(t) /\ OwnerOf(t) = OwnerOf(e)
    BY <1>5, <1>8 DEF OwnerOf
  <2>2. /\ Pure(m) /\ OwnerOf(m) = OwnerOf(t) /\ m.key = t.key /\ m.label = e.label
        /\ m.src = "shotmap" <=> (t.src = "shotmap" \/ e.src = "shotmap")
        /\ m.person # None <=> (t.person # None \/ e.person # None)
        /\ m.name # None <=> (t.name # None \/ e.name # None)
    BY <1>4, <2>1, MergedIs
  <2>. HIDE DEF m
  <2>3. e.label = "overview" /\ e.key \in DOMAIN gTracker /\ e = gTracker[e.key]
    BY <1>4, <1>8
  <2>4. Enriched(t, m)
    BY <2>2, <2>3 DEF Enriched
  <2>5. gTasks' = Sources!Update(t, m)
    BY <1>8 DEF m
  <2>. QED
    BY <1>1, <1>3, <2>1, <2>2, <2>3, <2>4, <2>5, HandleUpdate DEF e
<1>9. CASE x.phase = 1
  <2>. DEFINE own == {t \in Sources!ToSet(gTasks) : t.key = e.key /\ Sources!Merged(t, e) # t}
  <2>1. Sources!Revise(e)
    BY <1>6, <1>9
  <2>2. CASE own # {}
    <3>1. PICK t \in own : gTasks' = Sources!Update(t, Sources!Merged(t, e))
      BY <2>1, <2>2 DEF Sources!Revise
    <3>2. t \in TaskSet /\ t.key = e.key
      BY DEF Sources!ToSet, TaskSet
    <3>. QED
      BY <1>8, <1>9, <3>1, <3>2
  <2>3. CASE own = {}
    <3>1. Sources!IntoTask(e, Sources!Selected(e))
      BY <2>1, <2>3 DEF Sources!Revise
    <3>2. CASE gTasks' = gTasks
      BY <1>1, <1>3, <1>9, <3>2, HandleKeep
    <3>. QED
      BY <1>7, <3>1, <3>2 DEF Sources!IntoTask
  <2>. QED
    BY <2>2, <2>3
<1>10. CASE x.phase # 1
  <2>1. Sources!Discover(e) /\ Sources!TaskKeys = TaskKeys
    BY <1>6, <1>10 DEF Sources!TaskKeys, TaskKeys, TaskSet, Sources!ToSet
  <2>2. CASE Sources!Selected(e) = {} /\ e.key \notin TaskKeys
    <3>1. gTasks' = Append(gTasks, e)
      BY <2>1, <2>2 DEF Sources!Discover
    <3>. QED
      BY <1>1, <1>3, <1>10, <2>2, <3>1, HandleAppend DEF e
  <2>3. CASE ~(Sources!Selected(e) = {} /\ e.key \notin TaskKeys)
    <3>1. Sources!IntoTask(e, Sources!Selected(e))
      BY <2>1, <2>3 DEF Sources!Discover
    <3>2. CASE Sources!Selected(e) = {} /\ gTasks' = gTasks
      <4>1. PICK t \in TaskSet : t.key = e.key
        BY <2>3, <3>2 DEF TaskKeys
      <4>2. t \in TasksOf(OwnerOf(e))
        BY <4>1 DEF TasksOf, OwnerOf
      <4>. QED
        BY <1>1, <1>3, <3>2, <4>2, HandleKeep DEF e
    <3>. QED
      BY <1>7, <3>1, <3>2 DEF Sources!IntoTask
  <2>. QED
    BY <2>2, <2>3
<1>. QED
  BY <1>9, <1>10

\* Every step of the two feeds and of the process keeps the invariant.
LEMMA SourcesStep ==
  ASSUME SourcesInv, Sources!Next PROVE SourcesInv'
<1>1. CASE \E g \in Pair : Sources!FeedShows(g) \/ Sources!ShotShows(g)
  BY <1>1, FeedStep, ShotStep
<1>2. CASE Sources!Fetch
  BY <1>2, FetchStep
<1>3. CASE \E due \in BOOLEAN : Sources!Poll(due)
  BY <1>3, PollStep
<1>4. CASE \E x \in gTodo : Sources!Handle(x)
  BY <1>4, HandleStep
<1>5. CASE Sources!Remember
  BY <1>5, RememberStep
<1>6. CASE Sources!Crash
  BY <1>6, CrashStep
<1>7. CASE Sources!Start
  BY <1>7, StartStep
<1>. QED
  BY <1>1, <1>2, <1>3, <1>4, <1>5, <1>6, <1>7 DEF Sources!Next

\* The steps of the other stages do not touch it.
LEMMA SourcesStutter ==
  ASSUME SourcesInv, UNCHANGED gVars PROVE SourcesInv'
<1>1. /\ TaskSet' = TaskSet /\ TaskKeys' = TaskKeys /\ Promoted' = Promoted
      /\ \A g : TasksOf(g)' = TasksOf(g) /\ New(g)' = New(g)
      /\ \A tr : Backed(tr)' <=> Backed(tr)
      /\ \A g, tr, keys : Traced(g, tr, keys)' <=> Traced(g, tr, keys)
  BY TasksFrame, TodoFrame DEF gVars
<1>2. ShotsOnce' /\ Forgotten' /\ (Separable' => Separable)
  BY <1>1 DEF SourcesInv, ShotsOnce, Forgotten, Separable, gVars
<1>3. ASSUME Orderly PROVE Orderly'
  <2>1. TasksPure' /\ ShotTasks' /\ TodoOK'
    BY <1>1, <1>3 DEF Orderly, TasksPure, ShotTasks, TodoOK, gVars
  <2>2. Watched' /\ Displayed(gTracker)' /\ Displayed(gAliasRows)'
    BY <1>3 DEF Orderly, Watched, Displayed, Some, gVars
  <2>3. AllNamed'
    BY <1>1, <1>3 DEF Orderly, AllNamed, Named, Some, gVars
  <2>4. /\ Tracker(gTracker)' /\ Backed(gTracker)' /\ Tracker(gAliasRows)' /\ Backed(gAliasRows)'
    BY <1>1, <1>3 DEF Orderly, gVars
  <2>5. ASSUME NEW g \in Pair \ gTorn PROVE Accounted(g)'
    <3>1. Accounted(g)
      BY <1>3 DEF Orderly
    <3>2. Unremembered(g)' <=> Unremembered(g)
      BY DEF Unremembered, gVars
    <3>3. /\ Traced(g, gTracker, gSeen)' <=> Traced(g, gTracker, gSeen)
          /\ Traced(g, gAliasRows, gCursor)' <=> Traced(g, gAliasRows, gCursor)
      BY <1>1 DEF gVars
    <3>. QED
      BY <1>1, <3>1, <3>2, <3>3 DEF Accounted, Some, gVars
  <2>. QED
    BY <2>1, <2>2, <2>3, <2>4, <2>5 DEF Orderly, gVars
<1>. QED
  BY <1>2, <1>3 DEF SourcesInv, gVars
=============================================================================
