---------------------------- MODULE VideoCoverage ----------------------------
(***************************************************************************)
(* analyze_video_coverage: may the requested interval be cut from the      *)
(* segments in the buffer, is it worth waiting, or is it lost?  The        *)
(* decision is a function of the segments; the buffer around it grows at   *)
(* its live edge, with gaps, and is pruned at its old end, while the same  *)
(* request is asked again and again.                                       *)
(*                                                                         *)
(* Times are quarters of a second.                                         *)
(***************************************************************************)
EXTENDS Integers, FiniteSets, FiniteSetsExt

CONSTANTS LiveEdge,    \* the last quarter the stream reaches (bound)
          Lengths,     \* lengths of a segment
          Silences,    \* silences of the stream between two segments
          Requests,    \* [from, to, anchor] asked for
          MinDegraded, MaxAnchorGap, MaxAnchorShift

GapTolerance == 2
EdgeTolerance == 1

\* What the code is called with; a window is longer than the tolerance at its two edges.
CoverageAssumption ==
    /\ LiveEdge \in Nat /\ Lengths \subseteq Nat \ {0} /\ Silences \subseteq Nat
    /\ MinDegraded \in Nat /\ MinDegraded > EdgeTolerance
    /\ \A r \in Requests :
          /\ {r.from, r.to, r.anchor} \subseteq Nat
          /\ r.from <= r.anchor /\ r.anchor <= r.to
          /\ r.from + 2 * EdgeTolerance < r.to

VARIABLES segments,    \* [start, end] of every segment whose file exists
          edge,        \* where the stream is
          request      \* window, anchor and the options of the caller

vars == <<segments, edge, request>>

Options == {o \in [allow : BOOLEAN, force : BOOLEAN, stitch : BOOLEAN, adjust : BOOLEAN] :
              o.force => o.allow}

LatestEnd(S) == Max({s.end : s \in S})
Distance(i, j) == IF i > j THEN i - j ELSE j - i
Later(i, j) == Max({i, j})
Earlier(i, j) == Min({i, j})

(***************************************************************************)
(* Components: runs of segments without a silence above the tolerance.     *)
(***************************************************************************)

Selected(S, r) == {s \in S : s.end > r.from /\ s.start < r.to}

\* A component starts where every earlier segment ended long before.
Heads(sel) ==
    {h \in {s.start : s \in sel} :
       \A s \in sel : s.start < h => h - s.end > GapTolerance}

Component(sel, h) ==
    LET members == {s \in sel : s.start >= h /\ \A g \in Heads(sel) : g > h => s.start < g}
    IN [start |-> h, end |-> LatestEnd(members)]

Components(sel) == {Component(sel, h) : h \in Heads(sel)}
First(C) == CHOOSE c \in C : \A d \in C : c.start <= d.start
Last(C) == CHOOSE c \in C : \A d \in C : d.start <= c.start

\* The silence before each component but the first.
Gaps(C) == {[start |-> Max({d.end : d \in {e \in C : e.start < c.start}}), end |-> c.start] :
              c \in C \ {First(C)}}

AnchorGap(C, r) == {g \in Gaps(C) : g.start < r.anchor /\ r.anchor < g.end}

\* The component of the anchor, if the anchor is not in a gap.
AnchorHome(C, r) ==
    IF AnchorGap(C, r) # {} THEN {}
    ELSE {c \in C : c.start - EdgeTolerance <= r.anchor /\ r.anchor <= c.end + EdgeTolerance}

Decision(status, from, to, adjusted) ==
    [status |-> status, from |-> from, to |-> to, adjusted |-> adjusted]
Waiting == Decision("waiting", 0, 0, FALSE)
Unavailable == Decision("unavailable", 0, 0, FALSE)
TooShort == Decision("short", 0, 0, FALSE)

TailMissing(S, r) == LatestEnd(S) < r.to - EdgeTolerance

(***************************************************************************)
(* Stitching: all components make the clip, gaps are skipped; an anchor in *)
(* a gap may move to the gap's nearer side.                                *)
(***************************************************************************)
Footage(C, r) ==
    Cardinality({q \in r.from..(r.to - 1) : \E c \in C : c.start <= q /\ q < c.end})

\* Where an anchor without a component goes: nowhere, or to a side of its gap.
AnchorMoves(C, r) ==
    \E g \in AnchorGap(C, r) :
       /\ r.adjust
       /\ g.end - g.start <= MaxAnchorGap
       /\ Earlier(Distance(g.start, r.anchor), Distance(g.end, r.anchor)) <= MaxAnchorShift

\* The length is judged before the tail has come.
StitchedEarly(S, C, r) ==
    IF Footage(C, r) < MinDegraded THEN Unavailable
    ELSE IF TailMissing(S, r) /\ ~r.force THEN Waiting
    ELSE Decision("degraded", r.from, r.to, AnchorHome(C, r) = {})

Stitched(S, C, r) ==
    LET start == First(C).start
        end == Last(C).end
        coversStart == start <= r.from + EdgeTolerance
        coversEnd == end >= r.to - EdgeTolerance
        homeless == AnchorHome(C, r) = {}
    IN IF ~coversEnd /\ TailMissing(S, r) /\ ~r.force THEN Waiting
       ELSE IF homeless /\ LatestEnd(S) < r.anchor - EdgeTolerance THEN Waiting
       ELSE IF homeless /\ ~AnchorMoves(C, r) THEN Unavailable
       ELSE IF Footage(C, r) < MinDegraded THEN TooShort
       ELSE Decision(IF Gaps(C) = {} /\ coversStart /\ coversEnd /\ ~homeless
                     THEN "full" ELSE "degraded",
                     Later(r.from, start), Earlier(r.to, end), homeless)

(***************************************************************************)
(* Without stitching only the component of the anchor makes the clip.      *)
(***************************************************************************)
Degraded(home, r) ==
    LET from == Later(r.from, home.start)
        to == Earlier(r.to, home.end)
    IN IF to - from < MinDegraded THEN TooShort
       ELSE Decision("degraded", from, to, FALSE)

Continuous(S, C, r) ==
    IF AnchorHome(C, r) = {}
    THEN IF LatestEnd(S) < r.anchor - EdgeTolerance THEN Waiting ELSE Unavailable
    ELSE LET home == First(AnchorHome(C, r))
             coversStart == home.start <= r.from + EdgeTolerance
             coversEnd == home.end >= r.to - EdgeTolerance
             isLast == home = Last(C)
         IN IF coversStart /\ coversEnd THEN Decision("full", r.from, r.to, FALSE)
            ELSE IF ~r.allow /\ (~coversStart \/ ~isLast) THEN Unavailable
            ELSE IF r.force THEN Degraded(home, r)
            ELSE IF ~coversEnd /\ isLast /\ TailMissing(S, r) THEN Waiting
            ELSE IF r.allow THEN Degraded(home, r)
            ELSE Unavailable

Coverage(S, r) ==
    LET C == Components(Selected(S, r))
    IN IF C = {} THEN IF S = {} \/ TailMissing(S, r) THEN Waiting ELSE Unavailable
       ELSE IF r.stitch /\ r.allow THEN Stitched(S, C, r)
       ELSE Continuous(S, C, r)

(***************************************************************************)
(* The buffer.                                                             *)
(***************************************************************************)

\* FFmpeg closes a segment at the live edge, after a silence if it reconnected.
Closes(length, silence) ==
    /\ edge + silence + length <= LiveEdge
    /\ edge' = edge + silence + length
    /\ segments' = segments \cup {[start |-> edge + silence, end |-> edge']}
    /\ UNCHANGED request

\* prune_buffer takes the oldest segment.
Pruned ==
    /\ segments # {}
    /\ segments' = segments \ {First(segments)}
    /\ UNCHANGED <<edge, request>>

Init ==
    /\ segments = {}
    /\ edge = 0
    /\ \E r \in Requests, o \in Options :
         request = [from |-> r.from, to |-> r.to, anchor |-> r.anchor,
                    allow |-> o.allow, force |-> o.force,
                    stitch |-> o.stitch, adjust |-> o.adjust]

Next == (\E l \in Lengths, b \in Silences : Closes(l, b)) \/ Pruned

Spec == Init /\ [][Next]_vars
------------------------------------------------------------------------------
Now == Coverage(segments, request)

\* Quarter q..q+1 is on a segment, or in a silence short enough to be ignored.
Shown(q) ==
    \/ \E s \in segments : s.start <= q /\ q < s.end
    \/ \E s, t \in segments : s.end <= q /\ q < t.start /\ t.start - s.end <= GapTolerance

(***************************************************************************)
(* What is lost stays lost: no further segment makes an unavailable        *)
(* interval usable or worth waiting for, so a task may settle on the first *)
(* such answer ("cannot be repaired by waiting").  A clip that is too      *)
(* short may still grow by the tolerance at the tail.                      *)
(***************************************************************************)
Lost(S) == Coverage(S, request).status \in {"unavailable", "short"}
StaysLost ==
    /\ ~request.force
    /\ edge' > edge
    /\ \/ Now.status = "unavailable"
       \/ Now.status = "short" /\ LatestEnd(segments) >= request.to
    => Lost(segments')

(***************************************************************************)
(* A caller that waits waits for the tail alone: once the stream has shown *)
(* the end of the window, the answer is not "waiting" while anything is    *)
(* buffered; and a clip that is ready shows every quarter it claims, at    *)
(* its anchor too unless that was moved, across gaps only when stitched.   *)
(***************************************************************************)
AnswerIsTrue ==
    LET d == Now IN
    /\ d.status = "waiting" => segments = {} \/ LatestEnd(segments) < request.to - EdgeTolerance
    /\ d.status = "full" =>
         \A q \in (request.from + EdgeTolerance)..(request.to - EdgeTolerance - 1) : Shown(q)
    /\ d.status = "degraded" /\ ~request.stitch => \A q \in d.from..(d.to - 1) : Shown(q)
    /\ d.status \in {"full", "degraded"} =>
         \/ d.adjusted
         \/ \E q \in (request.anchor - EdgeTolerance - 1)..(request.anchor + EdgeTolerance) : Shown(q)
==============================================================================
