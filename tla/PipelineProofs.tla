---------------------------- MODULE PipelineProofs ----------------------------
(***************************************************************************)
(* Proofs about the stages MCPipeline checks, for every value of their     *)
(* constants: the visual tasks, the encodings of the events of a match,    *)
(* the deletion of segments, and with GoalStagesProofs the goals of the two*)
(* feeds and the answer about a window's video.                            *)
(***************************************************************************)
EXTENDS MCPipeline, GoalStagesProofs

-------------------------------------------------------------------------------
(* The visual tasks, for any events, any number of revisions of their targets and  *)
(* any number of restarts of the Worker.                                           *)
Rows == [Events -> [Artifacts -> Row]]
Threads == [Events -> [Artifacts -> Thread]]

\* A row that a match end fenced is a failed one.
FenceClosed == \A e \in Events, a \in Artifacts : row[e][a].fenced => row[e][a].status = "failed"

\* A revision is counted for a second that arrived, and never twice.
RevisionsCounted ==
  \A e \in Events :
    /\ job[e].rev <= job[e].second /\ job[e].second <= second[e]
    /\ \A a \in Artifacts : row[e][a].rev <= second[e] /\ worker[e][a].rev <= second[e]

\* What a thread at its place may find in its row: it leaves a row that it made
\* "locating" or "encoding" only after it wrote an outcome, and it tells such a row
\* from one of another target.
Handled(a, r, w) ==
  /\ w.pc \in {"none", "queued", "entered", "done", "search", "start", "output", "encode"} =>
       r.status \notin {"locating", "encoding"}
  /\ w.pc \in {"queued", "entered"} => r.status # "encoded"
  /\ a = Ocr =>
       /\ w.pc \in {"locating", "encoding"} /\ r.status \in {"locating", "encoding"} =>
            r.rev = w.rev
       /\ w.pc = "encode" /\ r.status = "located" => r.rev = w.rev
AllHandled ==
  phase # "down" =>
    \A e \in Events, a \in Artifacts : Handled(a, row[e][a], worker[e][a])

\* What a process that is down has forgotten.
DownForgets ==
  phase = "down" =>
    \A e \in Events : /\ job[e] = NoJob /\ owed[e] = {}
                      /\ \A a \in Artifacts : worker[e][a] = Idle

\* The resets of one scheduler pass.
OwedOK ==
  \A e \in Events :
    /\ owed[e] \in (IF refining THEN {{}, {Tdeed}, Artifacts} ELSE {{}, {Ocr}})
    /\ owed[e] # {} => job[e].known /\ job[e].second = second[e]

\* The revision of the OCR row is at most one ahead of what a restart may seed the
\* job with, and never ahead of a job whose resets are under way.
AgreesOn(e) ==
  /\ row[e][Tdeed].status \in Incomplete => row[e][Ocr].rev <= row[e][Tdeed].rev + 1
  /\ phase # "down" =>
       /\ ~job[e].known => row[e][Ocr].status = "absent" /\ job[e].rev = 0
       /\ worker[e][Ocr].rev <= job[e].rev
       /\ job[e].known => row[e][Ocr].rev <= job[e].rev + 1
       /\ Ocr \in owed[e] => row[e][Ocr].rev <= job[e].rev
       /\ ~refining => row[e][Tdeed].status \notin Incomplete
       /\ row[e][Tdeed].status \in Incomplete =>
            /\ job[e].rev <= row[e][Tdeed].rev + 1
            /\ owed[e] = {} => job[e].rev <= row[e][Tdeed].rev
RevisionsAgree == \A e \in Events : AgreesOn(e)

VisionInv ==
  /\ TypeOK /\ FenceClosed /\ RevisionsCounted /\ AllHandled /\ DownForgets
  /\ OwedOK /\ RevisionsAgree

------------------------------------------------------------------------------
\* The two artifacts are two.
LEMMA TwoArtifacts == Ocr # Tdeed /\ Artifacts = {Ocr, Tdeed}
BY DEF Ocr, Tdeed, Artifacts

\* What a thread (e, a) of the pool that found r0 and w0 may leave behind.
Leaves(e, a, r0, w0, r, w) ==
  /\ r \in Row /\ w \in Thread
  /\ r.fenced = r0.fenced
  /\ r0.fenced => r.status = r0.status
  /\ r0.status = "encoded" => r.status = "encoded"
  /\ r0.status = "absent" => r = r0
  /\ w.rev \in {w0.rev, job[e].rev}
  /\ a = Ocr => r.rev \in {r0.rev, w0.rev, job[e].rev}
  /\ a = Tdeed => r.rev = r0.rev /\ (r.status \in Incomplete => r0.status \in Incomplete)
  /\ Handled(a, r, w)

\* It writes its own row and its own place only.
Own(e, a, r, w) ==
  /\ row' = [row EXCEPT ![e][a] = r]
  /\ worker' = [worker EXCEPT ![e][a] = w]
  /\ MainUnchanged

\* A thread's step as a pair of writes.
ThreadWrites(e, a) ==
  \E r \in Row, w \in Thread : Own(e, a, r, w) /\ Leaves(e, a, row[e][a], worker[e][a], r, w)

\* A row that is not written is written with itself.
LEMMA Rewrite ==
  ASSUME row \in Rows, NEW e \in Events, NEW a \in Artifacts, UNCHANGED row
  PROVE  row' = [row EXCEPT ![e][a] = row[e][a]]
BY DEF Rows

\* How a thread's step is proved to be one: name what it writes.
LEMMA Names ==
  ASSUME VisionInv, NEW e \in Events, NEW a \in Artifacts, NEW r, NEW w,
         \/ SetRow(e, a, r)
         \/ UNCHANGED row /\ r = row[e][a],
         SetWorker(e, a, w), MainUnchanged,
         Leaves(e, a, row[e][a], worker[e][a], r, w)
  PROVE  ThreadWrites(e, a)
<1>1. r \in Row /\ w \in Thread
  BY DEF Leaves
<1>2. row' = [row EXCEPT ![e][a] = r]
  BY Rewrite DEF SetRow, VisionInv, TypeOK, Rows
<1>. QED
  BY <1>1, <1>2 DEF ThreadWrites, Own, SetWorker

\* The facts about a thread's row and place that every step of it needs.
LEMMA Here ==
  ASSUME VisionInv, NEW e \in Events, NEW a \in Artifacts
  PROVE  /\ row[e][a] \in Row /\ worker[e][a] \in Thread
         /\ job[e].rev \in Targets /\ job[e].second \in Targets
         /\ row[e][a].fenced => row[e][a].status = "failed"
         /\ phase # "down" => Handled(a, row[e][a], worker[e][a])
BY DEF VisionInv, TypeOK, FenceClosed, AllHandled

\* A place that moves along keeps its type and its revision.
LEMMA Moved ==
  ASSUME NEW w \in Thread, NEW pc \in {"done", "broken", "refused", "escaped", "fallback",
           "missed", "entered", "queued"} \cup Stages
  PROVE  [w EXCEPT !.pc = pc] \in Thread
BY DEF Thread

\* A step that only moves its thread, to where the row does not matter.
Anywhere == {"broken", "refused", "escaped", "fallback", "missed", "save", "publish"}
LEMMA MovesTo ==
  ASSUME VisionInv, NEW e \in Events, NEW a \in Artifacts,
         NEW pc \in Anywhere \cup {"done", "start", "encode", "entered"},
         UNCHANGED row, Goto(e, a, pc), MainUnchanged,
         pc \in Anywhere \/ Handled(a, row[e][a], [worker[e][a] EXCEPT !.pc = pc])
  PROVE  ThreadWrites(e, a)
<1>. DEFINE w == [worker[e][a] EXCEPT !.pc = pc]
<1>1. row[e][a] \in Row /\ worker[e][a] \in Thread
  BY Here
<1>2. w \in Thread /\ w.rev = worker[e][a].rev /\ w.pc = pc
  BY <1>1, Moved DEF Thread, Anywhere, Stages
<1>3. Handled(a, row[e][a], w)
  BY <1>2 DEF Handled, Anywhere
<1>4. Leaves(e, a, row[e][a], worker[e][a], row[e][a], w)
  BY <1>1, <1>2, <1>3 DEF Leaves
<1>. QED
  BY <1>4, Names DEF Goto

\* A step that writes a row and moves its thread.
LEMMA WritesTo ==
  ASSUME VisionInv, NEW e \in Events, NEW a \in Artifacts, NEW r \in Row,
         NEW pc \in Anywhere \cup Stages \cup {"done"},
         SetRow(e, a, r), Goto(e, a, pc), MainUnchanged,
         ~row[e][a].fenced /\ ~r.fenced,
         row[e][a].status \notin {"absent", "encoded"},
         r.rev = row[e][a].rev \/ (a = Ocr /\ r.rev \in {worker[e][a].rev, job[e].rev}),
         row[e][a].status \in Incomplete,
         Handled(a, r, [worker[e][a] EXCEPT !.pc = pc])
  PROVE  ThreadWrites(e, a)
<1>. DEFINE w == [worker[e][a] EXCEPT !.pc = pc]
<1>1. row[e][a] \in Row /\ worker[e][a] \in Thread
  BY Here
<1>2. pc \in {"done", "broken", "refused", "escaped", "fallback", "missed"} \cup Stages
  BY DEF Anywhere, Stages
<1>3. w \in Thread
  BY <1>1, <1>2, Moved
<1>4. w.rev = worker[e][a].rev
  BY <1>1 DEF Thread
<1>5. r.fenced = row[e][a].fenced
  BY <1>1 DEF Row
<1>6. Handled(a, r, w)
  OBVIOUS
<1>7. Leaves(e, a, row[e][a], worker[e][a], r, w)
  BY <1>3, <1>4, <1>5, <1>6, TwoArtifacts DEF Leaves
<1>. QED
  BY <1>7, Names DEF Goto

\* A transition that the table allows comes from an open row that is not fenced.
LEMMA AllowsOpen ==
  ASSUME NEW r \in Row, NEW status \in {"locating", "located", "encoding", "encoded"},
         Allows(r, status)
  PROVE  /\ ~r.fenced /\ r.status \in Incomplete /\ r.status \notin {"absent", "encoded"}
         /\ status = "locating" => r.status = "pending"
         /\ status = "encoding" => r.status = "located"
         /\ status = "encoded" => r.status = "encoding"
BY DEF Allows, AllowedTransitions, Row, Incomplete, Settled

\* Transit either writes the row or leaves a broken thread.
LEMMA TransitWrites ==
  ASSUME VisionInv, NEW e \in Events, NEW a \in Artifacts, NEW r \in Row,
         NEW status \in {"locating", "located", "encoding", "encoded"},
         NEW next \in Stages \cup {"done"}, Transit(e, a, status, r, next),
         r.fenced = row[e][a].fenced,
         r.rev = row[e][a].rev \/ (a = Ocr /\ r.rev = worker[e][a].rev),
         Allows(row[e][a], status) =>
           Handled(a, At(r, status), [worker[e][a] EXCEPT !.pc = next])
  PROVE  ThreadWrites(e, a)
<1>1. row[e][a] \in Row /\ MainUnchanged
  BY Here DEF Transit
<1>2. CASE Allows(row[e][a], status)
  <2>1. At(r, status) \in Row /\ At(r, status).rev = r.rev /\ At(r, status).fenced = r.fenced
    BY DEF At, Row, Incomplete, Settled
  <2>. QED
    BY <1>1, <1>2, <2>1, AllowsOpen, WritesTo DEF Transit
<1>3. CASE ~Allows(row[e][a], status)
  BY <1>1, <1>3, MovesTo DEF Transit, Anywhere
<1>. QED
  BY <1>2, <1>3

\* What an action of the OCR thread writes.
LEMMA OcrThreadWrites ==
  ASSUME VisionInv, NEW e \in Events, OcrThread(e)
  PROVE  ThreadWrites(e, Ocr)
<1>. DEFINE r0 == row[e][Ocr]
            w0 == worker[e][Ocr]
            Wrote(r, w) == Leaves(e, Ocr, r0, w0, r, w)
<1>1. Ocr \in Artifacts /\ Ocr # Tdeed
  BY TwoArtifacts
<1>2. /\ r0 \in Row /\ w0 \in Thread
      /\ job[e].rev \in Targets /\ job[e].second \in Targets
      /\ r0.fenced => r0.status = "failed"
      /\ phase # "down" => Handled(Ocr, r0, w0)
  BY <1>1, Here
<1>3. CASE BeginOcr(e)
  <2>. DEFINE r == Ensured(r0, job[e].rev)
              pc == IF r.status \in Settled \cup {"absent"} \/ ~r.due THEN "done"
                    ELSE IF r.status = "located" THEN "output" ELSE "search"
              w == [w0 EXCEPT !.pc = pc,
                              !.target = IF r.status = "located" THEN r.made ELSE Unmade]
  <2>1. SetRow(e, Ocr, r) /\ SetWorker(e, Ocr, w) /\ MainUnchanged
    BY <1>3 DEF BeginOcr
  <2>2. phase # "down" /\ w0.pc = "entered"
    BY <1>3 DEF BeginOcr, Runs
  <2>3. r0.status \notin {"locating", "encoding", "encoded"}
    BY <1>2, <2>2 DEF Handled
  <2>4. /\ r \in Row /\ r.fenced = r0.fenced /\ (r0.fenced => r.status = r0.status)
        /\ r0.status = "absent" => r = r0
        /\ r.rev \in {r0.rev, job[e].rev}
        /\ r.status \notin {"locating", "encoding", "encoded"}
    BY <1>2, <2>3 DEF Ensured, Allows, Row, Incomplete
  <2>5. w \in Thread /\ w.rev = w0.rev /\ w.pc \in {"done", "output", "search"}
    BY <1>2, <2>4 DEF Thread, Stages, Row
  <2>6. Wrote(r, w)
    BY <1>1, <2>3, <2>4, <2>5 DEF Leaves, Handled
  <2>. QED
    BY <1>1, <2>1, <2>6, Names
<1>4. CASE WaitForTarget(e)
  <2>1. phase # "down" /\ w0.pc = "search" /\ MainUnchanged
    BY <1>4 DEF WaitForTarget, Runs
  <2>2. CASE MayWait(r0)
    <3>. DEFINE r == [Waiting(r0) EXCEPT !.rev = job[e].rev]
    <3>1. SetRow(e, Ocr, r) /\ Goto(e, Ocr, "done")
      BY <1>4, <2>2 DEF WaitForTarget
    <3>2. r \in Row /\ r.rev = job[e].rev /\ r.fenced = r0.fenced /\ r.status = r0.status
      BY <1>2 DEF Waiting, Row
    <3>3. r0.status \in {"pending", "located"}
      BY <2>2 DEF MayWait
    <3>4. Handled(Ocr, r, [w0 EXCEPT !.pc = "done"])
      BY <1>2, <3>2, <3>3 DEF Handled, Thread
    <3>. QED
      BY <1>1, <1>2, <2>1, <3>1, <3>2, <3>3, <3>4, WritesTo DEF Incomplete
  <2>3. CASE ~MayWait(r0)
    BY <1>1, <1>4, <2>1, <2>3, MovesTo DEF WaitForTarget, Anywhere
  <2>. QED
    BY <2>2, <2>3
<1>5. CASE OcrLocates(e)
  <2>1. /\ phase # "down" /\ w0.pc = "locating" /\ MainUnchanged /\ UNCHANGED row
    BY <1>5 DEF OcrLocates, Runs
  <2>2. CASE Stale(e, Ocr)
    <3>1. r0.status \notin {"locating", "encoding"}
      BY <1>2, <2>1, <2>2 DEF Handled, Stale
    <3>2. Handled(Ocr, r0, [w0 EXCEPT !.pc = "done"])
      BY <1>2, <3>1 DEF Handled, Thread
    <3>. QED
      BY <1>1, <1>5, <2>1, <2>2, <3>2, MovesTo DEF OcrLocates
  <2>3. CASE ~Stale(e, Ocr)
    <3>1. PICK target \in {job[e].second, w0.rev} :
            SetWorker(e, Ocr, [w0 EXCEPT !.pc = "save", !.target = target])
      BY <1>5, <2>3 DEF OcrLocates
    <3>. DEFINE w == [w0 EXCEPT !.pc = "save", !.target = target]
    <3>2. w \in Thread /\ w.rev = w0.rev /\ w.pc = "save"
      BY <1>2 DEF Thread, Stages
    <3>3. Wrote(r0, w)
      BY <1>1, <1>2, <3>2 DEF Leaves, Handled
    <3>. QED
      BY <1>1, <2>1, <3>1, <3>3, Names
  <2>. QED
    BY <2>2, <2>3
<1>6. CASE WaitAfterScan(e)
  <2>. DEFINE r1 == IF r0.status = "locating" THEN At(r0, "pending") ELSE r0
              goes == MayWait(r1) /\ (r0.status = "locating" => Allows(r0, "pending"))
  <2>1. phase # "down" /\ w0.pc = "missed" /\ MainUnchanged
    BY <1>6 DEF WaitAfterScan, Runs
  <2>2. CASE goes
    <3>. DEFINE r == [Waiting(r1) EXCEPT !.rev = job[e].rev]
    <3>1. SetRow(e, Ocr, r) /\ Goto(e, Ocr, "done")
      BY <1>6, <2>2 DEF WaitAfterScan
    <3>2. r0.status \in {"locating", "pending", "located"} /\ r1.status \in {"pending", "located"}
      BY <2>2 DEF MayWait
    <3>3. r \in Row /\ r.rev = job[e].rev /\ r.fenced = r0.fenced /\ r.status = r1.status
      BY <1>2, <3>2 DEF Waiting, At, Row, Incomplete
    <3>4. Handled(Ocr, r, [w0 EXCEPT !.pc = "done"])
      BY <1>2, <3>2, <3>3 DEF Handled, Thread
    <3>. QED
      BY <1>1, <1>2, <2>1, <3>1, <3>2, <3>3, <3>4, WritesTo DEF Incomplete
  <2>3. CASE ~goes
    BY <1>1, <1>6, <2>1, <2>3, MovesTo DEF WaitAfterScan, Anywhere
  <2>. QED
    BY <2>2, <2>3
<1>7. CASE StartRangeFallback(e)
  <2>. DEFINE r == [At(r0, "encoding") EXCEPT !.made = ApiRange]
  <2>1. /\ SetRow(e, Ocr, r) /\ Goto(e, Ocr, "fallback") /\ MainUnchanged
        /\ r0.status \in {"pending", "locating"}
    BY <1>7 DEF StartRangeFallback
  <2>2. r \in Row /\ r.rev = r0.rev /\ r.fenced = r0.fenced
    BY <1>2 DEF At, Row, Incomplete
  <2>3. Handled(Ocr, r, [w0 EXCEPT !.pc = "fallback"])
    BY <1>2 DEF Handled, Thread
  <2>. QED
    BY <1>1, <1>2, <2>1, <2>2, <2>3, WritesTo DEF Incomplete, Anywhere
<1>8. CASE EndRangeFallback(e)
  <2>1. CASE Transit(e, Ocr, "encoded", r0, "done")
    <3>1. Handled(Ocr, At(r0, "encoded"), [w0 EXCEPT !.pc = "done"])
      BY <1>2 DEF Handled, Thread, At, Row
    <3>. QED
      BY <1>1, <1>2, <2>1, <3>1, TransitWrites
  <2>2. CASE Goto(e, Ocr, "broken") /\ UNCHANGED row /\ MainUnchanged
    BY <1>1, <2>2, MovesTo DEF Anywhere
  <2>. QED
    BY <1>8, <2>1, <2>2 DEF EndRangeFallback
<1>. QED
  BY <1>3, <1>4, <1>5, <1>6, <1>7, <1>8 DEF OcrThread

\* What an action of the T-DEED thread writes.
LEMMA TdeedThreadWrites ==
  ASSUME VisionInv, NEW e \in Events, TdeedThread(e)
  PROVE  ThreadWrites(e, Tdeed)
<1>. DEFINE r0 == row[e][Tdeed]
            w0 == worker[e][Tdeed]
<1>1. Tdeed \in Artifacts /\ Ocr \in Artifacts /\ Ocr # Tdeed
  BY TwoArtifacts
<1>2. /\ r0 \in Row /\ w0 \in Thread
      /\ r0.fenced => r0.status = "failed"
      /\ phase # "down" => Handled(Tdeed, r0, w0)
  BY <1>1, Here
<1>3. CASE BeginTdeed(e)
  <2>. DEFINE ocr == row[e][Ocr]
              pc == IF r0.status \in Settled \cup {"absent"} \/ ~r0.due \/ ocr.status \notin Settled
                    THEN "done" ELSE IF r0.status = "located" THEN "output" ELSE "search"
              target == IF r0.status = "located" THEN r0.made
                        ELSE IF ocr.status = "encoded" THEN ocr.made ELSE ApiRange
              w == [w0 EXCEPT !.pc = pc, !.target = target]
  <2>1. SetWorker(e, Tdeed, w) /\ UNCHANGED row /\ MainUnchanged
    BY <1>3 DEF BeginTdeed
  <2>2. phase # "down" /\ w0.pc = "entered"
    BY <1>3 DEF BeginTdeed, Runs
  <2>3. r0.status \notin {"locating", "encoding", "encoded"}
    BY <1>2, <2>2 DEF Handled
  <2>4. target \in Targets \cup {Unmade, ApiRange}
    BY <1>1, <1>2, Here DEF Row
  <2>5. w \in Thread /\ w.rev = w0.rev /\ w.pc \in {"done", "output", "search"}
    BY <1>2, <2>4 DEF Thread, Stages
  <2>6. Leaves(e, Tdeed, r0, w0, r0, w)
    BY <1>1, <1>2, <2>3, <2>5 DEF Leaves, Handled
  <2>. QED
    BY <1>1, <2>1, <2>6, Names
<1>4. CASE TdeedLocates(e)
  BY <1>1, <1>4, MovesTo DEF TdeedLocates, Anywhere
<1>5. CASE StartMinuteFallback(e)
  <2>. DEFINE open == r0.status \in {"pending", "locating", "located"}
              r1 == [At(r0, "encoding") EXCEPT !.made = w0.target]
              r2 == Waiting(IF r0.status = "locating" THEN At(r0, "pending") ELSE r0)
  <2>1. w0.target \in Targets /\ MainUnchanged
    BY <1>5 DEF StartMinuteFallback
  <2>2. CASE open /\ SetRow(e, Tdeed, r1) /\ Goto(e, Tdeed, "fallback")
    <3>1. r1 \in Row /\ r1.rev = r0.rev /\ r1.fenced = r0.fenced
      BY <1>2, <2>1 DEF At, Row, Incomplete
    <3>2. Handled(Tdeed, r1, [w0 EXCEPT !.pc = "fallback"])
      BY <1>1, <1>2 DEF Handled, Thread
    <3>. QED
      BY <1>1, <1>2, <2>1, <2>2, <3>1, <3>2, WritesTo DEF Incomplete, Anywhere
  <2>3. CASE open /\ SetRow(e, Tdeed, r2) /\ Goto(e, Tdeed, "done")
    <3>1. r2 \in Row /\ r2.rev = r0.rev /\ r2.fenced = r0.fenced
          /\ r2.status \in {"pending", "located"}
      BY <1>2, <2>3 DEF At, Waiting, Row, Incomplete
    <3>2. Handled(Tdeed, r2, [w0 EXCEPT !.pc = "done"])
      BY <1>1, <1>2, <3>1 DEF Handled, Thread
    <3>. QED
      BY <1>1, <1>2, <2>1, <2>3, <3>1, <3>2, WritesTo DEF Incomplete
  <2>4. CASE UNCHANGED row /\ Goto(e, Tdeed, "escaped")
    BY <1>1, <2>1, <2>4, MovesTo DEF Anywhere
  <2>. QED
    BY <1>5, <2>2, <2>3, <2>4 DEF StartMinuteFallback
<1>6. CASE EndMinuteFallback(e)
  <2>1. MainUnchanged
    BY <1>6 DEF EndMinuteFallback
  <2>2. CASE Allows(r0, "encoded") /\ SetRow(e, Tdeed, At(r0, "encoded")) /\ Goto(e, Tdeed, "done")
    <3>1. At(r0, "encoded") \in Row /\ At(r0, "encoded").rev = r0.rev
          /\ At(r0, "encoded").fenced = r0.fenced
      BY <1>2 DEF At, Row, Settled
    <3>2. Handled(Tdeed, At(r0, "encoded"), [w0 EXCEPT !.pc = "done"])
      BY <1>1, <1>2 DEF Handled, Thread, At, Row
    <3>. QED
      BY <1>1, <1>2, <2>1, <2>2, <3>1, <3>2, AllowsOpen, WritesTo
  <2>3. CASE UNCHANGED row /\ Goto(e, Tdeed, "escaped")
    BY <1>1, <2>1, <2>3, MovesTo DEF Anywhere
  <2>. QED
    BY <1>6, <2>2, <2>3 DEF EndMinuteFallback
<1>. QED
  BY <1>3, <1>4, <1>5, <1>6 DEF TdeedThread

\* What an action of any thread of the pool writes.
LEMMA AnyThreadWrites ==
  ASSUME VisionInv, NEW e \in Events, NEW a \in Artifacts, AnyThread(e, a)
  PROVE  ThreadWrites(e, a)
<1>. DEFINE r0 == row[e][a]
            w0 == worker[e][a]
<1>1. /\ r0 \in Row /\ w0 \in Thread /\ job[e].rev \in Targets
      /\ r0.fenced => r0.status = "failed"
      /\ phase # "down" => Handled(a, r0, w0)
  BY Here
<1>2. CASE Enter(e, a)
  <2>. DEFINE w == [Idle EXCEPT !.pc = "entered", !.rev = job[e].rev]
  <2>1. /\ phase # "down" /\ w0.pc = "queued" /\ SetWorker(e, a, w)
        /\ MainUnchanged /\ UNCHANGED row
    BY <1>2 DEF Enter, Runs
  <2>2. w \in Thread /\ w.rev = job[e].rev /\ w.pc = "entered"
    BY <1>1 DEF Idle, Thread
  <2>3. Leaves(e, a, r0, w0, r0, w)
    BY <1>1, <2>1, <2>2 DEF Leaves, Handled
  <2>. QED
    BY <2>1, <2>3, Names
<1>3. CASE WaitForWindow(e, a)
  <2>1. MainUnchanged
    BY <1>3 DEF WaitForWindow
  <2>2. CASE MayWait(r0)
    <3>1. SetRow(e, a, Waiting(r0)) /\ Goto(e, a, "done")
      BY <1>3, <2>2 DEF WaitForWindow
    <3>2. /\ Waiting(r0) \in Row /\ Waiting(r0).rev = r0.rev /\ Waiting(r0).fenced = r0.fenced
          /\ Waiting(r0).status = r0.status
      BY <1>1 DEF Waiting, Row
    <3>3. r0.status \in {"pending", "located"}
      BY <2>2 DEF MayWait
    <3>4. Handled(a, Waiting(r0), [w0 EXCEPT !.pc = "done"])
      BY <1>1, <3>2, <3>3 DEF Handled, Thread
    <3>. QED
      BY <1>1, <2>1, <3>1, <3>2, <3>3, <3>4, WritesTo DEF Incomplete
  <2>3. CASE ~MayWait(r0)
    BY <1>3, <2>1, <2>3, MovesTo DEF WaitForWindow, Anywhere
  <2>. QED
    BY <2>2, <2>3
<1>4. CASE Refuse(e, a)
  BY <1>4, MovesTo DEF Refuse, Anywhere
<1>5. CASE Breaks(e, a)
  BY <1>5, MovesTo DEF Breaks, Anywhere
<1>6. CASE CheckRevision(e, a)
  <2>1. PICK pc \in {"search", "output"} :
          /\ Runs(e, a, pc)
          /\ Goto(e, a, IF Stale(e, a) THEN "done" ELSE AfterCheck[pc])
    BY <1>6 DEF CheckRevision, AfterCheck
  <2>2. MainUnchanged /\ UNCHANGED row
    BY <1>6 DEF CheckRevision
  <2>3. r0.status \notin {"locating", "encoding"}
    BY <1>1, <2>1 DEF Runs, Handled
  <2>4. CASE Stale(e, a)
    <3>1. Handled(a, r0, [w0 EXCEPT !.pc = "done"])
      BY <1>1, <2>3 DEF Handled, Thread
    <3>. QED
      BY <2>1, <2>2, <2>4, <3>1, MovesTo
  <2>5. CASE ~Stale(e, a)
    <3>1. a = Ocr => r0.rev = w0.rev
      BY <2>5 DEF Stale
    <3>2. /\ Handled(a, r0, [w0 EXCEPT !.pc = "start"])
          /\ Handled(a, r0, [w0 EXCEPT !.pc = "encode"])
      BY <1>1, <2>3, <3>1 DEF Handled, Thread
    <3>3. AfterCheck[pc] \in {"start", "encode"}
      BY DEF AfterCheck
    <3>. QED
      BY <2>1, <2>2, <2>5, <3>2, <3>3, MovesTo
  <2>. QED
    BY <2>4, <2>5
<1>7. CASE StartLocating(e, a)
  <2>. DEFINE r == [r0 EXCEPT !.rev = IF a = Ocr THEN w0.rev ELSE @]
  <2>1. Transit(e, a, "locating", r, "locating")
    BY <1>7 DEF StartLocating
  <2>2. r \in Row /\ r.fenced = r0.fenced /\ r.rev = (IF a = Ocr THEN w0.rev ELSE r0.rev)
    BY <1>1 DEF Row, Thread
  <2>3. Handled(a, At(r, "locating"), [w0 EXCEPT !.pc = "locating"])
    BY <1>1, <2>2 DEF Handled, Thread, At, Row
  <2>4. "locating" \in Stages
    BY DEF Stages
  <2>. QED
    BY <2>1, <2>2, <2>3, <2>4, TransitWrites
<1>8. CASE Missed(e, a)
  <2>1. /\ phase # "down" /\ w0.pc = "locating" /\ MainUnchanged /\ UNCHANGED row
        /\ Goto(e, a, IF Stale(e, a) THEN "done" ELSE "missed")
    BY <1>8 DEF Missed, Runs
  <2>2. CASE Stale(e, a)
    <3>1. r0.status \notin {"locating", "encoding"}
      BY <1>1, <2>1, <2>2 DEF Handled, Stale
    <3>2. Handled(a, r0, [w0 EXCEPT !.pc = "done"])
      BY <1>1, <3>1 DEF Handled, Thread
    <3>. QED
      BY <2>1, <2>2, <3>2, MovesTo
  <2>3. CASE ~Stale(e, a)
    BY <2>1, <2>3, MovesTo DEF Anywhere
  <2>. QED
    BY <2>2, <2>3
<1>9. CASE SaveLocation(e, a)
  <2>. DEFINE r == [r0 EXCEPT !.rev = IF a = Ocr THEN w0.rev ELSE @, !.made = w0.target]
  <2>1. Transit(e, a, "located", r, "output")
    BY <1>9 DEF SaveLocation
  <2>2. r \in Row /\ r.fenced = r0.fenced /\ r.rev = (IF a = Ocr THEN w0.rev ELSE r0.rev)
    BY <1>1 DEF Row, Thread
  <2>3. Handled(a, At(r, "located"), [w0 EXCEPT !.pc = "output"])
    BY <1>1, <2>2 DEF Handled, Thread, At, Row
  <2>4. "output" \in Stages
    BY DEF Stages
  <2>. QED
    BY <2>1, <2>2, <2>3, <2>4, TransitWrites
<1>10. CASE StartEncoding(e, a)
  <2>1. Transit(e, a, "encoding", r0, "encoding") /\ phase # "down" /\ w0.pc = "encode"
    BY <1>10 DEF StartEncoding, Runs
  <2>2. Allows(r0, "encoding") /\ a = Ocr => r0.rev = w0.rev
    BY <1>1, <2>1, AllowsOpen DEF Handled
  <2>3. Allows(r0, "encoding") => Handled(a, At(r0, "encoding"), [w0 EXCEPT !.pc = "encoding"])
    BY <1>1, <2>2 DEF Handled, Thread, At, Row
  <2>4. "encoding" \in Stages
    BY DEF Stages
  <2>. QED
    BY <1>1, <2>1, <2>3, <2>4, TransitWrites
<1>11. CASE Encoded(e, a)
  <2>1. /\ phase # "down" /\ w0.pc = "encoding" /\ MainUnchanged /\ UNCHANGED row
        /\ Goto(e, a, IF Stale(e, a) THEN "done" ELSE "publish")
    BY <1>11 DEF Encoded, Runs
  <2>2. CASE Stale(e, a)
    <3>1. r0.status \notin {"locating", "encoding"}
      BY <1>1, <2>1, <2>2 DEF Handled, Stale
    <3>2. Handled(a, r0, [w0 EXCEPT !.pc = "done"])
      BY <1>1, <3>1 DEF Handled, Thread
    <3>. QED
      BY <2>1, <2>2, <3>2, MovesTo
  <2>3. CASE ~Stale(e, a)
    BY <2>1, <2>3, MovesTo DEF Anywhere
  <2>. QED
    BY <2>2, <2>3
<1>12. CASE Publish(e, a)
  <2>. DEFINE r == [r0 EXCEPT !.made = w0.target]
  <2>1. Transit(e, a, "encoded", r, "done")
    BY <1>12 DEF Publish
  <2>2. r \in Row /\ r.fenced = r0.fenced /\ r.rev = r0.rev
    BY <1>1 DEF Row, Thread
  <2>3. Handled(a, At(r, "encoded"), [w0 EXCEPT !.pc = "done"])
    BY <1>1, <2>2 DEF Handled, Thread, At, Row
  <2>. QED
    BY <2>1, <2>2, <2>3, TransitWrites
<1>13. CASE FailArtifact(e, a)
  <2>1. Goto(e, a, "done") /\ MainUnchanged
    BY <1>13 DEF FailArtifact
  <2>2. CASE r0.status \in Incomplete
    <3>1. SetRow(e, a, At(r0, "failed"))
      BY <1>13, <2>2 DEF FailArtifact
    <3>2. /\ At(r0, "failed") \in Row /\ At(r0, "failed").rev = r0.rev
          /\ At(r0, "failed").fenced = r0.fenced
      BY <1>1 DEF At, Row, Settled
    <3>3. ~r0.fenced /\ r0.status \notin {"absent", "encoded"}
      BY <1>1, <2>2 DEF Incomplete
    <3>4. Handled(a, At(r0, "failed"), [w0 EXCEPT !.pc = "done"])
      BY <1>1 DEF Handled, Thread, At, Row
    <3>. QED
      BY <2>1, <2>2, <3>1, <3>2, <3>3, <3>4, WritesTo
  <2>3. CASE r0.status \notin Incomplete
    <3>1. Handled(a, r0, [w0 EXCEPT !.pc = "done"])
      BY <1>1, <2>3 DEF Handled, Thread, Incomplete
    <3>. QED
      BY <1>13, <2>1, <2>3, <3>1, MovesTo DEF FailArtifact
  <2>. QED
    BY <2>2, <2>3
<1>. QED
  BY <1>2, <1>3, <1>4, <1>5, <1>6, <1>7, <1>8, <1>9, <1>10, <1>11, <1>12, <1>13 DEF AnyThread

\* Every step of a thread writes its own row and place, within Leaves.
LEMMA ThreadStepWrites ==
  ASSUME VisionInv, NEW e \in Events, NEW a \in Artifacts, ThreadStep(e, a)
  PROVE  ThreadWrites(e, a) /\ phase # "down"
<1>1. ThreadWrites(e, a)
  BY OcrThreadWrites, TdeedThreadWrites, AnyThreadWrites DEF ThreadStep
<1>2. phase # "down"
  <2>1. CASE AnyThread(e, a)
    BY <2>1 DEF AnyThread, Enter, WaitForWindow, Refuse, Breaks, CheckRevision, StartLocating,
       Missed, SaveLocation, StartEncoding, Encoded, Publish, FailArtifact, Runs
  <2>2. CASE OcrThread(e)
    BY <2>2 DEF OcrThread, BeginOcr, WaitForTarget, OcrLocates, WaitAfterScan,
       StartRangeFallback, EndRangeFallback, Runs
  <2>3. CASE TdeedThread(e)
    BY <2>3 DEF TdeedThread, BeginTdeed, TdeedLocates, StartMinuteFallback,
       EndMinuteFallback, Runs
  <2>. QED
    BY <2>1, <2>2, <2>3 DEF ThreadStep
<1>. QED
  BY <1>1, <1>2

------------------------------------------------------------------------------
\* The initial state.
LEMMA InitVision == ASSUME Init PROVE VisionInv
<1>1. NoRow \in Row /\ Idle \in Thread /\ NoJob \in [known : BOOLEAN, rev : Targets, second : Targets]
  BY TargetType DEF NoRow, Row, Idle, Thread, NoJob, Targets
<1>2. TypeOK
  BY <1>1, TargetType, RestartsType, RefiningType DEF Init, TypeOK, Targets
<1>3. FenceClosed /\ RevisionsCounted /\ AllHandled /\ DownForgets
  BY TwoArtifacts DEF Init, FenceClosed, RevisionsCounted, AllHandled, Handled, DownForgets,
     NoRow, Idle, NoJob
<1>4. OwedOK /\ RevisionsAgree
  BY TwoArtifacts DEF Init, OwedOK, RevisionsAgree, AgreesOn, NoRow, Idle, NoJob, Incomplete
<1>. QED
  BY <1>2, <1>3, <1>4 DEF VisionInv

\* A thread's step keeps the invariant, a fence and an encoded artifact.
LEMMA ThreadKeeps ==
  ASSUME VisionInv, NEW e \in Events, NEW a \in Artifacts, ThreadStep(e, a)
  PROVE  /\ VisionInv'
         /\ \A f \in Events, b \in Artifacts :
              /\ row[f][b].fenced => row'[f][b].fenced
              /\ row[f][b].status = "encoded" => row'[f][b].status = "encoded"
<1>1. PICK r \in Row, w \in Thread :
        Own(e, a, r, w) /\ Leaves(e, a, row[e][a], worker[e][a], r, w)
  BY ThreadStepWrites DEF ThreadWrites
<1>2. phase # "down" /\ MainUnchanged
  BY <1>1, ThreadStepWrites DEF Own
<1>3. /\ row' \in Rows /\ worker' \in Threads
      /\ row'[e][a] = r /\ worker'[e][a] = w
      /\ \A f \in Events, b \in Artifacts :
           f # e \/ b # a => row'[f][b] = row[f][b] /\ worker'[f][b] = worker[f][b]
  BY <1>1 DEF Own, VisionInv, TypeOK, Rows, Threads
<1>4. TypeOK'
  BY <1>2, <1>3 DEF VisionInv, TypeOK, MainUnchanged, Rows, Threads
<1>5. FenceClosed'
  BY <1>1, <1>3 DEF VisionInv, FenceClosed, Leaves
<1>6. RevisionsCounted'
  <2>1. second \in [Events -> Targets] /\ job[e].rev <= second[e]
    BY DEF VisionInv, TypeOK, RevisionsCounted, Targets
  <2>2. r.rev <= second[e] /\ w.rev <= second[e]
    BY <1>1, <2>1, TwoArtifacts DEF VisionInv, RevisionsCounted, Leaves
  <2>. QED
    BY <1>2, <1>3, <2>2 DEF VisionInv, RevisionsCounted, MainUnchanged
<1>7. AllHandled'
  BY <1>1, <1>2, <1>3 DEF VisionInv, AllHandled, Leaves, MainUnchanged
<1>8. DownForgets' /\ OwedOK'
  BY <1>2 DEF VisionInv, DownForgets, OwedOK, MainUnchanged
<1>9. RevisionsAgree'
  <2>1. UNCHANGED <<phase, refining, job, owed, second>>
    BY <1>2 DEF MainUnchanged
  <2>2. RevisionsAgree /\ TypeOK /\ OwedOK
    BY DEF VisionInv
  <2>3. \A f \in Events, b \in Artifacts : row[f][b].rev \in Int /\ worker[f][b].rev \in Int
                                           /\ job[f].rev \in Int
    BY <2>2 DEF TypeOK, Row, Thread, Targets
  <2>. SUFFICES ASSUME NEW f \in Events
                PROVE  AgreesOn(f)'
    BY DEF RevisionsAgree
  <2>4. CASE f # e
    BY <1>3, <2>1, <2>2, <2>4, TwoArtifacts DEF RevisionsAgree, AgreesOn
  <2>5. CASE f = e /\ a = Ocr
    <3>1. row'[e][Ocr] = r /\ worker'[e][Ocr] = w /\ row'[e][Tdeed] = row[e][Tdeed]
      BY <1>3, <2>5, TwoArtifacts
    <3>2. /\ w.rev \in {worker[e][Ocr].rev, job[e].rev}
          /\ r.rev \in {row[e][Ocr].rev, worker[e][Ocr].rev, job[e].rev}
          /\ row[e][Ocr].status = "absent" => r = row[e][Ocr]
      BY <1>1, <2>5 DEF Leaves
    <3>. QED
      BY <1>2, <2>1, <2>2, <2>3, <2>5, <3>1, <3>2, TwoArtifacts DEF RevisionsAgree, AgreesOn
  <2>6. CASE f = e /\ a = Tdeed
    <3>1. row'[e][Tdeed] = r /\ UNCHANGED worker[e][Ocr] /\ UNCHANGED row[e][Ocr]
      BY <1>3, <2>6, TwoArtifacts
    <3>2. r.rev = row[e][Tdeed].rev /\ (r.status \in Incomplete => row[e][Tdeed].status \in Incomplete)
      BY <1>1, <2>6, TwoArtifacts DEF Leaves
    <3>. QED
      BY <1>2, <2>1, <2>2, <2>3, <2>6, <3>1, <3>2, TwoArtifacts DEF RevisionsAgree, AgreesOn
  <2>. QED
    BY <2>4, <2>5, <2>6, TwoArtifacts
<1>10. VisionInv'
  BY <1>4, <1>5, <1>6, <1>7, <1>8, <1>9 DEF VisionInv
<1>. QED
  BY <1>1, <1>3, <1>10 DEF Leaves

------------------------------------------------------------------------------
\* What no step does to a row.
Kept ==
  \A e \in Events, a \in Artifacts :
    /\ row[e][a].fenced => row'[e][a].fenced
    /\ row[e][a].status = "encoded" /\ row'[e][a].status # "encoded" =>
         row'[e][a].rev > row[e][a].rev

\* One row is written.
LEMMA OneRow ==
  ASSUME VisionInv, NEW e \in Events, NEW a \in Artifacts, NEW r \in Row, SetRow(e, a, r)
  PROVE  /\ row' \in Rows /\ row'[e][a] = r
         /\ \A f \in Events, b \in Artifacts : f # e \/ b # a => row'[f][b] = row[f][b]
BY DEF SetRow, VisionInv, TypeOK, Rows

\* One thread's place is written.
LEMMA OnePlace ==
  ASSUME VisionInv, NEW e \in Events, NEW a \in Artifacts, NEW w \in Thread, SetWorker(e, a, w)
  PROVE  /\ worker' \in Threads /\ worker'[e][a] = w
         /\ \A f \in Events, b \in Artifacts : f # e \/ b # a => worker'[f][b] = worker[f][b]
BY DEF SetWorker, VisionInv, TypeOK, Threads

\* The integers of the comparisons.
LEMMA Revisions ==
  ASSUME VisionInv, NEW e \in Events
  PROVE  /\ second[e] \in Int /\ job[e].rev \in Int /\ job[e].second \in Int
         /\ \A a \in Artifacts : row[e][a].rev \in Int /\ worker[e][a].rev \in Int
BY DEF VisionInv, TypeOK, Row, Thread, Targets

\* A row that the main loop settles, or whose clock goes on, stays within the invariant.
LEMMA RowKeeps ==
  ASSUME VisionInv, NEW e \in Events, NEW a \in Artifacts, NEW r \in Row, SetRow(e, a, r),
         UNCHANGED <<phase, refining, restarts, second, job, owed, worker>>,
         r.rev = row[e][a].rev,
         row[e][a].fenced => r.fenced,
         r.fenced => r.status = "failed",
         \/ r.status = row[e][a].status
         \/ row[e][a].status \in Incomplete /\ r.status = "failed"
  PROVE  VisionInv' /\ Kept
<1>1. /\ row' \in Rows /\ row'[e][a] = r
      /\ \A f \in Events, b \in Artifacts : f # e \/ b # a => row'[f][b] = row[f][b]
  BY OneRow
<1>2. TypeOK'
  BY <1>1 DEF VisionInv, TypeOK, Rows
<1>3. FenceClosed' /\ RevisionsCounted'
  BY <1>1 DEF VisionInv, FenceClosed, RevisionsCounted
<1>4. AllHandled'
  <2>1. phase # "down" => Handled(a, r, worker[e][a])
    BY DEF VisionInv, AllHandled, Handled
  <2>. QED
    BY <1>1, <2>1 DEF VisionInv, AllHandled
<1>5. DownForgets' /\ OwedOK'
  BY DEF VisionInv, DownForgets, OwedOK
<1>6. RevisionsAgree'
  <2>1. r.status \in Incomplete => row[e][a].status \in Incomplete
    BY DEF Incomplete
  <2>2. r.status = "absent" <=> row[e][a].status = "absent"
    BY DEF Incomplete
  <2>. QED
    BY <1>1, <2>1, <2>2, TwoArtifacts DEF VisionInv, RevisionsAgree, AgreesOn
<1>7. Kept
  <2>1. row[e][a].status = "encoded" => r.status = "encoded"
    BY DEF Incomplete
  <2>. QED
    BY <1>1, <2>1 DEF Kept
<1>. QED
  BY <1>2, <1>3, <1>4, <1>5, <1>6, <1>7 DEF VisionInv

\* A thread that only moves through the hands of the main loop.
LEMMA PlaceKeeps ==
  ASSUME VisionInv, phase # "down", NEW e \in Events, NEW a \in Artifacts, NEW w \in Thread,
         SetWorker(e, a, w),
         UNCHANGED <<phase, refining, restarts, second, job, owed, row>>,
         w.rev \in {0, worker[e][a].rev}, Handled(a, row[e][a], w)
  PROVE  VisionInv' /\ Kept
<1>1. /\ worker' \in Threads /\ worker'[e][a] = w
      /\ \A f \in Events, b \in Artifacts : f # e \/ b # a => worker'[f][b] = worker[f][b]
  BY OnePlace
<1>2. TypeOK'
  BY <1>1 DEF VisionInv, TypeOK, Threads
<1>3. second[e] >= 0 /\ job[e].rev >= 0
  BY DEF VisionInv, TypeOK, Targets
<1>4. FenceClosed' /\ RevisionsCounted'
  BY <1>1, <1>3 DEF VisionInv, FenceClosed, RevisionsCounted
<1>5. AllHandled' /\ DownForgets' /\ OwedOK'
  BY <1>1 DEF VisionInv, AllHandled, DownForgets, OwedOK
<1>6. RevisionsAgree'
  BY <1>1, <1>3, TwoArtifacts DEF VisionInv, RevisionsAgree, AgreesOn
<1>7. Kept
  BY DEF Kept
<1>. QED
  BY <1>2, <1>4, <1>5, <1>6, <1>7 DEF VisionInv

\* A new event has rows and a job without a revision.
LEMMA EnqueueKeeps ==
  ASSUME VisionInv, NEW e \in Events, EnqueueVision(e)
  PROVE  VisionInv' /\ Kept
<1>. DEFINE new(a) == IF row[e][a].status = "absent" /\ (a = Ocr \/ refining)
                      THEN At(NoRow, "pending") ELSE row[e][a]
            j == [known |-> TRUE, rev |-> 0, second |-> second[e]]
<1>1. /\ phase = "running" /\ ~job[e].known
      /\ UNCHANGED <<phase, refining, restarts, second, owed, worker>>
  BY DEF EnqueueVision
<1>2. /\ At(NoRow, "pending") \in Row /\ At(NoRow, "pending").rev = 0
      /\ ~At(NoRow, "pending").fenced /\ At(NoRow, "pending").status = "pending"
  <2>1. NoRow \in Row /\ NoRow.rev = 0 /\ ~NoRow.fenced
    BY TargetType DEF NoRow, Row, Targets
  <2>. QED
    BY <2>1 DEF At, Row, Incomplete
<1>3. /\ row' \in Rows
      /\ \A a \in Artifacts : row'[e][a] = new(a)
      /\ \A f \in Events, a \in Artifacts : f # e => row'[f][a] = row[f][a]
  BY <1>2 DEF EnqueueVision, VisionInv, TypeOK, Rows
<1>4. /\ job' \in [Events -> [known : BOOLEAN, rev : Targets, second : Targets]]
      /\ job'[e] = j /\ \A f \in Events : f # e => job'[f] = job[f]
  BY TargetType DEF EnqueueVision, VisionInv, TypeOK, Targets
<1>5. TypeOK'
  BY <1>1, <1>3, <1>4 DEF VisionInv, TypeOK, Rows
<1>6. FenceClosed'
  BY <1>2, <1>3 DEF VisionInv, FenceClosed
<1>7. RevisionsCounted'
  <2>1. second[e] >= 0 /\ second[e] <= second[e]
    BY DEF VisionInv, TypeOK, Targets
  <2>. QED
    BY <1>1, <1>2, <1>3, <1>4, <2>1 DEF VisionInv, RevisionsCounted
<1>8. AllHandled'
  <2>1. \A a \in Artifacts : Handled(a, row[e][a], worker[e][a])
    BY <1>1 DEF VisionInv, AllHandled
  <2>2. \A a \in Artifacts : Handled(a, new(a), worker[e][a])
    BY <1>2, <2>1 DEF Handled
  <2>. QED
    BY <1>1, <1>3, <2>2 DEF VisionInv, AllHandled
<1>9. DownForgets' /\ OwedOK'
  BY <1>1, <1>4 DEF VisionInv, DownForgets, OwedOK
<1>10. RevisionsAgree'
  <2>1. /\ row'[e][Ocr] = At(NoRow, "pending")
        /\ row'[e][Tdeed] = new(Tdeed) /\ owed[e] = {} /\ job'[e].rev = 0
        /\ worker'[e][Ocr].rev = worker[e][Ocr].rev /\ worker[e][Ocr].rev <= 0
    BY <1>1, <1>3, <1>4, TwoArtifacts DEF VisionInv, RevisionsAgree, AgreesOn, OwedOK
  <2>2. new(Tdeed).rev \in Int /\ new(Tdeed).rev >= 0
    BY <1>2, TwoArtifacts DEF VisionInv, TypeOK, Row, Targets
  <2>3. ~refining => new(Tdeed).status \notin Incomplete
    BY <1>1, TwoArtifacts DEF VisionInv, RevisionsAgree, AgreesOn
  <2>4. AgreesOn(e)'
    BY <1>1, <1>2, <1>4, <2>1, <2>2, <2>3 DEF AgreesOn
  <2>5. \A f \in Events : f # e => AgreesOn(f)'
    BY <1>1, <1>3, <1>4, TwoArtifacts DEF AgreesOn, VisionInv, RevisionsAgree
  <2>. QED
    BY <2>4, <2>5 DEF RevisionsAgree
<1>11. Kept
  BY <1>3 DEF Kept, VisionInv, FenceClosed
<1>. QED
  BY <1>5, <1>6, <1>7, <1>8, <1>9, <1>10, <1>11 DEF VisionInv

\* A second that arrives.
LEMMA SecondKeeps ==
  ASSUME VisionInv, NEW e \in Events, SecondArrives(e)
  PROVE  VisionInv' /\ Kept
<1>1. /\ second' = [second EXCEPT ![e] = @ + 1] /\ owed[e] = {} /\ second[e] < MaxTarget
      /\ UNCHANGED <<phase, refining, restarts, job, owed, row, worker>>
  BY DEF SecondArrives
<1>2. /\ second' \in [Events -> Targets] /\ second'[e] = second[e] + 1
      /\ \A f \in Events : f # e => second'[f] = second[f]
  BY <1>1, TargetType DEF VisionInv, TypeOK, Targets
<1>3. TypeOK' /\ FenceClosed' /\ AllHandled' /\ Kept
  <2>1. TypeOK'
    BY <1>1, <1>2 DEF VisionInv, TypeOK
  <2>2. FenceClosed' /\ AllHandled'
    BY <1>1 DEF VisionInv, FenceClosed, AllHandled
  <2>. QED
    BY <1>1, <2>1, <2>2 DEF Kept
<1>4. DownForgets' /\ OwedOK'
  <2>1. DownForgets'
    BY <1>1 DEF VisionInv, DownForgets
  <2>. QED
    BY <1>1, <1>2, <2>1 DEF VisionInv, OwedOK
<1>5. RevisionsCounted'
  BY <1>1, <1>2, Revisions DEF VisionInv, RevisionsCounted
<1>6. RevisionsAgree'
  BY <1>1 DEF VisionInv, RevisionsAgree, AgreesOn
<1>. QED
  BY <1>3, <1>4, <1>5, <1>6 DEF VisionInv

\* A job that takes a revision: its resets start.
LEMMA RefreshKeeps ==
  ASSUME VisionInv, NEW e \in Events, RefreshJob(e)
  PROVE  VisionInv' /\ Kept
<1>. DEFINE due == IF refining THEN Artifacts ELSE {Ocr}
<1>1. /\ phase = "running" /\ job[e].known /\ job[e].second # second[e]
      /\ UNCHANGED <<phase, refining, restarts, second, row, worker>>
  BY DEF RefreshJob
<1>2. owed[e] = {} /\ job[e].rev + 1 <= second[e]
  BY <1>1, Revisions DEF VisionInv, OwedOK, RevisionsCounted
<1>3. /\ owed' \in [Events -> SUBSET Artifacts] /\ owed'[e] = due
      /\ \A f \in Events : f # e => owed'[f] = owed[f]
  BY TwoArtifacts DEF RefreshJob, VisionInv, TypeOK
<1>4. job[e].rev + 1 \in Targets
  BY <1>2, Revisions, TargetType DEF VisionInv, TypeOK, Targets
<1>5. /\ job' \in [Events -> [known : BOOLEAN, rev : Targets, second : Targets]]
      /\ job'[e].known /\ job'[e].rev = job[e].rev + 1 /\ job'[e].second = second[e]
      /\ \A f \in Events : f # e => job'[f] = job[f]
  BY <1>1, <1>4 DEF RefreshJob, VisionInv, TypeOK
<1>6. TypeOK' /\ FenceClosed' /\ AllHandled' /\ DownForgets' /\ Kept
  BY <1>1, <1>3, <1>5 DEF VisionInv, TypeOK, FenceClosed, AllHandled, DownForgets, Kept
<1>7. RevisionsCounted'
  BY <1>1, <1>2, <1>5, Revisions DEF VisionInv, RevisionsCounted
<1>8. OwedOK'
  BY <1>1, <1>3, <1>5, TwoArtifacts DEF VisionInv, OwedOK
<1>9. RevisionsAgree'
  <2>1. \A f \in Events : AgreesOn(f)
    BY DEF VisionInv, RevisionsAgree
  <2>2. AgreesOn(e)'
    <3>1. /\ job[e].rev \in Int /\ row[e][Ocr].rev \in Int /\ row[e][Tdeed].rev \in Int
          /\ worker[e][Ocr].rev \in Int
      BY Revisions, TwoArtifacts
    <3>2. /\ worker[e][Ocr].rev <= job[e].rev /\ row[e][Ocr].rev <= job[e].rev + 1
          /\ ~refining => row[e][Tdeed].status \notin Incomplete
          /\ row[e][Tdeed].status \in Incomplete =>
               row[e][Ocr].rev <= row[e][Tdeed].rev + 1 /\ job[e].rev <= row[e][Tdeed].rev
      BY <1>1, <1>2, <2>1 DEF AgreesOn
    <3>3. owed'[e] # {}
      BY <1>3, TwoArtifacts
    <3>. QED
      BY <1>1, <1>5, <3>1, <3>2, <3>3 DEF AgreesOn
  <2>3. \A f \in Events : f # e => AgreesOn(f)'
    BY <1>1, <1>3, <1>5, <2>1 DEF AgreesOn
  <2>. QED
    BY <2>2, <2>3 DEF RevisionsAgree
<1>. QED
  BY <1>6, <1>7, <1>8, <1>9 DEF VisionInv

\* The OCR row is brought to the revision of its job.
LEMMA ResetOcrKeeps ==
  ASSUME VisionInv, NEW e \in Events, ResetOcr(e)
  PROVE  VisionInv' /\ Kept
<1>. DEFINE r0 == row[e][Ocr]
            r == Ensured(r0, job[e].rev)
<1>1. /\ phase = "running" /\ Ocr \in owed[e] /\ SetRow(e, Ocr, r)
      /\ owed' = [owed EXCEPT ![e] = @ \ {Ocr}]
      /\ UNCHANGED <<phase, refining, restarts, second, job, worker>>
  BY DEF ResetOcr
<1>2. r0 \in Row /\ job[e].rev \in Targets /\ (r0.fenced => r0.status = "failed")
  BY Here, TwoArtifacts
<1>3. /\ r \in Row /\ r.fenced = r0.fenced
      /\ r = r0 \/ (r.status = "pending" /\ r.rev = job[e].rev /\ r.rev # r0.rev /\ ~r0.fenced
                     /\ r0.status # "absent")
  BY <1>2 DEF Ensured, Allows, Row, Incomplete, AllowedTransitions
<1>4. /\ row' \in Rows /\ row'[e][Ocr] = r
      /\ \A f \in Events, b \in Artifacts : f # e \/ b # Ocr => row'[f][b] = row[f][b]
  BY <1>1, <1>3, OneRow, TwoArtifacts
<1>5. /\ owed' \in [Events -> SUBSET Artifacts] /\ owed'[e] = owed[e] \ {Ocr}
      /\ \A f \in Events : f # e => owed'[f] = owed[f]
  BY <1>1 DEF VisionInv, TypeOK
<1>6. r0.rev \in Int /\ job[e].rev \in Int /\ r0.rev <= job[e].rev /\ job[e].rev <= second[e]
      /\ second[e] \in Int /\ job[e].second \in Int
  BY <1>1, Revisions, TwoArtifacts DEF VisionInv, RevisionsAgree, AgreesOn, RevisionsCounted
<1>7. TypeOK'
  BY <1>1, <1>4, <1>5 DEF VisionInv, TypeOK, Rows
<1>8. FenceClosed' /\ RevisionsCounted'
  BY <1>1, <1>3, <1>4, <1>6 DEF VisionInv, FenceClosed, RevisionsCounted
<1>9. AllHandled' /\ DownForgets'
  <2>1. Handled(Ocr, r0, worker[e][Ocr])
    BY <1>1, TwoArtifacts DEF VisionInv, AllHandled
  <2>2. Handled(Ocr, r, worker[e][Ocr])
    BY <1>3, <2>1 DEF Handled
  <2>. QED
    BY <1>1, <1>4, <2>2 DEF VisionInv, AllHandled, DownForgets
<1>10. OwedOK'
  BY <1>1, <1>5, TwoArtifacts DEF VisionInv, OwedOK
<1>11. RevisionsAgree'
  <2>1. \A f \in Events : AgreesOn(f)
    BY DEF VisionInv, RevisionsAgree
  <2>2. AgreesOn(e)'
    <3>1. /\ row'[e][Ocr] = r /\ row'[e][Tdeed] = row[e][Tdeed] /\ r.rev \in Int
          /\ r.rev <= job[e].rev /\ job[e].known
          /\ row[e][Tdeed].rev \in Int
      BY <1>1, <1>3, <1>4, <1>6, Revisions, TwoArtifacts DEF VisionInv, OwedOK
    <3>2. owed'[e] = {} => ~refining
      BY <1>1, <1>5, TwoArtifacts DEF VisionInv, OwedOK
    <3>. QED
      BY <1>1, <1>5, <1>6, <2>1, <3>1, <3>2 DEF AgreesOn
  <2>3. \A f \in Events : f # e => AgreesOn(f)'
    BY <1>1, <1>4, <1>5, <2>1, TwoArtifacts DEF AgreesOn
  <2>. QED
    BY <2>2, <2>3 DEF RevisionsAgree
<1>12. Kept
  BY <1>3, <1>4, <1>6, TwoArtifacts DEF Kept
<1>. QED
  BY <1>7, <1>8, <1>9, <1>10, <1>11, <1>12 DEF VisionInv

\* The T-DEED row follows, or the refusal of a fenced row stops the main loop.
LEMMA ResetTdeedKeeps ==
  ASSUME VisionInv, NEW e \in Events, ResetTdeed(e)
  PROVE  VisionInv' /\ Kept
<1>. DEFINE r0 == row[e][Tdeed]
            open == [r0 EXCEPT !.status = "pending", !.rev = job[e].rev,
                               !.due = (r0.status # "pending") => r0.due]
            r == row'[e][Tdeed]
<1>1. /\ phase = "running" /\ owed[e] = {Tdeed}
      /\ owed' = [owed EXCEPT ![e] = {}]
      /\ UNCHANGED <<refining, restarts, second, job, worker>>
  BY DEF ResetTdeed
<1>2. /\ r0 \in Row /\ job[e].rev \in Targets /\ r0.rev \in Int /\ job[e].rev \in Int
      /\ r0.fenced => r0.status = "failed"
  BY Here, Revisions, TwoArtifacts
<1>3. /\ open \in Row /\ open.rev = job[e].rev /\ open.status = "pending"
      /\ open.fenced = r0.fenced
  BY <1>2 DEF Row, Incomplete
<1>4. \/ /\ SetRow(e, Tdeed, open) /\ phase' = phase /\ ~r0.fenced
         /\ r0.rev < job[e].rev /\ r0.status # "absent"
      \/ UNCHANGED row /\ phase' = phase /\ (r0.status = "absent" \/ r0.rev >= job[e].rev)
      \/ UNCHANGED row /\ phase' = "stopping" /\ r0.status \notin Incomplete
  <2>1. CASE r0.status = "absent" \/ r0.rev >= job[e].rev
    BY <2>1 DEF ResetTdeed
  <2>2. CASE ~(r0.status = "absent" \/ r0.rev >= job[e].rev) /\ r0.status # "pending"
             /\ ~Allows(r0, "pending")
    <3>1. r0.fenced
      BY <1>2, <2>2 DEF Allows, AllowedTransitions, Row, Incomplete, Settled
    <3>. QED
      BY <1>2, <2>2, <3>1 DEF ResetTdeed, Incomplete
  <2>3. CASE ~(r0.status = "absent" \/ r0.rev >= job[e].rev)
             /\ ~(r0.status # "pending" /\ ~Allows(r0, "pending"))
    <3>1. ~r0.fenced
      BY <1>2, <2>3 DEF Allows
    <3>. QED
      BY <1>2, <2>3, <3>1 DEF ResetTdeed
  <2>. QED
    BY <2>1, <2>2, <2>3
<1>5. /\ row' \in Rows
      /\ r = r0 \/ (r = open /\ ~r0.fenced /\ r0.rev < job[e].rev)
      /\ \A f \in Events, b \in Artifacts : f # e \/ b # Tdeed => row'[f][b] = row[f][b]
  BY <1>3, <1>4, OneRow, TwoArtifacts DEF VisionInv, TypeOK, Rows
<1>6. /\ owed' \in [Events -> SUBSET Artifacts] /\ owed'[e] = {}
      /\ \A f \in Events : f # e => owed'[f] = owed[f]
  BY <1>1, TwoArtifacts DEF VisionInv, TypeOK
<1>7. phase' \in {"running", "stopping"}
  BY <1>1, <1>4
<1>8. TypeOK'
  BY <1>1, <1>5, <1>6, <1>7 DEF VisionInv, TypeOK, Rows
<1>9. FenceClosed' /\ RevisionsCounted'
  <2>1. job[e].rev <= second[e]
    BY Revisions DEF VisionInv, RevisionsCounted
  <2>2. (r.fenced => r.status = "failed") /\ r.rev <= second[e]
    BY <1>2, <1>3, <1>5, <2>1, TwoArtifacts DEF VisionInv, RevisionsCounted
  <2>3. FenceClosed'
    BY <1>5, <2>2 DEF VisionInv, FenceClosed
  <2>4. RevisionsCounted'
    BY <1>1, <1>5, <2>2 DEF VisionInv, RevisionsCounted
  <2>. QED
    BY <2>3, <2>4
<1>10. AllHandled' /\ DownForgets'
  <2>1. Handled(Tdeed, r0, worker[e][Tdeed])
    BY <1>1, TwoArtifacts DEF VisionInv, AllHandled
  <2>2. Handled(Tdeed, r, worker[e][Tdeed])
    BY <1>3, <1>5, <2>1, TwoArtifacts DEF Handled
  <2>. QED
    BY <1>1, <1>5, <1>7, <2>2 DEF VisionInv, AllHandled, DownForgets
<1>11. OwedOK'
  BY <1>1, <1>6, TwoArtifacts DEF VisionInv, OwedOK
<1>12. RevisionsAgree'
  <2>1. \A f \in Events : AgreesOn(f)
    BY DEF VisionInv, RevisionsAgree
  <2>2. AgreesOn(e)'
    <3>1. /\ row'[e][Ocr] = row[e][Ocr] /\ job[e].known /\ row[e][Ocr].rev \in Int
          /\ worker[e][Ocr].rev \in Int
      BY <1>1, <1>5, Revisions, TwoArtifacts DEF VisionInv, OwedOK
    <3>2. refining
      BY <1>1, TwoArtifacts DEF VisionInv, OwedOK
    <3>3. CASE r = open /\ r0.rev < job[e].rev
      BY <1>1, <1>2, <1>3, <1>6, <2>1, <3>1, <3>2, <3>3 DEF AgreesOn
    <3>4. CASE r = r0 /\ (r0.status \notin Incomplete \/ r0.rev >= job[e].rev)
      BY <1>1, <1>2, <1>6, <2>1, <3>1, <3>2, <3>4 DEF AgreesOn
    <3>. QED
      BY <1>3, <1>4, <1>5, <3>3, <3>4, OneRow, TwoArtifacts DEF Incomplete
  <2>3. \A f \in Events : f # e => AgreesOn(f)'
    BY <1>1, <1>5, <1>6, <1>7, <2>1, TwoArtifacts DEF AgreesOn
  <2>. QED
    BY <2>2, <2>3 DEF RevisionsAgree
<1>13. Kept
  <2>. SUFFICES ASSUME NEW f \in Events, NEW b \in Artifacts
                PROVE  /\ row[f][b].fenced => row'[f][b].fenced
                       /\ row[f][b].status = "encoded" /\ row'[f][b].status # "encoded" =>
                            row'[f][b].rev > row[f][b].rev
    BY DEF Kept
  <2>1. CASE f # e \/ b # Tdeed
    BY <1>5, <2>1
  <2>2. CASE f = e /\ b = Tdeed
    BY <1>2, <1>3, <1>5, <2>2
  <2>. QED
    BY <2>1, <2>2
<1>. QED
  BY <1>8, <1>9, <1>10, <1>11, <1>12, <1>13 DEF VisionInv

\* The pool takes an artifact, and gives its outcome back.
LEMMA SubmitKeeps ==
  ASSUME VisionInv, NEW e \in Events, NEW a \in Artifacts, Submit(e, a)
  PROVE  VisionInv' /\ Kept
<1>. DEFINE w == [Idle EXCEPT !.pc = "queued"]
<1>1. /\ phase = "running" /\ row[e][a].status \in {"pending", "located"} /\ SetWorker(e, a, w)
      /\ UNCHANGED <<phase, refining, restarts, second, job, owed, row>>
  BY DEF Submit, Ready
<1>2. w \in Thread /\ w.rev = 0 /\ w.pc = "queued"
  BY TargetType DEF Idle, Thread, Targets
<1>3. Handled(a, row[e][a], w)
  BY <1>1, <1>2 DEF Handled
<1>. QED
  BY <1>1, <1>2, <1>3, PlaceKeeps

LEMMA CollectKeeps ==
  ASSUME VisionInv, NEW e \in Events, NEW a \in Artifacts, Collect(e, a)
  PROVE  VisionInv' /\ Kept
<1>. DEFINE r0 == row[e][a]
            r == row'[e][a]
<1>1. /\ phase # "down" /\ worker[e][a].pc \in {"done", "escaped"} /\ SetWorker(e, a, Idle)
      /\ UNCHANGED <<phase, refining, restarts, second, job, owed>>
  BY DEF Collect, MainUnchanged
<1>2. Idle \in Thread /\ Idle.rev = 0 /\ Idle.pc = "none"
  BY TargetType DEF Idle, Thread, Targets
<1>3. r0 \in Row /\ Handled(a, r0, worker[e][a]) /\ (r0.fenced => r0.status = "failed")
  BY <1>1, Here
<1>4. At(r0, "failed") \in Row /\ At(r0, "failed").status = "failed"
      /\ At(r0, "failed").rev = r0.rev /\ At(r0, "failed").fenced = r0.fenced
  BY <1>3 DEF At, Row, Settled
<1>5. /\ row' \in Rows
      /\ r = r0 \/ (r = At(r0, "failed") /\ r0.status \in Incomplete)
      /\ worker[e][a].pc = "escaped" => r.status \notin Incomplete
      /\ \A f \in Events, b \in Artifacts : f # e \/ b # a => row'[f][b] = row[f][b]
  <2>1. CASE worker[e][a].pc = "escaped" /\ r0.status \in Incomplete
    BY <1>4, <2>1, OneRow DEF Collect, Incomplete
  <2>2. CASE ~(worker[e][a].pc = "escaped" /\ r0.status \in Incomplete)
    BY <2>2 DEF Collect, VisionInv, TypeOK, Rows
  <2>. QED
    BY <2>1, <2>2
<1>6. /\ worker' \in Threads /\ worker'[e][a] = Idle
      /\ \A f \in Events, b \in Artifacts : f # e \/ b # a => worker'[f][b] = worker[f][b]
  BY <1>1, <1>2, OnePlace
<1>7. TypeOK'
  BY <1>1, <1>5, <1>6 DEF VisionInv, TypeOK, Rows, Threads
<1>8. second[e] >= 0 /\ job[e].rev >= 0
  BY DEF VisionInv, TypeOK, Targets
<1>9. FenceClosed' /\ RevisionsCounted'
  BY <1>1, <1>2, <1>3, <1>4, <1>5, <1>6, <1>8 DEF VisionInv, FenceClosed, RevisionsCounted
<1>10. AllHandled'
  <2>1. r.status \notin {"locating", "encoding"}
    BY <1>1, <1>3, <1>4, <1>5 DEF Handled, Incomplete
  <2>2. Handled(a, r, Idle)
    BY <1>2, <2>1 DEF Handled
  <2>. QED
    BY <1>1, <1>5, <1>6, <2>2 DEF VisionInv, AllHandled
<1>11. DownForgets' /\ OwedOK'
  BY <1>1 DEF VisionInv, DownForgets, OwedOK
<1>12. RevisionsAgree'
  <2>1. r.rev = r0.rev /\ (r.status \in Incomplete => r0.status \in Incomplete)
        /\ (r0.status = "absent" => r.status = "absent")
    BY <1>4, <1>5 DEF Incomplete
  <2>2. \A f \in Events : AgreesOn(f)
    BY DEF VisionInv, RevisionsAgree
  <2>3. AgreesOn(e)'
    BY <1>1, <1>2, <1>5, <1>6, <1>8, <2>1, <2>2, TwoArtifacts DEF AgreesOn
  <2>4. \A f \in Events : f # e => AgreesOn(f)'
    BY <1>1, <1>5, <1>6, <2>2, TwoArtifacts DEF AgreesOn
  <2>. QED
    BY <2>3, <2>4 DEF RevisionsAgree
<1>13. Kept
  BY <1>4, <1>5 DEF Kept, Incomplete
<1>. QED
  BY <1>7, <1>9, <1>10, <1>11, <1>12, <1>13 DEF VisionInv

\* Time, and the fence of a match end.
LEMMA ClockKeeps ==
  ASSUME VisionInv, NEW e \in Events, NEW a \in Artifacts,
         ComesDue(e, a) \/ BudgetSpent(e, a) \/ Fence(e, a)
  PROVE  VisionInv' /\ Kept
<1>1. row[e][a] \in Row /\ (row[e][a].fenced => row[e][a].status = "failed")
  BY Here
<1>2. CASE ComesDue(e, a)
  <2>. DEFINE r == [row[e][a] EXCEPT !.due = TRUE]
  <2>1. /\ r \in Row /\ r.rev = row[e][a].rev /\ r.fenced = row[e][a].fenced
        /\ r.status = row[e][a].status
    BY <1>1 DEF Row
  <2>. QED
    BY <1>1, <1>2, <2>1, RowKeeps DEF ComesDue, MainUnchanged
<1>3. CASE BudgetSpent(e, a)
  <2>. DEFINE r == [row[e][a] EXCEPT !.spent = TRUE]
  <2>1. /\ r \in Row /\ r.rev = row[e][a].rev /\ r.fenced = row[e][a].fenced
        /\ r.status = row[e][a].status
    BY <1>1 DEF Row
  <2>. QED
    BY <1>1, <1>3, <2>1, RowKeeps DEF BudgetSpent, MainUnchanged
<1>4. CASE Fence(e, a)
  <2>. DEFINE r == [At(row[e][a], "failed") EXCEPT !.fenced = TRUE]
  <2>1. r \in Row /\ r.rev = row[e][a].rev /\ r.fenced /\ r.status = "failed"
    BY <1>1 DEF At, Row, Settled
  <2>. QED
    BY <1>4, <2>1, RowKeeps DEF Fence, MainUnchanged
<1>. QED
  BY <1>2, <1>3, <1>4

\* The Worker stops, or it is gone.
LEMMA StopKeeps ==
  ASSUME VisionInv, NEW terminal \in BOOLEAN, Stop(terminal)
  PROVE  VisionInv' /\ Kept
<1>. DEFINE left(e, a) == IF worker[e][a].pc = "queued" THEN Idle ELSE worker[e][a]
<1>1. /\ phase = "running" /\ phase' \in {"fencing", "stopping"}
      /\ UNCHANGED <<refining, restarts, second, job, owed, row>>
      /\ worker' = [e \in Events |-> [a \in Artifacts |-> left(e, a)]]
  BY DEF Stop
<1>2. Idle \in Thread /\ Idle.rev = 0 /\ Idle.pc = "none"
  BY TargetType DEF Idle, Thread, Targets
<1>3. \A e \in Events, a \in Artifacts : worker'[e][a] = left(e, a)
  BY <1>1
<1>4. TypeOK'
  BY <1>1, <1>2 DEF VisionInv, TypeOK
<1>5. \A e \in Events : second[e] >= 0 /\ job[e].rev >= 0
  BY DEF VisionInv, TypeOK, Targets
<1>6. FenceClosed' /\ RevisionsCounted'
  BY <1>1, <1>2, <1>3, <1>5 DEF VisionInv, FenceClosed, RevisionsCounted
<1>7. AllHandled' /\ DownForgets' /\ OwedOK'
  BY <1>1, <1>2, <1>3 DEF VisionInv, AllHandled, Handled, DownForgets, OwedOK
<1>8. RevisionsAgree'
  <2>1. \A e \in Events : AgreesOn(e)
    BY DEF VisionInv, RevisionsAgree
  <2>2. \A e \in Events : worker'[e][Ocr].rev <= job[e].rev
    BY <1>1, <1>2, <1>3, <1>5, <2>1, TwoArtifacts DEF AgreesOn
  <2>. QED
    BY <1>1, <2>1, <2>2 DEF RevisionsAgree, AgreesOn
<1>9. Kept
  BY <1>1 DEF Kept
<1>. QED
  BY <1>4, <1>6, <1>7, <1>8, <1>9 DEF VisionInv

LEMMA DownKeeps ==
  ASSUME VisionInv, Down
  PROVE  VisionInv' /\ Kept
<1>1. /\ phase' = "down" /\ UNCHANGED <<refining, second, row>>
      /\ \A e \in Events : job'[e] = NoJob /\ owed'[e] = {}
      /\ \A e \in Events, a \in Artifacts : worker'[e][a] = Idle
  BY DEF Down
<1>2. /\ Idle \in Thread /\ Idle.rev = 0
      /\ NoJob \in [known : BOOLEAN, rev : Targets, second : Targets]
      /\ NoJob.rev = 0 /\ NoJob.second = 0
  BY TargetType DEF Idle, Thread, NoJob, Targets
<1>3. restarts' \in 0 .. MaxRestarts
  BY RestartsType DEF Down, VisionInv, TypeOK
<1>4. TypeOK'
  BY <1>1, <1>2, <1>3 DEF Down, VisionInv, TypeOK
<1>5. FenceClosed' /\ AllHandled' /\ DownForgets' /\ OwedOK'
  <2>1. FenceClosed' /\ AllHandled' /\ DownForgets'
    BY <1>1 DEF VisionInv, FenceClosed, AllHandled, DownForgets
  <2>2. OwedOK'
    BY <1>1 DEF OwedOK
  <2>. QED
    BY <2>1, <2>2
<1>6. RevisionsCounted'
  <2>1. \A e \in Events : second[e] >= 0
    BY DEF VisionInv, TypeOK, Targets
  <2>. QED
    BY <1>1, <1>2, <2>1 DEF VisionInv, RevisionsCounted
<1>7. RevisionsAgree'
  BY <1>1 DEF VisionInv, RevisionsAgree, AgreesOn
<1>8. Kept
  BY <1>1 DEF Kept
<1>. QED
  BY <1>4, <1>5, <1>6, <1>7, <1>8 DEF VisionInv

\* What a restart makes of a row.
Reopens(r0, r) ==
  /\ r \in Row /\ r.rev = r0.rev /\ r.fenced = r0.fenced
  /\ r.status \notin {"locating", "encoding"}
  /\ r0.status \notin Incomplete => r = r0
  /\ r.status \in Incomplete => r0.status \in Incomplete
  /\ r.status = "absent" <=> r0.status = "absent"

\* The Worker starts again from its rows.
LEMMA RestartKeeps ==
  ASSUME VisionInv, Restart
  PROVE  VisionInv' /\ Kept
<1>1. PICK enabled \in RefiningChoices :
        /\ refining' = enabled
        /\ row' = [e \in Events |-> OpenedBy(enabled, e)]
        /\ job' = [e \in Events |->
                     IF row[e][Ocr].status = "absent" THEN NoJob
                     ELSE [known |-> TRUE, rev |-> row[e][Seed(enabled, e)].rev,
                           second |-> second[e]]]
  BY DEF Restart
<1>2. /\ phase = "down" /\ phase' = "running"
      /\ UNCHANGED <<restarts, second, owed, worker>>
      /\ \A e \in Events : job[e] = NoJob /\ owed[e] = {}
      /\ \A e \in Events, a \in Artifacts : worker[e][a] = Idle
  BY DEF Restart, VisionInv, DownForgets
<1>3. Idle.rev = 0 /\ Idle.pc = "none"
  BY DEF Idle
<1>4. \A e \in Events, a \in Artifacts : Reopens(row[e][a], row'[e][a])
  <2>. SUFFICES ASSUME NEW e \in Events, NEW a \in Artifacts
                PROVE  Reopens(row[e][a], row'[e][a])
    OBVIOUS
  <2>1. row[e][a] \in Row
    BY Here
  <2>2. CASE a = Tdeed /\ ~enabled /\ row[e][a].status \in Incomplete
    <3>1. row'[e][a] = At(row[e][a], "failed")
      BY <1>1, <2>2 DEF OpenedBy
    <3>. QED
      BY <2>1, <2>2, <3>1 DEF Reopens, At, Row, Settled, Incomplete
  <2>3. CASE ~(a = Tdeed /\ ~enabled /\ row[e][a].status \in Incomplete)
    <3>1. row'[e][a] = Recovered(row[e][a])
      BY <1>1, <2>3 DEF OpenedBy
    <3>. QED
      BY <2>1, <3>1 DEF Reopens, Recovered, At, Row, Incomplete
  <2>. QED
    BY <2>2, <2>3
<1>5. \A e \in Events : ~enabled => row'[e][Tdeed].status \notin Incomplete
  <2>. SUFFICES ASSUME NEW e \in Events, ~enabled
                PROVE  row'[e][Tdeed].status \notin Incomplete
    OBVIOUS
  <2>1. CASE row[e][Tdeed].status \in Incomplete
    <3>1. row'[e][Tdeed] = At(row[e][Tdeed], "failed") /\ row[e][Tdeed] \in Row
      BY <1>1, <2>1, Here, TwoArtifacts DEF OpenedBy
    <3>. QED
      BY <3>1 DEF At, Row, Incomplete
  <2>2. CASE row[e][Tdeed].status \notin Incomplete
    BY <1>4, <2>2, TwoArtifacts DEF Reopens
  <2>. QED
    BY <2>1, <2>2
<1>6. \A e \in Events :
        /\ row[e][Ocr].status = "absent" => job'[e] = NoJob
        /\ row[e][Ocr].status # "absent" =>
             /\ job'[e].known /\ job'[e].second = second[e]
             /\ job'[e].rev = row[e][Seed(enabled, e)].rev
        /\ Seed(enabled, e) \in Artifacts
        /\ job'[e] \in [known : BOOLEAN, rev : Targets, second : Targets]
  <2>. SUFFICES ASSUME NEW e \in Events
                PROVE  /\ row[e][Ocr].status = "absent" => job'[e] = NoJob
                       /\ row[e][Ocr].status # "absent" =>
                            /\ job'[e].known /\ job'[e].second = second[e]
                            /\ job'[e].rev = row[e][Seed(enabled, e)].rev
                       /\ Seed(enabled, e) \in Artifacts
                       /\ job'[e] \in [known : BOOLEAN, rev : Targets, second : Targets]
    OBVIOUS
  <2>1. Seed(enabled, e) \in Artifacts
    BY TwoArtifacts DEF Seed
  <2>2. row[e][Seed(enabled, e)].rev \in Targets /\ second[e] \in Targets
    BY <2>1, Here DEF VisionInv, TypeOK, Row
  <2>3. NoJob \in [known : BOOLEAN, rev : Targets, second : Targets]
    BY TargetType DEF NoJob, Targets
  <2>. QED
    BY <1>1, <2>1, <2>2, <2>3
<1>7. TypeOK'
  <2>1. refining' \in BOOLEAN
    BY <1>1, RefiningType
  <2>2. job' \in [Events -> [known : BOOLEAN, rev : Targets, second : Targets]]
    BY <1>1, <1>6
  <2>3. row' \in [Events -> [Artifacts -> Row]]
    BY <1>1, <1>4 DEF OpenedBy, Reopens
  <2>. QED
    BY <1>2, <2>1, <2>2, <2>3 DEF VisionInv, TypeOK
<1>8. FenceClosed'
  BY <1>4, TwoArtifacts DEF Reopens, VisionInv, FenceClosed, Incomplete
<1>9. RevisionsCounted'
  <2>1. \A e \in Events, a \in Artifacts : row[e][a].rev <= second[e]
    BY DEF VisionInv, RevisionsCounted
  <2>2. \A e \in Events : second[e] \in Nat /\ NoJob.rev = 0 /\ NoJob.second = 0
    BY TargetType DEF VisionInv, TypeOK, Targets, NoJob
  <2>3. \A e \in Events : job'[e].rev <= job'[e].second /\ job'[e].second <= second[e]
    BY <1>6, <2>1, <2>2
  <2>. QED
    BY <1>2, <1>3, <1>4, <2>1, <2>2, <2>3 DEF RevisionsCounted, Reopens
<1>10. AllHandled' /\ DownForgets'
  <2>1. \A e \in Events, a \in Artifacts : Handled(a, row'[e][a], Idle)
    BY <1>3, <1>4 DEF Reopens, Handled
  <2>. QED
    BY <1>2, <2>1 DEF AllHandled, DownForgets
<1>11. OwedOK'
  BY <1>2 DEF OwedOK
<1>12. RevisionsAgree'
  <2>. SUFFICES ASSUME NEW e \in Events
                PROVE  AgreesOn(e)'
    BY DEF RevisionsAgree
  <2>1. /\ row[e][Tdeed].status \in Incomplete => row[e][Ocr].rev <= row[e][Tdeed].rev + 1
        /\ \A a \in Artifacts : row[e][a].rev \in Nat
    BY Here, TwoArtifacts, TargetType DEF VisionInv, RevisionsAgree, AgreesOn, Row, Targets
  <2>2. /\ row'[e][Ocr].rev = row[e][Ocr].rev /\ row'[e][Tdeed].rev = row[e][Tdeed].rev
        /\ row'[e][Tdeed].status \in Incomplete => row[e][Tdeed].status \in Incomplete /\ enabled
        /\ row'[e][Ocr].status = "absent" <=> row[e][Ocr].status = "absent"
    BY <1>4, <1>5, TwoArtifacts DEF Reopens
  <2>3. /\ worker'[e][Ocr].rev = 0 /\ owed'[e] = {} /\ phase' = "running"
        /\ refining' = enabled /\ NoJob.rev = 0 /\ ~NoJob.known
    BY <1>1, <1>2, <1>3, TwoArtifacts DEF NoJob
  <2>4. CASE row[e][Ocr].status = "absent"
    <3>1. ~job'[e].known /\ job'[e].rev = 0
      BY <1>6, <2>3, <2>4
    <3>. QED
      BY <1>5, <2>1, <2>2, <2>3, <2>4, <3>1, TwoArtifacts DEF AgreesOn
  <2>5. CASE row[e][Ocr].status # "absent"
    <3>1. job'[e].known /\ job'[e].rev = row[e][Seed(enabled, e)].rev
      BY <1>6, <2>5
    <3>2. /\ row'[e][Tdeed].status \in Incomplete => Seed(enabled, e) = Tdeed
          /\ Seed(enabled, e) \in {Ocr, Tdeed}
          /\ Seed(enabled, e) = Tdeed => row[e][Tdeed].status \in Incomplete
      BY <2>2, TwoArtifacts DEF Seed
    <3>3. CASE Seed(enabled, e) = Ocr
      BY <1>5, <2>1, <2>2, <2>3, <2>5, <3>1, <3>2, <3>3, TwoArtifacts DEF AgreesOn
    <3>4. CASE Seed(enabled, e) = Tdeed
      BY <1>5, <2>1, <2>2, <2>3, <2>5, <3>1, <3>2, <3>4, TwoArtifacts DEF AgreesOn
    <3>. QED
      BY <3>2, <3>3, <3>4
  <2>. QED
    BY <2>4, <2>5
<1>13. Kept
  BY <1>4 DEF Kept, Reopens, Incomplete
<1>. QED
  BY <1>7, <1>8, <1>9, <1>10, <1>11, <1>12, <1>13 DEF VisionInv

LEMMA FencedKeeps ==
  ASSUME VisionInv, Fenced
  PROVE  VisionInv' /\ Kept
<1>1. /\ phase = "fencing" /\ phase' = "stopping"
      /\ UNCHANGED <<refining, restarts, second, job, owed, row, worker>>
  BY DEF Fenced
<1>2. TypeOK' /\ FenceClosed' /\ RevisionsCounted' /\ AllHandled' /\ DownForgets' /\ OwedOK'
  <2>1. TypeOK'
    BY <1>1 DEF VisionInv, TypeOK
  <2>2. FenceClosed' /\ RevisionsCounted'
    BY <1>1 DEF VisionInv, FenceClosed, RevisionsCounted
  <2>3. AllHandled' /\ DownForgets'
    BY <1>1 DEF VisionInv, AllHandled, DownForgets
  <2>4. OwedOK'
    BY <1>1 DEF VisionInv, OwedOK
  <2>. QED
    BY <2>1, <2>2, <2>3, <2>4
<1>3. RevisionsAgree'
  BY <1>1 DEF VisionInv, RevisionsAgree, AgreesOn
<1>4. Kept
  BY <1>1 DEF Kept
<1>. QED
  BY <1>2, <1>3, <1>4 DEF VisionInv

\* Every step, and no step.
LEMMA NextKeeps ==
  ASSUME VisionInv, [Next]_vars
  PROVE  VisionInv' /\ Kept
<1>1. ASSUME NEW e \in Events, MainStep(e)
      PROVE  VisionInv' /\ Kept
  BY <1>1, EnqueueKeeps, SecondKeeps, RefreshKeeps, ResetOcrKeeps, ResetTdeedKeeps,
     SubmitKeeps, CollectKeeps, ClockKeeps DEF MainStep
<1>2. ASSUME NEW e \in Events, NEW a \in Artifacts, ThreadStep(e, a)
      PROVE  VisionInv' /\ Kept
  BY <1>2, ThreadKeeps DEF Kept
<1>3. CASE UNCHANGED vars
  <2>1. TypeOK' /\ FenceClosed' /\ RevisionsCounted' /\ AllHandled' /\ DownForgets' /\ OwedOK'
    <3>1. TypeOK'
      BY <1>3 DEF vars, VisionInv, TypeOK
    <3>2. FenceClosed' /\ RevisionsCounted'
      BY <1>3 DEF vars, VisionInv, FenceClosed, RevisionsCounted
    <3>3. AllHandled' /\ DownForgets'
      BY <1>3 DEF vars, VisionInv, AllHandled, DownForgets
    <3>4. OwedOK'
      BY <1>3 DEF vars, VisionInv, OwedOK
    <3>. QED
      BY <3>1, <3>2, <3>3, <3>4
  <2>2. RevisionsAgree' /\ Kept
    BY <1>3 DEF vars, VisionInv, RevisionsAgree, AgreesOn, Kept
  <2>. QED
    BY <2>1, <2>2 DEF VisionInv
<1>. QED
  BY <1>1, <1>2, <1>3, ClockKeeps, StopKeeps, FencedKeeps, DownKeeps, RestartKeeps DEF Next

LEMMA VisionInvariant == Spec => []VisionInv
BY InitVision, NextKeeps, PTL DEF Spec

\* The rows, the job and the threads have their types in every state.
THEOREM TypeCorrect == Spec => []TypeOK
<1>1. VisionInv => TypeOK
  BY DEF VisionInv
<1>. QED
  BY <1>1, VisionInvariant, PTL

\* No late result of a thread, no revision of the target and no restart opens a
\* row again that the match end closed.
THEOREM FenceStays == Spec => FenceHolds
<1>1. VisionInv /\ [Next]_vars =>
        [\A e \in Events, a \in Artifacts : row[e][a].fenced => row'[e][a].fenced
           /\ row'[e][a].status = "failed"]_vars
  BY NextKeeps DEF Kept, VisionInv, FenceClosed
<1>. QED
  BY <1>1, VisionInvariant, PTL DEF Spec, FenceHolds

\* An artifact that was encoded is given up for a newer target only, by whichever
\* of the main loop and the threads writes its row.
THEOREM EncodedStays == Spec => EncodedUntilRevised
<1>1. VisionInv /\ [Next]_vars =>
        [\A e \in Events, a \in Artifacts :
           row[e][a].status = "encoded" /\ row'[e][a].status # "encoded" =>
             row'[e][a].rev > row[e][a].rev]_vars
  BY NextKeeps DEF Kept
<1>. QED
  BY <1>1, VisionInvariant, PTL DEF Spec, EncodedUntilRevised

\* No row of a living process says that somebody searches or encodes when no
\* thread does.
THEOREM WorkIsHeld == Spec => []WorkedOn
<1>1. VisionInv => WorkedOn
  BY DEF VisionInv, AllHandled, Handled, WorkedOn
<1>. QED
  BY <1>1, VisionInvariant, PTL

-------------------------------------------------------------------------------
(* The encodings.  *)
\* A behaviour of MCPipeline that follows the encodings is one of MatchWorker.
LEMMA EncodingBehaves == MCSpec => Encoding!Spec
<1>1. MCInit => Encoding!Init
  BY DEF MCInit
<1>2. [MCNext]_MCVars => [Encoding!Next]_Encoding!vars
  BY DEF MCNext, MCVars, wVars, Encoding!vars, Encoding!durable, Encoding!world,
         Encoding!memory
<1>. QED
  BY <1>1, <1>2, PTL DEF MCSpec, Encoding!Spec

\* Whoever runs FFmpeg for an event's GIF is alone and the store says so, and no
\* future of the pool is without its job, for any events and any number of threads
\* (encode_event_job, the eviction of finished jobs, the drain).
THEOREM TwoEncodersHolds == MCSpec => []TwoEncoders
<1>1. Encoding!Spec => []Encoding!EncodersRecorded
  BY StagesAssumption, Encoding!EncodersRecordedHolds
<1>2. Encoding!Spec => []Encoding!FutureHasJob
  BY StagesAssumption, Encoding!FutureHasJobHolds
<1>3. Encoding!EncodersRecorded /\ Encoding!FutureHasJob => TwoEncoders
  BY DEF TwoEncoders
<1>. QED
  BY <1>1, <1>2, <1>3, EncodingBehaves, PTL

-------------------------------------------------------------------------------
(* The deletion of segments.  Why the pruning pass never deletes what is in use,  *)
(* although it works from a copy of the leases: a lease that is not in the copy   *)
(* was taken by the vision thread of a task that is still open, for segments      *)
(* after the oldest second that task may look at, where the pass does not delete. *)
ThreadStages == {"idle", "read", "locating", "located", "readOutput", "output", "encoding"}
RetentionShape ==
  /\ rNow \in Nat
  /\ rFiles \subseteq Retention!Segs
  /\ rLease \in [Retention!Owners -> [Retention!Segs -> Nat]]
  /\ rTask \in [status : {"none", "open", "done"}, lo : Nat, hi : Nat, out : Nat, left : Nat]
  /\ rThread \in [at : ThreadStages, picks : SUBSET Retention!Segs, left : Nat]
  /\ rPass \in [at : {"idle", "leased", "pruning", "closing"}, kept : SUBSET Retention!Segs]

\* The oldest second an unfinished task may look at.
Floor == Retention!Before(rTask.lo, LookBack)

\* What the thread works on, stage by stage, is of its task and above the floor.
ThreadOnTask ==
  /\ rTask.status = "none" => rTask.out = 0 /\ rThread.at = "idle"
  /\ rTask.out # 0 => rTask.lo <= rTask.out
  /\ rThread.at = "idle" => rThread.picks = {}
  /\ rThread.at \in {"read", "locating"} => rTask.out = 0
  /\ rThread.at \in {"located", "readOutput"} => rTask.out # 0
  /\ \A s \in rThread.picks : s > Floor

\* The leases that the pass has not seen.
Unseen(o) == {s \in Retention!Segs : rLease[o][s] > 0 /\ s \notin rPass.kept}
UnseenAboveFloor ==
  /\ rPass.at \in {"leased", "pruning"} => rWorker = "up"
  /\ rPass.at = "pruning" =>
       /\ Unseen("event") = {}
       /\ \A o \in {"output", "work"} :
            Unseen(o) # {} => Retention!Open /\ \A s \in Unseen(o) : s > Floor
       /\ rTask.out = 0 => Unseen("output") = {}
       /\ rTask.out = 0 /\ rThread.at \in {"idle", "read"} => Unseen("work") = {}

RetentionInv == RetentionShape /\ ThreadOnTask /\ UnseenAboveFloor

\* The constants, for the proofs below.
LEMMA RetentionConstants ==
  /\ MaxTime \in Nat /\ Buffer \in Nat /\ SearchBefore \in Nat /\ ClipBefore \in Nat
  /\ LookBack \in Nat /\ After \in Nat /\ Budget \in Nat /\ Ttl \in Nat \ {0}
  /\ ClipBefore <= LookBack
BY StagesAssumption DEF Retention!RetentionAssumption

\* Taking away from naturals and comparing them stays within them.
LEMMA BeforeType ==
  ASSUME NEW i \in Nat, NEW d \in Nat
  PROVE  /\ Retention!Before(i, d) \in Nat
         /\ Retention!Before(i, d) <= i
         /\ \A j \in Nat : Retention!Larger(i, j) \in Nat /\ Retention!Smaller(i, j) \in Nat
BY DEF Retention!Before, Retention!Larger, Retention!Smaller

\* A window of the clip does not begin below the floor of its task.
LEMMA OutputAboveFloor ==
  ASSUME RetentionInv, rTask.out # 0, NEW s \in Retention!Segs, s > Retention!OutputStart
  PROVE  s > Floor
<1>1. rTask.lo \in Nat /\ rTask.out \in Nat /\ rTask.lo <= rTask.out /\ s \in Nat
  BY RetentionConstants DEF RetentionInv, RetentionShape, ThreadOnTask, Retention!Segs
<1>. QED
  BY <1>1, RetentionConstants DEF Retention!OutputStart, Floor, Retention!Before

\* What changes neither task, thread, leases nor pass changes nothing of the invariant.
LEMMA RetentionQuiet ==
  ASSUME RetentionInv, UNCHANGED <<rLease, rTask, rThread, rPass, rWorker>>,
         rNow' \in Nat, rFiles' \subseteq Retention!Segs
  PROVE  RetentionInv'
BY DEF RetentionInv, RetentionShape, ThreadOnTask, UnseenAboveFloor, Unseen, Floor,
       Retention!Open

\* Time, the stream and what happens to the match.
LEMMA WorldRetention ==
  ASSUME RetentionInv,
         \/ Retention!Tick \/ Retention!IngestExit \/ Retention!IngestRestart
         \/ Retention!MatchEnds \/ Retention!DashboardReclaims
  PROVE  RetentionInv'
<1>1. CASE Retention!Tick
  <2>1. rNow' \in Nat /\ rNow' = Retention!Smaller(rNow + 1, MaxTime)
    BY <1>1, RetentionConstants DEF Retention!Tick, Retention!Smaller, RetentionInv, RetentionShape
  <2>2. rFiles' \subseteq Retention!Segs
    BY <1>1, <2>1, RetentionConstants
       DEF Retention!Tick, Retention!Smaller, RetentionInv, RetentionShape, Retention!Segs
  <2>3. /\ rTask' = [rTask EXCEPT !.left = Retention!Before(rTask.left, 1)]
        /\ rThread' = [rThread EXCEPT !.left = Retention!Before(rThread.left, 1)]
        /\ rLease' = [o \in Retention!Owners |->
                        [s \in Retention!Segs |-> Retention!Before(rLease[o][s], 1)]]
        /\ UNCHANGED <<rPass, rWorker>>
    BY <1>1 DEF Retention!Tick
  <2>4. RetentionShape'
    BY <2>1, <2>2, <2>3, BeforeType DEF RetentionInv, RetentionShape
  <2>5. \A o \in Retention!Owners : Unseen(o)' \subseteq Unseen(o)
    BY <2>3 DEF Unseen, Retention!Before, RetentionInv, RetentionShape
  <2>6. /\ rTask'.status = rTask.status /\ rTask'.lo = rTask.lo /\ rTask'.out = rTask.out
        /\ rThread'.at = rThread.at /\ rThread'.picks = rThread.picks
    BY <2>3 DEF RetentionInv, RetentionShape
  <2>7. ThreadOnTask'
    BY <2>6 DEF RetentionInv, ThreadOnTask, Floor
  <2>8. UnseenAboveFloor'
    BY <2>3, <2>5, <2>6
       DEF RetentionInv, UnseenAboveFloor, Floor, Retention!Open, Retention!Owners
  <2>. QED
    BY <2>4, <2>7, <2>8 DEF RetentionInv
<1>2. CASE \/ Retention!IngestExit \/ Retention!IngestRestart \/ Retention!MatchEnds
           \/ Retention!DashboardReclaims
  <2>1. UNCHANGED <<rLease, rTask, rThread, rPass, rWorker, rNow>>
    BY <1>2 DEF Retention!IngestExit, Retention!IngestRestart, Retention!MatchEnds,
                Retention!DashboardReclaims, Retention!media
  <2>2. rFiles' \subseteq rFiles
    BY <1>2 DEF Retention!IngestExit, Retention!IngestRestart, Retention!MatchEnds,
                Retention!DashboardReclaims, Retention!Cleanup, Retention!media
  <2>. QED
    BY <2>1, <2>2, RetentionQuiet DEF RetentionInv, RetentionShape
<1>. QED
  BY <1>1, <1>2

\* The main loop: an event is discovered, leases are renewed, and the pass deletes.
LEMMA LoopRetention ==
  ASSUME RetentionInv,
         \/ Retention!Discover \/ Retention!LeasePass \/ Retention!ReadProtected
         \/ Retention!PruneBuffer
  PROVE  RetentionInv'
<1> USE DEF RetentionInv
<1>1. CASE Retention!Discover
  <2>1. /\ rTask.status = "none" /\ rPass.at = "idle"
        /\ UNCHANGED <<rThread, rPass, rWorker, rFiles, rNow>>
    BY <1>1 DEF Retention!Discover, Retention!media
  <2>2. PICK anchor \in Retention!Before(rNow, Buffer)..rNow :
          LET lo == Retention!SearchStart(anchor)
              hi == anchor + After
          IN  /\ rTask' = [status |-> "open", lo |-> lo, hi |-> hi, out |-> 0,
                           left |-> Retention!Larger(Budget, Retention!Before(hi, rNow))]
              /\ rLease' = Retention!Ensured("event",
                    Retention!Readable \cap Retention!Window(Retention!Before(lo, LookBack), hi))
    BY <1>1 DEF Retention!Discover, Retention!Nil
  <2>3. anchor \in Nat /\ Retention!SearchStart(anchor) \in Nat
    BY <2>2, RetentionConstants, BeforeType
       DEF Retention!SearchStart, Retention!Larger, RetentionShape, Retention!Before
  <2>4. rTask' \in [status : {"none", "open", "done"}, lo : Nat, hi : Nat, out : Nat, left : Nat]
    BY <2>2, <2>3, RetentionConstants, BeforeType DEF Retention!Larger, Retention!Before, RetentionShape
  <2>5. rLease' \in [Retention!Owners -> [Retention!Segs -> Nat]]
    BY <2>2, RetentionConstants DEF Retention!Ensured, RetentionShape
  <2>6. RetentionShape'
    BY <2>1, <2>4, <2>5 DEF RetentionShape
  <2>7. rThread.at = "idle" /\ rThread.picks = {} /\ rTask'.out = 0 /\ rTask'.status = "open"
    BY <2>1, <2>2 DEF ThreadOnTask
  <2>8. ThreadOnTask' /\ UnseenAboveFloor'
    BY <2>1, <2>7 DEF ThreadOnTask, UnseenAboveFloor
  <2>. QED
    BY <2>6, <2>8
<1>2. CASE Retention!LeasePass
  <2>1. /\ UNCHANGED <<rThread, rTask, rWorker, rFiles, rNow>> /\ rWorker = "up"
        /\ rPass' = [Retention!NoPass EXCEPT !.at = "leased"]
        /\ rLease' = IF Retention!Open THEN Retention!Protect(Retention!Readable)
                     ELSE Retention!Released("event")
    BY <1>2 DEF Retention!LeasePass, Retention!media
  <2>2. rLease' \in [Retention!Owners -> [Retention!Segs -> Nat]]
    BY <2>1, RetentionConstants
       DEF Retention!Protect, Retention!Ensured, Retention!Released, RetentionShape
  <2>3. rPass'.at = "leased" /\ RetentionShape'
    BY <2>1, <2>2 DEF RetentionShape, Retention!NoPass
  <2>. QED
    BY <2>1, <2>3 DEF ThreadOnTask, UnseenAboveFloor, Floor
<1>3. CASE Retention!ReadProtected
  <2>1. /\ UNCHANGED <<rThread, rTask, rLease, rWorker, rFiles, rNow>> /\ rWorker = "up"
        /\ rPass' = [at |-> "pruning", kept |-> Retention!Leased]
    BY <1>3 DEF Retention!ReadProtected, Retention!media
  <2>2. \A o \in Retention!Owners : Unseen(o)' = {}
    BY <2>1 DEF Unseen, Retention!Leased
  <2>. QED
    BY <2>1, <2>2
       DEF RetentionShape, ThreadOnTask, UnseenAboveFloor, Floor, Retention!Leased, Retention!Owners
<1>4. CASE Retention!PruneBuffer
  <2>1. /\ UNCHANGED <<rThread, rTask, rLease, rWorker, rNow>>
        /\ rPass' = Retention!NoPass /\ rFiles' \subseteq rFiles
    BY <1>4 DEF Retention!PruneBuffer
  <2>. QED
    BY <2>1 DEF RetentionShape, ThreadOnTask, UnseenAboveFloor, Floor, Retention!NoPass
<1>. QED
  BY <1>1, <1>2, <1>3, <1>4

\* A thread that goes idle, its leases dropped or none of them unseen.
LEMMA ThreadRests ==
  ASSUME RetentionInv, UNCHANGED <<rPass, rWorker, rFiles, rNow>>,
         rThread' = Retention!Idle,
         rTask' \in [status : {"none", "open", "done"}, lo : Nat, hi : Nat, out : Nat, left : Nat],
         rTask.status # "none" \/ rTask' = rTask,
         rTask'.status # "none" \/ rTask' = rTask,
         rTask'.lo = rTask.lo, rTask'.out = rTask.out,
         rLease' \in [Retention!Owners -> [Retention!Segs -> Nat]],
         \A o \in Retention!Owners : Unseen(o)' \subseteq Unseen(o),
         rPass.at = "pruning" /\ (rTask'.status # "open" \/ rTask'.out = 0) => Unseen("work")' = {},
         rPass.at = "pruning" /\ rTask'.status # "open" => Unseen("output")' = {}
  PROVE  RetentionInv'
<1>1. RetentionShape'
  BY DEF RetentionInv, RetentionShape, Retention!Idle, ThreadStages
<1>2. ThreadOnTask'
  BY DEF RetentionInv, ThreadOnTask, Retention!Idle
<1>3. UnseenAboveFloor'
  BY DEF RetentionInv, UnseenAboveFloor, Retention!Idle, Floor, Retention!Open, Retention!Owners
<1>. QED
  BY <1>1, <1>2, <1>3 DEF RetentionInv

\* A thread that goes on: what it holds is above the floor of its open task.
LEMMA ThreadGoesOn ==
  ASSUME RetentionInv, UNCHANGED <<rPass, rWorker, rFiles, rNow>>, Retention!Open,
         rTask' \in [status : {"none", "open", "done"}, lo : Nat, hi : Nat, out : Nat, left : Nat],
         rTask'.status = "open", rTask'.lo = rTask.lo,
         rTask'.out # 0 => rTask'.lo <= rTask'.out,
         rThread' \in [at : ThreadStages, picks : SUBSET Retention!Segs, left : Nat],
         rThread'.at = "idle" => rThread'.picks = {},
         rThread'.at \in {"read", "locating"} => rTask'.out = 0,
         rThread'.at \in {"located", "readOutput"} => rTask'.out # 0,
         \A s \in rThread'.picks : s > Floor,
         rLease' \in [Retention!Owners -> [Retention!Segs -> Nat]],
         Unseen("event")' = Unseen("event"),
         \A o \in {"output", "work"} : \A s \in Unseen(o)' : s \in Unseen(o) \/ s > Floor,
         rPass.at = "pruning" /\ rTask'.out = 0 => Unseen("output")' = {},
         rPass.at = "pruning" /\ rTask'.out = 0 /\ rThread'.at \in {"idle", "read"} =>
           Unseen("work")' = {}
  PROVE  RetentionInv'
<1>1. RetentionShape'
  BY DEF RetentionInv, RetentionShape
<1>2. ThreadOnTask'
  BY DEF RetentionInv, ThreadOnTask, Floor
<1>3. UnseenAboveFloor'
  BY DEF RetentionInv, UnseenAboveFloor, Floor, Retention!Open
<1>. QED
  BY <1>1, <1>2, <1>3 DEF RetentionInv

\* Leases that are taken.
LEMMA Taken ==
  ASSUME RetentionShape, NEW o \in Retention!Owners, NEW paths \in SUBSET Retention!Segs,
         NEW after, after \in {Retention!Acquired(o, paths), Retention!Ensured(o, paths)}
  PROVE  /\ after \in [Retention!Owners -> [Retention!Segs -> Nat]]
         /\ \A p \in Retention!Owners : p # o => after[p] = rLease[p]
         /\ \A s \in Retention!Segs : after[o][s] > 0 => rLease[o][s] > 0 \/ s \in paths
BY RetentionConstants DEF Retention!Acquired, Retention!Ensured, RetentionShape

\* The vision thread.
LEMMA ThreadRetention ==
  ASSUME RetentionInv, Retention!ThreadNext
  PROVE  RetentionInv'
<1> USE DEF RetentionInv
<1> DEFINE Tasks == [status : {"none", "open", "done"}, lo : Nat, hi : Nat, out : Nat, left : Nat]
<1>1. CASE Retention!ReadWindow
  <2>1. /\ UNCHANGED <<rTask, rLease, rPass, rWorker, rFiles, rNow>> /\ Retention!Open
        /\ rThread.at = "idle"
    BY <1>1 DEF Retention!ReadWindow, Retention!media
  <2>2. rThread' = [at |-> IF rTask.out = 0 THEN "read" ELSE "readOutput",
                    picks |-> Retention!Readable \cap
                      (IF rTask.out = 0 THEN Retention!Window(rTask.lo, rTask.hi)
                       ELSE Retention!Window(Retention!OutputStart, Retention!OutputEnd)),
                    left |-> Ttl - 1]
    BY <1>1 DEF Retention!ReadWindow, Retention!Nil
  <2>3. rThread' \in [at : ThreadStages, picks : SUBSET Retention!Segs, left : Nat]
    BY <2>2, RetentionConstants DEF ThreadStages, Retention!Window
  <2>4. \A s \in rThread'.picks : s > Floor
    <3>1. CASE rTask.out = 0
      BY <2>2, <3>1, RetentionConstants
         DEF Retention!Window, Floor, Retention!Before, RetentionShape, Retention!Segs
    <3>2. CASE rTask.out # 0
      BY <2>2, <3>2, OutputAboveFloor DEF Retention!Window
    <3>. QED
      BY <3>1, <3>2
  <2>5. \A o \in Retention!Owners : Unseen(o)' = Unseen(o)
    BY <2>1 DEF Unseen
  <2>. QED
    BY <2>1, <2>2, <2>3, <2>4, <2>5, ThreadGoesOn
       DEF RetentionShape, ThreadOnTask, UnseenAboveFloor, Retention!Open, Retention!Owners
<1>2. CASE Retention!NothingRead
  <2>1. /\ UNCHANGED <<rLease, rPass, rWorker, rFiles, rNow>> /\ rThread' = Retention!Idle
        /\ rThread.at = "read"
        /\ rTask' = rTask \/ rTask' = [rTask EXCEPT !.status = "done"]
    BY <1>2 DEF Retention!NothingRead, Retention!media, Retention!Wait, Retention!Settle
  <2>2. rTask' \in Tasks /\ rTask.out = 0 /\ rTask'.lo = rTask.lo /\ rTask'.out = rTask.out
        /\ rTask.status # "none" /\ (rTask'.status # "none" \/ rTask' = rTask)
    BY <2>1 DEF RetentionShape, ThreadOnTask
  <2>3. \A o \in Retention!Owners : Unseen(o)' = Unseen(o)
    BY <2>1 DEF Unseen
  <2>4. rPass.at = "pruning" => Unseen("work") = {} /\ Unseen("output") = {}
    BY <2>1, <2>2 DEF UnseenAboveFloor
  <2>. QED
    BY <2>1, <2>2, <2>3, <2>4, ThreadRests DEF RetentionShape, Retention!Owners
<1>3. CASE Retention!LeasePicks \/ Retention!StartEncoding
  <2>1. /\ UNCHANGED <<rTask, rPass, rWorker, rFiles, rNow>> /\ Retention!Open
        /\ rThread.at \in {"read", "output"}
        /\ rLease' = Retention!Acquired("work", rThread.picks)
        /\ \E at \in {"locating", "encoding"} :
             /\ at = "locating" => rThread.at = "read"
             /\ rThread' = [rThread EXCEPT !.at = at, !.left = Ttl - 1]
    BY <1>3 DEF Retention!LeasePicks, Retention!StartEncoding, Retention!media
  <2>2. /\ rThread' \in [at : ThreadStages, picks : SUBSET Retention!Segs, left : Nat]
        /\ rThread'.picks = rThread.picks /\ rThread'.at \in {"locating", "encoding"}
        /\ rThread'.at = "locating" => rThread.at = "read"
    <3>1. PICK at \in {"locating", "encoding"} :
            /\ at = "locating" => rThread.at = "read"
            /\ rThread' = [rThread EXCEPT !.at = at, !.left = Ttl - 1]
      BY <2>1
    <3>2. Ttl - 1 \in Nat /\ at \in ThreadStages
      BY RetentionConstants DEF ThreadStages
    <3>. QED
      BY <3>1, <3>2 DEF RetentionShape
  <2>3. /\ rLease' \in [Retention!Owners -> [Retention!Segs -> Nat]]
        /\ Unseen("event")' = Unseen("event") /\ Unseen("output")' = Unseen("output")
        /\ \A s \in Unseen("work")' : s \in Unseen("work") \/ s \in rThread.picks
    <3>1. rThread.picks \in SUBSET Retention!Segs /\ "work" \in Retention!Owners
      BY DEF RetentionShape, Retention!Owners
    <3>. QED
      BY <2>1, <3>1, Taken DEF Unseen, Retention!Owners
  <2>. QED
    BY <2>1, <2>2, <2>3, ThreadGoesOn
       DEF RetentionShape, ThreadOnTask, UnseenAboveFloor, Retention!Open
<1>4. CASE Retention!Locate
  <2>1. /\ UNCHANGED <<rLease, rPass, rWorker, rFiles, rNow>> /\ Retention!Open
        /\ rThread.at = "locating" /\ rThread' = [rThread EXCEPT !.at = "located"]
    BY <1>4 DEF Retention!Locate, Retention!media
  <2>2. PICK found \in Retention!Segs :
          found \in rTask.lo..rTask.hi /\ rTask' = [rTask EXCEPT !.out = found]
    BY <1>4 DEF Retention!Locate
  <2>3. found \in Nat /\ found # 0 /\ rTask.lo <= found
    BY <2>2, RetentionConstants DEF RetentionShape, Retention!Segs
  <2>6. /\ rTask' \in Tasks /\ rTask'.lo = rTask.lo /\ rTask'.out = found
        /\ rTask'.status = rTask.status
    BY <2>2, <2>3 DEF RetentionShape
  <2>4. /\ rThread' \in [at : ThreadStages, picks : SUBSET Retention!Segs, left : Nat]
        /\ rThread'.at = "located" /\ rThread'.picks = rThread.picks
    BY <2>1 DEF RetentionShape, ThreadStages
  <2>5. \A o \in Retention!Owners : Unseen(o)' = Unseen(o)
    BY <2>1 DEF Unseen
  <2>. QED
    BY <2>1, <2>3, <2>4, <2>5, <2>6, ThreadGoesOn
       DEF RetentionShape, ThreadOnTask, UnseenAboveFloor, Retention!Open, Retention!Owners
<1>5. CASE Retention!LeaseOutput
  <2> DEFINE available == Retention!Readable \cap
                            Retention!Window(Retention!OutputStart, Retention!OutputEnd)
  <2>1. /\ UNCHANGED <<rTask, rPass, rWorker, rFiles, rNow>> /\ Retention!Open
        /\ rThread.at \in {"located", "readOutput"}
        /\ rLease' = [Retention!Ensured("output", available) EXCEPT
                        !["work"] = [s \in Retention!Segs |-> 0]]
        /\ \/ rThread' = Retention!Idle
           \/ rThread' = [at |-> "output", picks |-> available, left |-> Ttl - 1]
    BY <1>5 DEF Retention!LeaseOutput, Retention!media
  <2>2. rTask.out # 0 /\ available \in SUBSET Retention!Segs /\ "output" \in Retention!Owners
    BY <2>1 DEF ThreadOnTask, Retention!Window, Retention!Owners
  <2>3. \A s \in available : s > Floor
    BY <2>2, OutputAboveFloor DEF Retention!Window
  <2> HIDE DEF available
  <2>4. /\ rLease' \in [Retention!Owners -> [Retention!Segs -> Nat]]
        /\ Unseen("event")' = Unseen("event") /\ Unseen("work")' = {}
        /\ \A s \in Unseen("output")' : s \in Unseen("output") \/ s \in available
    BY <2>1, <2>2, Taken DEF Unseen, Retention!Owners
  <2>5. /\ rThread' \in [at : ThreadStages, picks : SUBSET Retention!Segs, left : Nat]
        /\ rThread'.at \in {"idle", "output"}
        /\ rThread'.at = "idle" => rThread'.picks = {}
        /\ \A s \in rThread'.picks : s > Floor
    BY <2>1, <2>2, <2>3, RetentionConstants DEF ThreadStages, Retention!Idle
  <2>. QED
    BY <2>1, <2>2, <2>3, <2>4, <2>5, ThreadGoesOn
       DEF RetentionShape, ThreadOnTask, UnseenAboveFloor, Retention!Open
<1>6. CASE Retention!Miss
  <2>1. /\ UNCHANGED <<rPass, rWorker, rFiles, rNow>> /\ rThread' = Retention!Idle
        /\ rThread.at = "locating" /\ rLease' = Retention!Released("work")
        /\ \/ rTask' = [rTask EXCEPT !.status = "done"]
           \/ rTask' = [rTask EXCEPT !.hi =
                Retention!Smaller(Retention!Larger(rTask.hi, rNow) + 1, MaxTime)]
    BY <1>6 DEF Retention!Miss, Retention!media, Retention!Wait, Retention!Settle
  <2>2. Retention!Smaller(Retention!Larger(rTask.hi, rNow) + 1, MaxTime) \in Nat
    BY RetentionConstants DEF Retention!Smaller, Retention!Larger, RetentionShape
  <2>3. /\ rTask' \in Tasks /\ rTask.out = 0 /\ rTask'.lo = rTask.lo /\ rTask'.out = rTask.out
        /\ rTask.status # "none" /\ rTask'.status # "none"
    BY <2>1, <2>2 DEF RetentionShape, ThreadOnTask
  <2>4. /\ rLease' \in [Retention!Owners -> [Retention!Segs -> Nat]]
        /\ Unseen("event")' = Unseen("event") /\ Unseen("work")' = {}
        /\ Unseen("output")' = Unseen("output")
    BY <2>1 DEF Unseen, Retention!Owners, Retention!Released, RetentionShape
  <2>5. rPass.at = "pruning" => Unseen("output") = {}
    BY <2>3 DEF UnseenAboveFloor
  <2>. QED
    BY <2>1, <2>3, <2>4, <2>5, ThreadRests DEF Retention!Owners
<1>7. CASE Retention!EndEncoding \/ Retention!Refused
  <2>1. /\ UNCHANGED <<rPass, rWorker, rFiles, rNow>> /\ rThread' = Retention!Idle
        /\ rThread.at # "idle"
        /\ rLease' = [o \in Retention!Owners |->
                        IF o = "event" THEN rLease[o] ELSE [s \in Retention!Segs |-> 0]]
        /\ rTask' = rTask \/ rTask' = [rTask EXCEPT !.status = "done"]
    BY <1>7 DEF Retention!EndEncoding, Retention!Refused, Retention!media, Retention!Wait,
                Retention!Settle
  <2>2. /\ rTask' \in Tasks /\ rTask'.lo = rTask.lo /\ rTask'.out = rTask.out
        /\ rTask.status # "none" /\ rTask'.status # "none"
    BY <2>1 DEF RetentionShape, ThreadOnTask
  <2>3. /\ rLease' \in [Retention!Owners -> [Retention!Segs -> Nat]]
        /\ Unseen("event")' = Unseen("event") /\ Unseen("work")' = {}
        /\ Unseen("output")' = {}
    BY <2>1 DEF Unseen, Retention!Owners, RetentionShape
  <2>. QED
    BY <2>1, <2>2, <2>3, ThreadRests DEF Retention!Owners
<1>8. CASE Retention!StoreGone
  <2>1. /\ UNCHANGED <<rTask, rLease, rPass, rWorker, rFiles, rNow>>
        /\ rThread' = Retention!Idle /\ rWorker # "up"
    BY <1>8 DEF Retention!StoreGone, Retention!StoreOpen, Retention!media, Retention!Wait
  <2>2. rPass.at # "pruning"
    BY <2>1 DEF UnseenAboveFloor
  <2>3. \A o \in Retention!Owners : Unseen(o)' = Unseen(o)
    BY <2>1 DEF Unseen
  <2>. QED
    BY <2>1, <2>2, <2>3, ThreadRests DEF RetentionShape
<1>. QED
  BY <1>1, <1>2, <1>3, <1>4, <1>5, <1>6, <1>7, <1>8 DEF Retention!ThreadNext

\* The end of the match, crashes and restarts: no pruning pass is under way.
LEMMA EndRetention ==
  ASSUME RetentionInv,
         \/ Retention!Fence \/ Retention!CloseStore \/ Retention!WorkerReclaims
         \/ Retention!Dies \/ Retention!Restart
  PROVE  RetentionInv'
<1> USE DEF RetentionInv
<1>1. CASE Retention!Fence
  <2>1. /\ UNCHANGED <<rLease, rThread, rPass, rFiles, rNow>> /\ rPass.at = "idle"
        /\ rTask' = IF Retention!Open THEN [rTask EXCEPT !.status = "done"] ELSE rTask
    BY <1>1 DEF Retention!Fence
  <2>2. RetentionShape'
    BY <2>1 DEF RetentionShape
  <2>3. rTask'.lo = rTask.lo /\ rTask'.out = rTask.out
        /\ (rTask'.status = "none" => rTask.status = "none")
    BY <2>1 DEF RetentionShape
  <2>4. ThreadOnTask' /\ UnseenAboveFloor'
    BY <2>1, <2>3 DEF ThreadOnTask, UnseenAboveFloor, Floor
  <2>. QED
    BY <2>2, <2>4
<1>2. CASE Retention!CloseStore
  <2>1. /\ UNCHANGED <<rTask, rThread, rFiles, rNow>>
        /\ rPass'.at = "closing" /\ rPass' \in [at : {"closing"}, kept : SUBSET Retention!Segs]
        /\ rLease' = Retention!Released("event")
    BY <1>2 DEF Retention!CloseStore, Retention!media
  <2>. QED
    BY <2>1 DEF RetentionShape, Retention!Released, ThreadOnTask, UnseenAboveFloor, Floor
<1>3. CASE Retention!WorkerReclaims
  <2>1. /\ UNCHANGED <<rTask, rThread, rLease, rNow>> /\ rPass' = Retention!NoPass
        /\ rFiles' \subseteq rFiles
    BY <1>3 DEF Retention!WorkerReclaims, Retention!Cleanup
  <2>. QED
    BY <2>1 DEF RetentionShape, Retention!NoPass, ThreadOnTask, UnseenAboveFloor, Floor
<1>4. CASE Retention!Dies
  <2>1. /\ UNCHANGED <<rTask, rLease, rFiles, rNow>> /\ rPass' = Retention!NoPass
        /\ rThread' = Retention!Idle
    BY <1>4 DEF Retention!Dies
  <2>. QED
    BY <2>1 DEF RetentionShape, Retention!NoPass, Retention!Idle, ThreadStages, ThreadOnTask,
                UnseenAboveFloor, Floor
<1>5. CASE Retention!Restart
  <2>1. /\ UNCHANGED <<rTask, rThread, rPass, rFiles, rNow>> /\ rWorker = "gone"
        /\ \/ rLease' = rLease
           \/ \E paths \in SUBSET Retention!Segs : rLease' = Retention!Ensured("event", paths)
    BY <1>5 DEF Retention!Restart, Retention!Protect, Retention!Window
  <2>2. rLease' \in [Retention!Owners -> [Retention!Segs -> Nat]]
    BY <2>1, RetentionConstants DEF Retention!Ensured, RetentionShape
  <2>3. rPass.at \notin {"leased", "pruning"}
    BY <2>1 DEF UnseenAboveFloor
  <2>. QED
    BY <2>1, <2>2, <2>3 DEF RetentionShape, ThreadOnTask, UnseenAboveFloor, Floor
<1>. QED
  BY <1>1, <1>2, <1>3, <1>4, <1>5

\* The invariant of the deletion of segments, whatever the sizes of buffer, windows,
\* leases and budgets, as long as a clip looks back no further than the pass spares.
THEOREM RetentionInvHolds == MCSpec => []RetentionInv
<1>1. MCInit => RetentionInv
  <2> SUFFICES ASSUME Retention!Init PROVE RetentionInv
    BY DEF MCInit
  <2>. QED
    BY DEF Retention!Init, RetentionInv, RetentionShape, ThreadOnTask, UnseenAboveFloor,
           Retention!NoTask, Retention!Idle, Retention!NoPass, Retention!Nil, ThreadStages
<1>2. RetentionInv /\ [MCNext]_MCVars => RetentionInv'
  <2> SUFFICES ASSUME RetentionInv, [MCNext]_MCVars PROVE RetentionInv'
    OBVIOUS
  <2>1. CASE Retention!Next
    BY <2>1, WorldRetention, LoopRetention, ThreadRetention, EndRetention
       DEF Retention!Next, Retention!PassNext, Retention!EndNext
  <2>2. CASE UNCHANGED rVars
    BY <2>2, RetentionQuiet DEF rVars, RetentionInv, RetentionShape
  <2>. QED
    BY <2>1, <2>2 DEF MCNext, MCVars
<1>. QED
  BY <1>1, <1>2, PTL DEF MCSpec

\* No deletion takes a segment that a lease names or that the window of an
\* unfinished task still needs (prune_timeline_and_segments, active_segment_leases).
THEOREM NeededSegmentsStayHolds == MCSpec => NeededSegmentsStay
<1>1. RetentionInv /\ [MCNext]_MCVars =>
        [focus = "retention" => Retention!KeepsLeased /\ Retention!KeepsWindow]_rVars
  <2> SUFFICES ASSUME RetentionInv, Retention!Next, NEW s \in rFiles \ rFiles'
               PROVE  /\ s \notin Retention!Leased
                      /\ rWorker = "up" => ~(Retention!Open /\ s \in Retention!TaskWindow)
    BY DEF MCNext, MCVars, rVars, Retention!KeepsLeased, Retention!KeepsWindow
  <2>1. CASE Retention!PruneBuffer
    <3>1. /\ s < Retention!Cutoff /\ s \notin rPass.kept /\ rPass.at = "pruning"
          /\ s \in Retention!Segs /\ s \in Nat
      BY <2>1 DEF Retention!PruneBuffer, RetentionInv, RetentionShape, Retention!Segs
    <3>2. /\ rNow \in Nat /\ rTask.lo \in Nat /\ rTask.out \in Nat /\ Floor \in Nat
          /\ Retention!Before(rNow, Buffer) \in Nat /\ Floor <= rTask.lo
      BY RetentionConstants, BeforeType DEF RetentionInv, RetentionShape, Floor
    <3>3. Retention!Open => s < Floor
      BY <3>1, <3>2 DEF Retention!Cutoff, Floor, Retention!Smaller
    <3>4. s \notin Retention!Leased
      <4>1. ASSUME NEW o \in Retention!Owners, rLease[o][s] > 0 PROVE FALSE
        <5>1. s \in Unseen(o)
          BY <3>1, <4>1 DEF Unseen
        <5>2. Retention!Open /\ s > Floor
          BY <3>1, <5>1 DEF RetentionInv, UnseenAboveFloor, Retention!Owners
        <5>. QED
          BY <3>1, <3>2, <3>3, <5>2
      <4>. QED
        BY <4>1 DEF Retention!Leased
    <3>5. ASSUME Retention!Open, s \in Retention!TaskWindow PROVE FALSE
      <4>1. s > Retention!TaskStart
        BY <3>5 DEF Retention!TaskWindow, Retention!Window
      <4>2. CASE rTask.out = 0
        BY <3>1, <3>2, <3>3, <3>5, <4>1, <4>2 DEF Retention!TaskStart, Retention!Nil
      <4>3. CASE rTask.out # 0
        <5>1. s > Retention!OutputStart \/ s > rTask.lo
          BY <3>2, <4>1, <4>3 DEF Retention!TaskStart, Retention!Nil, Retention!Smaller
        <5>2. s > Floor
          BY <3>1, <3>2, <4>3, <5>1, OutputAboveFloor
        <5>. QED
          BY <3>1, <3>2, <3>3, <3>5, <5>2
      <4>. QED
        BY <4>2, <4>3
    <3>. QED
      BY <3>4, <3>5
  <2>2. CASE Retention!WorkerReclaims \/ Retention!DashboardReclaims
    <3>1. rWorker # "up" /\ (Retention!Leased = {} \/ rFiles' = rFiles)
      BY <2>2 DEF Retention!WorkerReclaims, Retention!DashboardReclaims, Retention!Cleanup
    <3>. QED
      BY <3>1
  <2>3. CASE Retention!Tick
    BY <2>3 DEF Retention!Tick
  <2>4. CASE \/ Retention!IngestExit \/ Retention!IngestRestart \/ Retention!Discover
             \/ Retention!LeasePass \/ Retention!ReadProtected
    BY <2>4 DEF Retention!IngestExit, Retention!IngestRestart, Retention!Discover,
                Retention!LeasePass, Retention!ReadProtected, Retention!media
  <2>5. CASE Retention!ThreadNext
    BY <2>5 DEF Retention!ThreadNext, Retention!ReadWindow, Retention!NothingRead,
                Retention!LeasePicks, Retention!Locate, Retention!LeaseOutput, Retention!Miss,
                Retention!StartEncoding, Retention!EndEncoding, Retention!Refused,
                Retention!StoreGone, Retention!media
  <2>6. CASE \/ Retention!MatchEnds \/ Retention!Fence \/ Retention!CloseStore
             \/ Retention!Dies \/ Retention!Restart
    BY <2>6 DEF Retention!MatchEnds, Retention!Fence, Retention!CloseStore, Retention!Dies,
                Retention!Restart, Retention!media
  <2>. QED
    BY <2>1, <2>2, <2>3, <2>4, <2>5, <2>6
       DEF Retention!Next, Retention!PassNext, Retention!EndNext
<1>. QED
  BY <1>1, RetentionInvHolds, PTL DEF MCSpec, NeededSegmentsStay

-----------------------------------------------------------------------------
LEMMA SourcesInvariant == MCSpec => []SourcesInv
<1>1. MCInit => SourcesInv
  BY SourcesInit DEF MCInit
<1>2. SourcesInv /\ [MCNext]_MCVars => SourcesInv'
  <2>1. MCNext => Sources!Next \/ UNCHANGED gVars
    BY DEF MCNext
  <2>2. UNCHANGED MCVars => UNCHANGED gVars
    BY DEF MCVars
  <2>. QED
    BY <2>1, <2>2, SourcesStep, SourcesStutter
<1>. QED
  BY <1>1, <1>2, PTL DEF MCSpec

\* For any goals, any corrections of their shotmap rows and any number of processes: a
\* goal has at most one task that is not suppressed, and one that the cursor has passed
\* has a task, unless it cannot be told from another goal of its team or a process died
\* between its task and its snapshot (HttpMatchEventSource, EventRevisionTracker,
\* HttpShotmapGoalSource, the main loop, recover_incomplete).
THEOREM OneTaskEachHolds == MCSpec => []OneTaskEach
<1>1. SourcesInv => OneTaskEach
  BY InvImplies DEF OneTaskEach
<1>. QED
  BY <1>1, SourcesInvariant, PTL

-----------------------------------------------------------------------------
LEMMA AnswerBehaves == MCSpec => Answer!Spec
<1>1. MCInit => Answer!Init  BY DEF MCInit
<1>2. [MCNext]_MCVars => [Answer!Next]_Answer!vars
    BY DEF MCNext, MCVars, cVars, Answer!vars
<1>. QED  BY <1>1, <1>2, PTL DEF MCSpec, Answer!Spec

\* For any stream with its silences, any pruning and any request: a window that is
\* called ready shows what it claims, one waits for the tail alone, and what is called
\* lost stays lost (analyze_video_coverage, resolve_local_window_coverage).
THEOREM AnswersHoldAlways == MCSpec => AnswersHold
<1>1. Answer!CoverageAssumption  BY GoalStagesAssumption
<1>2. Answer!Spec => []Answer!AnswerIsTrue  BY <1>1, AnswersTrue
<1>3. Answer!Spec => [][Answer!StaysLost]_Answer!vars  BY <1>1, LostIsLost
<1>4. [Answer!StaysLost]_Answer!vars => [focus = "coverage" => Answer!StaysLost]_cVars
    BY DEF Answer!vars, cVars
<1>. QED  BY <1>2, <1>3, <1>4, AnswerBehaves, PTL DEF AnswersHold
===============================================================================
