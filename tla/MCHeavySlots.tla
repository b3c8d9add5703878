---------------------------- MODULE MCHeavySlots ----------------------------
(***************************************************************************)
(* An instance of HeavySlots for TLC, on the tasks of two Workers: A runs  *)
(* a GIF and an OCR task, B an OCR task.  Both kinds of behaviour are      *)
(* checked: those in which no live process misses its heartbeats for a     *)
(* whole lease, and those in which any may.                                *)
(***************************************************************************)
EXTENDS HeavySlots

MCCoordinators == {"A", "B"}
MCOwner == [t \in Tasks |-> IF t \in {"gifA", "ocrA"} THEN "A" ELSE "B"]
MCKind == [t \in Tasks |-> IF t = "gifA" THEN "gif" ELSE "vision_ocr"]

\* The deployment's shape (a heavy slot kept for GIFs) and a single slot.
TwoLimits == {[heavy |-> 2, vision |-> 2], [heavy |-> 1, vision |-> 1]}
===============================================================================
