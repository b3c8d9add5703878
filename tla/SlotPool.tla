------------------------------- MODULE SlotPool -------------------------------
(***************************************************************************)
(* What heavy_task_coordinator.py promises, without rows, clocks or        *)
(* processes: one pool of slots with limits.  Holders come one at a time   *)
(* and only into free capacity, they may leave at any moment, several at   *)
(* once, and the limits change only when nobody holds a slot.              *)
(***************************************************************************)
EXTENDS Integers, FiniteSets

CONSTANTS
  Tasks,         \* what may hold a slot
  Vision,        \* the tasks that also take a vision slot
  LimitChoices   \* the limits the pool may be given

VARIABLES
  limits,        \* the limits in force; NoLimits before the first configuration
  holders        \* the tasks that hold a slot

poolVars == <<limits, holders>>

NoLimits == [heavy |-> 0, vision |-> 0]

PoolInit ==
  /\ limits = NoLimits
  /\ holders = {}

\* How many vision tasks may be active: one heavy slot is kept for the others
\* when there are two or more.
VisionCap == IF limits.heavy >= 2 /\ limits.vision >= limits.heavy
             THEN limits.heavy - 1 ELSE limits.vision

\* Those whose hold has run out are reclaimed before the newcomer is counted.
Take(t) ==
  \E staying \in SUBSET holders :
    /\ t \notin staying
    /\ Cardinality(staying) < limits.heavy
    /\ t \in Vision => Cardinality(staying \cap Vision) < VisionCap
    /\ holders' = staying \cup {t}
    /\ UNCHANGED limits

Leave ==
  /\ holders' \subseteq holders
  /\ UNCHANGED limits

Configure ==
  /\ limits' \in LimitChoices
  /\ holders' = {}

PoolNext == Configure \/ Leave \/ \E t \in Tasks : Take(t)

PoolSpec == PoolInit /\ [][PoolNext]_poolVars

===============================================================================
