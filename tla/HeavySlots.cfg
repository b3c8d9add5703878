CONSTANTS
  Coordinators <- MCCoordinators
  Owner <- MCOwner
  Kind <- MCKind
  Tasks = {"gifA", "ocrA", "ocrB"}
  LimitChoices <- TwoLimits
  LeaseTicks = 2
  StallChoices = {FALSE, TRUE}
SPECIFICATION Spec
INVARIANTS  Capacity RunningHoldsSlot RunningWithinLimits
PROPERTIES PoolPromise GrantOrder
