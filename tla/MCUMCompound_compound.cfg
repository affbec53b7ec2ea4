SPECIFICATION Spec
CONSTANTS
  f1 = f1
  f2 = f2
  Fibers = {f1, f2}
  First = f1
  NoFiber = NoFiber
  Ops = {1, 2, 3, 4, 5}
  NoOp = 0
  Total = 2
  Setups <- Instances
INVARIANTS ReferencesHeld ReturnsWhatHappened WaiterIsResumed
CHECK_DEADLOCK FALSE
