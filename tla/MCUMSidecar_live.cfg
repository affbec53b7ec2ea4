SPECIFICATION FairSpec
CONSTANTS
  Fibers = {f1, f2}
  Main = f1
  NoFiber = NoFiber
  Ops = {o1, o2}
  NoOp = NoOp
  Calls = {"spin", "read", "snooze", "wakeup", "yield"}
  TestMode = TRUE
  SqSize = 4
  MaxDepth = 0
  MaxMore = 0
  MaxNops = 1
INVARIANTS NoLostSignal
PROPERTIES QueuedRuns ReapEnds 
