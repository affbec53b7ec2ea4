SPECIFICATION Spec
CONSTANTS
  Fibers = {f1, f2}
  Main = f1
  NoFiber = NoFiber
  Ops = {o1, o2, o3}
  NoOp = NoOp
  Calls = {"spin", "read", "read_raw", "sleep", "timeout", "schedule", "yield"}
  TestMode = FALSE
  SqSize = 2
  MaxDepth = 1
  MaxMore = 0
  MaxNops = 1
SYMMETRY OpSymmetry
INVARIANTS  BufferOutlivesRequest WillBeResumedIsMarked
PROPERTIES InterruptionIsRaised
