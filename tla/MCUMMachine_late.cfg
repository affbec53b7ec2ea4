SPECIFICATION Spec
CONSTANTS
  Fibers = {f1, f2}
  Main = f1
  NoFiber = NoFiber
  Ops = {o1, o2, o3}
  NoOp = NoOp
  Calls = {"read", "timeout", "yield"}
  TestMode = FALSE
  SqSize = 4
  MaxDepth = 1
  MaxMore = 1
  MaxNops = 1
SYMMETRY OpSymmetry
PROPERTIES TimeoutRaisesInBlock
