SPECIFICATION Spec
CONSTANTS
  Fibers = {f1, f2}
  Main = f1
  NoFiber = NoFiber
  Ops = {o1, o2}
  NoOp = NoOp
  Calls = {"spin", "accept_each", "timeout", "write_async", "close_async", "snooze", "wakeup", "switch"}
  TestMode = TRUE
  SqSize = 2
  MaxDepth = 1
  MaxMore = 1
  MaxNops = 1
SYMMETRY OpSymmetry
INVARIANTS IInv PendingIsExact AbandonedNeverResumes NothingUnsubmittedInWait NoLostWakeup
