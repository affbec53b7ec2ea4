SPECIFICATION FairSpec
CONSTANTS
  NULL = NULL
  Buffers = {1, 2, 3, 4, 5, 6, 7, 8}
  BP_BR_ENTRIES = 8
  WordBits = 4
  MaskBits = 2
  BP_INITIAL_BUFFER_SIZE = 2
  f1 = f1
  f2 = f2
  i1 = i1
  i2 = i2
  Fibers = {f1, f2}
  Ios = {i1, i2}
  Ops = {1, 2, 3}
  NoOp = 0
  Users <- OneEach
  Setups <- Instances
INVARIANTS PoolAccounted BufferRefsExact NothingOverwritten OpsAccounted BytesAccounted 
PROPERTIES ReaderResumes
CHECK_DEADLOCK FALSE
