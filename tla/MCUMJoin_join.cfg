SPECIFICATION Spec
CONSTANTS
  NULL = NULL
  joiner = joiner
  near = near
  far = far
  other = other
  m1 = m1
  m2 = m2
  Fibers = {joiner, near, far, other}
  Machines = {m1, m2}
  MachineOf <- OnMachine
  Main <- MainOf
  Lists <- Waited
  MaxJoins = 2
  MaxExc = 1
  MaxMail = 1
INVARIANTS JoinedAreDone ResultsInOrder NoLostNotification
CHECK_DEADLOCK FALSE
