SPECIFICATION FairSpec
CONSTANTS
  f1 = f1
  f2 = f2
  f3 = f3
  m1 = m1
  m2 = m2
  Fibers = {f1, f2, f3}
  NoFiber = NoFiber
  Machines = {m1, m2}
  MachineOf <- TwoMachines
  MaxRaised = 1
INVARIANTS ExclusionUntilRaised NoLostWake
PROPERTIES FreeIsTaken UnlockReturns ImplementsLock
