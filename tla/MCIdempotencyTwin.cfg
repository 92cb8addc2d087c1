SPECIFICATION Spec
CONSTANTS
  p1 = p1
  p2 = p2
  k1 = k1
  k2 = k2
  NoProc = NoProc
  NoKey = NoKey
  Procs <- MCProcs
  Keys <- MCKeys
  MaxCalls = 4
  TtlTicks = 2
  MemMax = 1
  MaxCrashes = 1
  MaxLapses = 2
SYMMETRY Symmetric
INVARIANT
  SingleExecution
CHECK_DEADLOCK FALSE
