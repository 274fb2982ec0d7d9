CONSTANTS
  a = a
  b = b
  c = c
  sem = sem
  None = None
  Task = {a, b, c}
  Priority <- Equal
  Queue = {sem}
  Amount = {1}
  Modulus = 4
  Initial = 1
SPECIFICATION LockLiveSpec
INVARIANT MutualExclusion
PROPERTIES
  TimedTestEnds
  CoveredIsGranted
