CONSTANTS
  a = a
  b = b
  c = c
  d = d
  f = f
  g = g
  x = x
  y = y
  sem = sem
  cluster = cluster
  sync = sync
  None = None
  Handler = Handler
  Task = {a, b, c, d}
  Priority <- Equal
  Queue = {sem, cluster, sync}
  Amount = {1}
  Modulus = 4
  Initial = 2
  Item = {x, y}
  Stocked = {x, y}
  Flag = {f, g}
  Call <- Calls
  Reset = 2
  Scenarios <- Each
SYMMETRY Symmetric
SPECIFICATION ObjectsSpec
INVARIANTS
  OneOwner
  FlagsNotMissed
  CountsSleepers
  NoTimerOutlivesCall
PROPERTIES
  ResultTells
  
