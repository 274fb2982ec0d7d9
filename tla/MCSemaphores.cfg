CONSTANTS
  urgent = urgent
  a = a
  b = b
  sem = sem
  None = None
  Task = {urgent, a, b}
  Priority <- Ranked
  Queue = {sem}
  Amount = {1, 2}
  Modulus = 4
  Initial = 1
SYMMETRY Symmetric
SPECIFICATION Spec
INVARIANT NoneOverlooked
PROPERTY KeepsPromise
