CONSTANTS
  a = a
  b = b
  sem = sem
  None = None
  Task = {a, b}
  Priority <- Equal
  Queue = {sem}
  Amount = {1}
  Modulus = 3
  Initial = 0
  Remover = a
  Victim = b
  OwnTimers = TRUE
SPECIFICATION RemovalSpec
INVARIANT StaysRemoved
