CONSTANTS
  c1 = c1
  c2 = c2
  srv = srv
  a = a
  b = b
  l = l
  Client = {c1, c2}
  Server = srv
  Task = {a, b, l}
  Home <- OnePerThread
  Amount = {1}
  Timeouts <- Some
  Initial = 1
  Wrap = 3
  Starts <- Apart
SPECIFICATION Spec
INVARIANTS
  Conserved
  NoneForgotten
PROPERTIES
  KeepsPromise
  CallsEnd
CHECK_DEADLOCK FALSE
