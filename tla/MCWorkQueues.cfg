CONSTANTS
  p = p
  w = w
  v = v
  d = d
  e = e
  j = j
  k = k
  l = l
  None = None
  NoJob = NoJob
  pool = pool
  mail = mail
  nowhere = nowhere
  Task = {p, w, v}
  Priority <- Equal
  Queue = {pool, mail, nowhere}
  Job = {j, k, l}
  Desc = {d, e}
  Turns = {2}
  Outside = {"forever"}
  Inside = {"zero", "ticks"}
  ImpExp = FALSE
  Scenarios <- Each
SPECIFICATION WQLiveSpec
INVARIANTS
  Accounted
PROPERTIES
  KeepsOrder
  QueuedIsBegun
CHECK_DEADLOCK FALSE
