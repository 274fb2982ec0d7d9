CONSTANTS
  x = x
  y = y
  z = z
  a = a
  b = b
  Iocb = {x, y, z}
  Task = {a, b}
  Timed = {x, y}
  Handled = {z}
  Cancellable = {x, y}
  Canceller = {a}
  Kinds <- Devices
SPECIFICATION Spec
INVARIANTS
  Consistent
  PowerFollows
PROPERTIES
  Answered
  EndsInTime
