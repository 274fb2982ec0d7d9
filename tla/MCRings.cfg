CONSTANTS
  a = a
  b = b
  rq = rq
  wq = wq
  None = None
  Interrupt = Interrupt
  Task = {a, b}
  Priority <- Equal
  Queue = {rq, wq}
  Size = 3
  Data = {1, 2}
  Blocks <- Mixed
  Roles <- Sound
CHECK_DEADLOCK FALSE
SPECIFICATION RingSpec
INVARIANT RoomWhenWoken
PROPERTY BoundedQueue
