CONSTANTS
  t1 = t1
  t2 = t2
  t3 = t3
  Timer = {t1, t2, t3}
  Delays = {0, 2, 5}
  Tolerances = {0, 2}
  ClockSpeed = 1
  Word = 16
  MaxSlip = 1
  MaxLatency = 2
  StartClock = 13
  MaxClock = 21
SYMMETRY Symmetric
SPECIFICATION Spec
INVARIANTS
  DeltasExact
  ActiveIffQueued
  InterruptArmed
PROPERTIES
  NeverEarly
