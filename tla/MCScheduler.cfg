CONSTANTS
  startup = startup
  timer = timer
  a = a
  w1 = w1
  None = None
  Task = {startup, timer, a}
  StartupTCB = startup
  TimerTCB = timer
  WaitQ = {w1}
  MaxPriority = 2
SPECIFICATION FairSpec
INVARIANTS
  LinkedOnce
  NoTaskLost
  FlagsCover
  HighestRuns
  BlockedDoesNotRun
PROPERTIES
  PreemptedKeepsPlace
  RoundRobin

