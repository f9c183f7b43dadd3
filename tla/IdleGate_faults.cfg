CONSTANTS
  Unit = unit
  once = once
  OnceRuns = {once}
  None = None
  Delay = 3
  Poll = 2
  MaxFetch = 1
  MaxCrashes = 1
  FreezeWorker = TRUE
  SystemctlFails = TRUE
  Hammer = TRUE
  ClockJumps = TRUE
SPECIFICATION GateSpec
INVARIANT FailsClosed
