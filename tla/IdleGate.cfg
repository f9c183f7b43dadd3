CONSTANTS
  Unit = unit
  once = once
  OnceRuns = {}
  None = None
  Delay = 7
  Poll = 2
  MaxFetch = 1
  MaxCrashes = 2
  FreezeWorker = TRUE
  SystemctlFails = FALSE
  Hammer = FALSE
  ClockJumps = FALSE
SPECIFICATION GateFairSpec
INVARIANT DelayIsKept
PROPERTY ImplementsGateContract
PROPERTY WorksWhenQuiet
