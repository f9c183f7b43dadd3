CONSTANTS
  MaxInbox = 2
  Stages = 2
  FreezeWorker = TRUE
  TornReads = TRUE
  WriteErrors = TRUE
  SystemctlFails = TRUE
SPECIFICATION DrainFairSpec
INVARIANT AtMostOneMore
INVARIANT IdleAfterDrainingIsSafe
PROPERTY NothingHangs
