CONSTANTS
  Furnaces = {a, b}
  Senders = {a}
  Receivers = {a, b}
  Publishers = {cron, hand}
  Cron = cron
  Taxers = {a, b}
  None = None
  Torn = Torn
  MaxRev = 2
  MaxKeys = 2
  MaxPuts = 2
  MaxRuns = 2
  MaxFaults = 1
SPECIFICATION Spec
INVARIANT OnlyAttestedIsRendered
INVARIANT StagedVerifies
INVARIANT OwnKeyIsTrusted
CHECK_DEADLOCK FALSE
