CONSTANTS
  g1 = g1
  g2 = g2
  s1 = s1
  Genomes = {g1, g2}
  Bases = {s1}
  Jobs = {j1, j2, j3}
  BaseOf <- OneFlock
  None = None
  Torn = Torn
  MaxCrashes = 1
  CrossDevice = TRUE
  Restage = FALSE
  DiskErrors = FALSE
  RecoveryCli = TRUE
SPECIFICATION FairSpec
CHECK_DEADLOCK FALSE
INVARIANT NoGhostJob
PROPERTY EveryGenomeSettles
