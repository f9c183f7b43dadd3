CONSTANTS
  g1 = g1
  g2 = g2
  s1 = s1
  Genomes = {g1, g2}
  Bases = {s1}
  Jobs = {j1, j2, j3}
  BaseOf <- OneFlock
  None = None
  Torn = Torn
  MaxCrashes = 2
  CrossDevice = FALSE
  Restage = FALSE
  DiskErrors = TRUE
  RecoveryCli = FALSE
SPECIFICATION Spec
CHECK_DEADLOCK FALSE
INVARIANT NoGenomeErased
INVARIANT StrandedOnlyIfLeftBehind
INVARIANT FlockCopySurvives
INVARIANT SidecarMatchesMp4
INVARIANT DoneWasRendered
