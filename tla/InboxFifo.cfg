CONSTANTS
  Names = {a, b}
  Inodes = {i1, i2, i3}
  NoFile = NoFile
  Stagers = {p, q}
  MaxTime = 1
  MaxStamp = 2
  InodeReuse = FALSE
  ClockSteps = TRUE
  TouchHead = FALSE
SPECIFICATION Spec
SYMMETRY Symmetry
PROPERTY BatchInArrivalOrder
PROPERTY ClaimsLongestWaiting
PROPERTY ImplementsArrivalQueue
