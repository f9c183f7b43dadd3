CONSTANTS
  a = a
  b = b
  a2b = a2b
  Sheep = {a, b, a2b}
  None = None
  Tracked = {a}
  Floor = 1
  Budget = 2
  Commands = {"delete", "sweep", "quarantine", "apply", "batch", "all"}
  MaxCommands = 1
  MaxRotations = 1
  MaxLandings = 1
  Grade <- MCGrade
  Ages <- MCAges
  From <- MCFrom
  To <- MCTo
SPECIFICATION Spec
CHECK_DEADLOCK FALSE
INVARIANT TypeOK
INVARIANT DeletedStaysGone
PROPERTY RotateKeepsFloor
PROPERTY OnlyCullsErase
PROPERTY CleanedIsClean
