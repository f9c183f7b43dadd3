SPECIFICATION FairSpec
CONSTANTS
  Voters = {v1, v2}
  Sweepers = {s1}
  Editors = {"naming", "refactor"}
  Nobody = Nobody
  Absent = Absent
  Torn = Torn
  MaxAsked = 3
  MaxChanges = 2
  MaxCrashes = 1
INVARIANT TallyIsExact
INVARIANT EditsAreKept
PROPERTY VotesAreAnswered
CHECK_DEADLOCK FALSE
