CONSTANT Kids = {k1}
CONSTANT Tuples = {t}
CONSTANT Cron = {c}
CONSTANT Hand = {h}
CONSTANT None = None
CONSTANT LowWater = 0
CONSTANT MaxCrashes = 2
SPECIFICATION Spec
INVARIANT LineageKept
INVARIANT LineageIsFindable
INVARIANT CatalogKnowsParents
CHECK_DEADLOCK FALSE
