CONSTANT a = a
CONSTANT b = b
CONSTANT Sheep = {a, b}
CONSTANT Fresh = {x}
CONSTANT Seeders = {p, q}
CONSTANT Lists <- ListsOfTwo
CONSTANT Options <- OneOption
CONSTANT None = None
CONSTANT MaxRequests = 2
CONSTANT MaxFaults = 1
SPECIFICATION Spec
CHECK_DEADLOCK FALSE
SYMMETRY Symmetry
INVARIANT TypeOK
INVARIANT TornOnlyByFault
INVARIANT RenderedTwiceOnlyThroughTheGap
PROPERTY EveryIdIsAnswered
