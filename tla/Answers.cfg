\* Three rows, in pages of one by default and of two at most, so that a walk has a
\* middle page and an artifact needs two pages. A client that has its answer stops.
CONSTANTS
    DefaultLimit = 1
    MaxLimit = 2
    None = None
    NotANumber = NotANumber
    Rows = 3
    LineData <- MCLineData
    ElementData <- MCElementData
SPECIFICATION Spec
INVARIANTS TypeOK WalkIsExact WalksEnd OverloadsAreCounted WorstAreListed
CHECK_DEADLOCK FALSE
