SPECIFICATION Spec
CONSTANTS
    Room = 3
    ShortRange = 2
    TooLong = {9}
    Arriving <- MCArriving
    MaxNotes = 4
    OldVersions = {3}
    PruneFilters <- MCPruneFilters
    MaxSets = 1
    ReadIds = {1}
INVARIANT
    KindsIndexed
CHECK_DEADLOCK FALSE
