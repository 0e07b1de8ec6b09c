SPECIFICATION Spec
CONSTANTS
    Room = 3
    ShortRange = 2
    TooLong = {9}
    Arriving <- MCArriving
    MaxNotes = 4
    OldVersions = {0, 7}
    PruneFilters <- MCPruneFilters
    MaxSets = 1
    ReadIds = {1}
CHECK_DEADLOCK FALSE
INVARIANTS CountsExact TotalIsSum VersionTrue PruneExact
