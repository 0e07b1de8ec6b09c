SPECIFICATION Spec
CONSTANTS
    Events <- AllEvents
    Jsons <- AllJsons
    Nesting <- AllNesting
    Devices <- OnlyAnn
    Teams <- OnlyTeam
    RejectedKinds = {"spam"}
    Garbage = Garbage
    Nobody = Nobody
    NumThreads = 2
    MaxKeys = 1
    InboxSize = 2
    WriterInboxSize = 6
    Depth = 4
    MaxEvents = 2
    MaxScans = 1
    MaxAdds = 2
    MaxCrashes = 1
CHECK_DEADLOCK FALSE
INVARIANTS RumorsVouched MarkedHasRumor NothingMissed
