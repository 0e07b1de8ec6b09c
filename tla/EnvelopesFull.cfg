SPECIFICATION Spec
CONSTANTS
    Events <- AllEvents
    Jsons <- AllJsons
    Nesting <- AllNesting
    Devices <- OnlyAnn
    Teams <- OnlyTeam
    RejectedKinds = {"spam"}
    Garbage = Garbage
    Nobody = Nobody
    NumThreads = 2
    MaxKeys = 1
    InboxSize = 2
    WriterInboxSize = 1
    Depth = 4
    MaxEvents = 2
    MaxScans = 1
    MaxAdds = 2
    MaxCrashes = 1
INVARIANT MarkedHasRumor
CHECK_DEADLOCK FALSE
