SPECIFICATION Spec
CONSTANTS
    note = note
    repost = repost
    None = None
    Events = {note, repost}
    Embedded <- RepostOfNote
    Keys = {k}
    N = 2
    InboxSize = 2
    BatchSize = 2
    MaxKeys = 1
    MaxTxnFailures = 1
    MaxLost = 1
CHECK_DEADLOCK FALSE
INVARIANTS NoFreeUnderThreads OwnWorkDrained CopiesOwned KeysKnown
PROPERTIES DestroyReturns
