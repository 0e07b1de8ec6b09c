SPECIFICATION Spec
CONSTANTS
    note = note
    repost = repost
    None = None
    Events = {note, repost}
    Embedded <- RepostOfNote
    Keys = {}
    N = 1
    InboxSize = 2
    BatchSize = 2
    MaxKeys = 1
    MaxTxnFailures = 1
    MaxLost = 0
CHECK_DEADLOCK FALSE
INVARIANTS QuitHonored
