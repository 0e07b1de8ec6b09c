SPECIFICATION Spec
CONSTANTS
    wrap = wrap
    rumor = rumor
    reply = reply
    second = second
    profile = profile
    replies = replies
    None = None
    Counters = {replies}
    Ids = {wrap, rumor}
    Profiles = {}
    Wraps = {wrap}
    RumorOf <- RumorInWrap
    Bumps <- NothingBumps
    CounterRange = 4
    Relays = {}
    Ingesters = {i1, i2}
    InboxSize = 4
    BatchSize = 2
    MaxEvents = 3
    MaxScans = 1
    MaxFailures = 0
    MaxBeginFailures = 1
    MaxRestarts = 1
CHECK_DEADLOCK FALSE
INVARIANTS StoreConsistent AnnouncedOnce
PROPERTIES NotesKept JoinReturns
