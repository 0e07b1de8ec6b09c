SPECIFICATION Spec
CONSTANTS
    wrap = wrap
    rumor = rumor
    reply = reply
    second = second
    profile = profile
    replies = replies
    None = None
    Counters = {replies}
    Ids = {wrap, rumor}
    Profiles = {}
    Wraps = {wrap}
    RumorOf <- RumorInWrap
    Bumps <- NothingBumps
    CounterRange = 4
    Relays = {}
    Ingesters = {i1, i2}
    InboxSize = 4
    BatchSize = 2
    MaxEvents = 2
    MaxScans = 0
    MaxFailures = 0
    MaxBeginFailures = 0
    MaxRestarts = 0
CHECK_DEADLOCK FALSE
INVARIANTS WrapsMarked
