SPECIFICATION Spec
CONSTANTS
    wrap = wrap
    rumor = rumor
    reply = reply
    second = second
    profile = profile
    replies = replies
    None = None
    Counters = {replies}
    Ids = {reply, second, profile}
    Profiles = {profile}
    Wraps = {}
    RumorOf <- NoRumors
    Bumps <- ReplyBumps
    CounterRange = 2
    Relays = {r}
    Ingesters = {i1}
    InboxSize = 3
    BatchSize = 2
    MaxEvents = 1
    MaxScans = 0
    MaxFailures = 0
    MaxBeginFailures = 1
    MaxRestarts = 0
CHECK_DEADLOCK FALSE
PROPERTIES JoinAlwaysReturns
