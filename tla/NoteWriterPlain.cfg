SPECIFICATION Spec
CONSTANTS
    wrap = wrap
    rumor = rumor
    reply = reply
    second = second
    profile = profile
    replies = replies
    None = None
    Counters = {replies}
    Ids = {reply, second, profile}
    Profiles = {profile}
    Wraps = {}
    RumorOf <- NoRumors
    Bumps <- ReplyBumps
    CounterRange = 2
    Relays = {r}
    Ingesters = {i1, i2}
    InboxSize = 3
    BatchSize = 2
    MaxEvents = 3
    MaxScans = 0
    MaxFailures = 1
    MaxBeginFailures = 1
    MaxRestarts = 1
CHECK_DEADLOCK FALSE
INVARIANTS StoreConsistent AnnouncedCommitted CountsMatch ProfilesLinked
