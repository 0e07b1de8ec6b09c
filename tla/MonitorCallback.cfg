SPECIFICATION FairSpec
CONSTANTS
    n1 = n1
    all = all
    one = one
    Notes = {n1}
    Filters = {all}
    Matches <- OneOrAll
    Waiters = {}
    MaxSubscriptions = 3
    InboxSize = 1
    PollSize = 2
    BatchSize = 2
    HasCallback = TRUE
    CallbackPolls = TRUE
    MaxSubscribes = 1
    MaxEmpty = 0
CHECK_DEADLOCK FALSE
PROPERTIES NotifyReturns
