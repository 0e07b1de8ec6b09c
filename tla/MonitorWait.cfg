SPECIFICATION FairSpec
CONSTANTS
    n1 = n1
    all = all
    one = one
    Notes = {n1}
    Filters = {all}
    Matches <- OneOrAll
    Waiters = {c1, c2}
    MaxSubscriptions = 3
    InboxSize = 1
    PollSize = 2
    BatchSize = 2
    HasCallback = TRUE
    CallbackPolls = FALSE
    MaxSubscribes = 2
    MaxEmpty = 2
CHECK_DEADLOCK FALSE
PROPERTIES OrphansLeave WaitersServed
