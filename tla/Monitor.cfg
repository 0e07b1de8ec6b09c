SPECIFICATION Spec
CONSTANTS
    n1 = n1
    all = all
    one = one
    Notes = {n1, n2, n3}
    Filters = {all, one}
    Matches <- OneOrAll
    Waiters = {}
    MaxSubscriptions = 3
    InboxSize = 2
    PollSize = 2
    BatchSize = 2
    HasCallback = TRUE
    CallbackPolls = FALSE
    MaxSubscribes = 3
    MaxEmpty = 0
CHECK_DEADLOCK FALSE
INVARIANTS StreamsInOrder NoNoteMissed
