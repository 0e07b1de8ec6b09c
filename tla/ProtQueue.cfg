SPECIFICATION FairSpec
CONSTANTS
    Item = {a, b}
    NoItem = NoItem
    Capacity = 3
    Consumers = {c1}
    MaxItems = 2
    PushSizes = {2, 3}
INVARIANTS RingOK NoLostWakeup
PROPERTIES ImplementsFifo Delivered
