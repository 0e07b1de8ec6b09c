SPECIFICATION Spec
CONSTANTS
    Contents <- SomeContents
    Rooms = {12, 40}
    Align = 4
    InboxSize = 1
    MaxGets = 2
CHECK_DEADLOCK FALSE
INVARIANTS ReadsBack ContentKept OwnersFree
