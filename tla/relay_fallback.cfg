SPECIFICATION FairSpec
CONSTANTS
    e1 = e1  e2 = e2  c1 = c1  c2 = c2
    NoEvent = NoEvent
    Events = {e1}
    Keyed = {e1}
    TwoStep = {}
    Replayable = {}
    Slots = {c1}
    BatchSize = 1
    MaxAttempts = 2
    MaxSeq = 2
    Faults = {"db_error"}
    MaxFaults = 1
    InboxBound = 2
    ReplyBound = 1
    FallbackCapacity = 1
CHECK_DEADLOCK FALSE
PROPERTIES
    FallbackIsFlushed
