SPECIFICATION FairSpec
CONSTANTS
    e1 = e1  e2 = e2  c1 = c1  c2 = c2
    NoEvent = NoEvent
    Events = {e1, e2}
    Keyed = {e1}
    TwoStep = {e2}
    Replayable = {}
    Slots = {c1}
    BatchSize = 2
    MaxAttempts = 2
    MaxSeq = 3
    Faults = {"ownerless", "gateway_crash", "rekey"}
    MaxFaults = 1
    InboxBound = 2
    ReplyBound = 1
    FallbackCapacity = 1
CHECK_DEADLOCK FALSE
PROPERTIES
    EventuallyFinal
    ImplementsDurableDelivery
