SPECIFICATION Spec
CONSTANTS
    e1 = e1  e2 = e2  c1 = c1  c2 = c2
    NoEvent = NoEvent
    Events = {e1}
    Keyed = {e1}
    TwoStep = {}
    Replayable = {e1}
    Slots = {c1, c2}
    BatchSize = 1
    MaxAttempts = 2
    MaxSeq = 3
    Faults = {"retention", "ownerless", "disconnect", "exception", "db_error", "orphaned", "raise", "skip", "moved", "backend_crash", "gateway_crash"}
    MaxFaults = 2
    InboxBound = 1
    ReplyBound = 1
    FallbackCapacity = 1
CHECK_DEADLOCK FALSE
SYMMETRY Perms
CONSTRAINT SecondRow
INVARIANTS
    TypeOK
    AckedIsSettled
    RecordedIsSettled
    BroadcastIsPersisted
    OneEffectUnlessRaced
PROPERTIES
    DeliveredIsFinal
