SPECIFICATION LidSpec
CONSTANTS
    m1 = m1
    m2 = m2
    Msgs = {m1, m2}
    Media = {m2}
    MaxDeliveries = 3
    MaxFaults = 1
INVARIANTS DroppedIsPublished
CHECK_DEADLOCK FALSE
