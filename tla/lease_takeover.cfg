SPECIFICATION FairSpec
CONSTANTS
    i1 = i1
    i2 = i2
    Instances = {i1, i2}
    NoInstance = none
    Bound <- Mixed
    Gens = {1, 2, 3, 4, 5, 6}
INVARIANTS TypeOK OneOwner StoppedStaysStopped
PROPERTIES LostLeaseIsNoticed TakeoverAfterCrash
CHECK_DEADLOCK FALSE
