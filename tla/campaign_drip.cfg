SPECIFICATION Spec
CONSTANTS
    l1 = l1  l2 = l2  w1 = w1  w2 = w2  a1 = a1  a2 = a2
    NoLead = NoLead  NoWorker = NoWorker
    Leads = {l1}
    Workers = {w1}
    Calls = {a1}
    Steps = 3
    Targeted = FALSE
    MaxLaunches = 2
    MaxFaults = 1
CHECK_DEADLOCK FALSE
SYMMETRY Perms
INVARIANTS
    CountIsTruthful
    FollowupsInOrder
    FollowupOnce
PROPERTIES
    StoppedStaysStopped
