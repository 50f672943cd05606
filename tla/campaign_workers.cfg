SPECIFICATION Spec
CONSTANTS
    l1 = l1  l2 = l2  w1 = w1  w2 = w2  a1 = a1  a2 = a2
    NoLead = NoLead  NoWorker = NoWorker
    Leads = {l1}
    Workers = {w1, w2}
    Calls = {a1, a2}
    Steps = 1
    Targeted = FALSE
    MaxLaunches = 2
    MaxFaults = 0
CHECK_DEADLOCK FALSE
INVARIANTS
    ExactlyOneWorker
