SPECIFICATION OutSpec
CONSTANTS
    c1 = c1
    c2 = c2
    Calls = {c1, c2}
    MaxFaults = 1
    MaxQueue = 2
SYMMETRY Perms
CONSTRAINT Downloads
INVARIANTS OutTypeOK SentIsAccepted  Settles
PROPERTIES RecordNeverBack
CHECK_DEADLOCK FALSE
