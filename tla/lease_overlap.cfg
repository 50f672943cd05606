SPECIFICATION Spec
CONSTANTS
    i1 = i1
    i2 = i2
    Instances = {i1, i2}
    NoInstance = none
    Gens = {1, 2, 3, 4, 5, 6}
    Bound <- OneRequest
INVARIANTS OneSocketPerSession
CHECK_DEADLOCK FALSE
