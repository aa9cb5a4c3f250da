CHECK_DEADLOCK FALSE
CONSTANTS
    W = 4
    MaxStarts = 1
    Probes = {}
SPECIFICATION Spec
INVARIANTS UnsignedRight
