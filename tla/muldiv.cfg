CHECK_DEADLOCK FALSE
CONSTANTS
    W = 6
    MaxStarts = 2
    Probes <- ProbesOn6
SPECIFICATION Spec
INVARIANTS TypeOK ResultRight ProductInvariant DivisionInvariant
