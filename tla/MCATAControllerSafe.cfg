CONSTANTS
    Commands = {c1, c2, c3}
    None = None
    Requests <- Everything
    Filtered = FALSE
    GiveUp = TRUE
    MaxCallouts = 2
    MaxFlight = 1
SPECIFICATION Spec
INVARIANTS
    TypeOK
    Accounted
    CompletesACommand
    CalloutsDoNotBlock
SYMMETRY Symmetry
CHECK_DEADLOCK FALSE
CONSTRAINT TwoOrFlush
