CONSTANTS
    Commands = {c1, c2, c3}
    None = None
    Requests <- Transfers
    Filtered = TRUE
    GiveUp = TRUE
    MaxCallouts = 0
    MaxFlight = 1
SPECIFICATION Spec
INVARIANTS
    InterruptsRestored
    ReadsAreComplete
    NeverStranded
SYMMETRY Symmetry
CONSTRAINT Nested
