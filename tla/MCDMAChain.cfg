CONSTANTS
    MaxDesc = 4
    MaxXfer = 131076
    Sizes <- MCSizes
    Segments <- MCSegments
SPECIFICATION Spec
INVARIANTS
    TypeOK
    NoCrossing
    ChainIsTransfer
    ExhaustedOnlyIfScattered
