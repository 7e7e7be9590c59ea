CONSTANTS
    Commands = {c1, c2}
    None = None
    Requests <- Completing
    Filtered = FALSE
    GiveUp = TRUE
    MaxCallouts = 1
    MaxFlight = 1
SPECIFICATION FairSpec
PROPERTIES
    EveryCommandCompletes
