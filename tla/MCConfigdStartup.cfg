\* A deadline the growing delay does not divide, sleeps one unit late.
SPECIFICATION LiveSpec
CONSTANTS
    Deadline = 8
    DelayStep = 1
    MaxDelay = 3
    MaxOversleep = 1
INVARIANTS TypeOK WaitKeepsDeadline
PROPERTIES RequestsAreServed StartupEnds
\* configd may exit.
CHECK_DEADLOCK FALSE
