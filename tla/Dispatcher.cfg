SPECIFICATION FairSpec
CHECK_DEADLOCK FALSE
CONSTANTS
    Keys <- MCKeys
    Submitters <- MCSubmitters
    Buffer = 1
    MaxJobs = 3
    MaxBoxes = 2
    Cancels = TRUE
INVARIANTS
    NeverPanics
    NothingStranded
    ShutdownDrains
PROPERTIES
    ImplementsSerial
    RunsUnlessWedged
