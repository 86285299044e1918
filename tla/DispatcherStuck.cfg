SPECIFICATION FairSpec
CHECK_DEADLOCK FALSE
CONSTANTS
    Keys = {"u1"}
    Submitters = {"s1"}
    Buffer = 1
    MaxJobs = 3
    MaxBoxes = 2
    Cancels = FALSE
PROPERTIES
    AcceptedRuns
