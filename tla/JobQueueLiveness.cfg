SPECIFICATION FairSpec
CONSTANTS
    Loops = {"scheduler"}
    Drainers = {"control"}
    Types <- MCTypes
    Allowed <- MCAllowed
    Waited <- MCWaited
    Keys = {"k"}
    NoKey = NoKey
    MaxAttempts = 2
    Delay = 1
    Limit = 1
    Lead = 0
    MaxJobs = 2
    Horizon = 1
    Faults = FALSE
    DevControl = FALSE
PROPERTIES
    EveryJobEnds
    RunDueAnswers
