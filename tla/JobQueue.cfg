SPECIFICATION Spec
CONSTANTS
    Loops = {"scheduler"}
    Drainers = {"control"}
    Types = {"digest"}
    Allowed <- OneAllowed
    Waited = {"digest"}
    Keys = {"k"}
    NoKey = NoKey
    MaxAttempts = 2
    Delay = 1
    Limit = 1
    Lead = 0
    MaxJobs = 2
    Horizon = 1
    Faults = TRUE
    DevControl = TRUE
INVARIANTS
    SingleOwner
    AttemptsBounded
    DoneMeansSucceeded
PROPERTIES
    SucceedsOnce
    RetryPostponed
    RunDueComplete
    ImplementsLifecycle
