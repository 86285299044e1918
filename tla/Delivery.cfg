SPECIFICATION FairSpec
CONSTANTS
    MaxUpdates = 2
    GroupSize = 3
    ChunkSize = 2
    ClientAttempts = 2
    MaxTries = 2
    MaxFaults = 3
INVARIANTS
    TypeOK
    LostByRestartOnly
    DoneMeansGone
PROPERTIES
    BegunInOrder
    RetiredGo
CHECK_DEADLOCK FALSE
