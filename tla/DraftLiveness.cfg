SPECIFICATION FairSpec
CHECK_DEADLOCK FALSE
CONSTANTS
    MaxDrafts = 1
    MaxCards = 1
    MaxInbox = 1
    Missing = Missing
    Names = {"noisy", "clean"}
    Dates = {"d1"}
    Shorter <- MCShorter
    Texts = {}
    Voices <- OneVoice
    Attempts <- TwoTries
    MaxFaults = 1
    Sweeps = TRUE
PROPERTIES
    StaleDraftsEnd
