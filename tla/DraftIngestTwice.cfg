SPECIFICATION Spec
CONSTANTS
    MaxDrafts = 1
    MaxCards = 2
    MaxInbox = 1
    Missing = Missing
    Names = {"noisy", "clean"}
    Dates = {"d1", "d2"}
    Shorter <- MCShorter
    Texts <- MCTexts
    Voices <- MCVoices
    Attempts <- TwoTries
    MaxFaults = 2
    Sweeps = FALSE
INVARIANTS
    OneProductPerDraft
