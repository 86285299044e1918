SPECIFICATION Spec
CONSTANTS
    MaxDrafts = 1
    MaxCards = 2
    MaxInbox = 1
    Missing = Missing
    Names = {"noisy", "clean"}
    Dates = {"d1"}
    Shorter <- MCShorter
    Texts <- OneText
    Voices <- OneVoice
    Attempts <- IngestOnce
    MaxFaults = 2
    Sweeps = TRUE
INVARIANTS
    TypeOK
    ConfirmedMatchesProduct
    ProductsComplete
    OneProductPerDraft
    PromptMeansEditing
PROPERTIES
    EditLosesNothing
    EndedOnce
