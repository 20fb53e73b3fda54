SPECIFICATION StoreSpec
CONSTANTS
    None = None
    Page = {0, 3}
    PagePayload <- MCPagePayload
    ZeroBody = "z"
    GENERATION_MAX = 1
    CYCLES_MAX = 1
INVARIANTS
    StoreTypeOK
    HeaderPredictsBurn
    ImportOfOwnImage
    ImportKeepsBody
