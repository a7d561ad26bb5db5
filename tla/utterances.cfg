\* Numbers, utterances of up to four phrases, pairs of names.
SPECIFICATION Spec
CONSTANTS
    Packs <- MCPacks
    Numbers <- MCNumbers
    Phrases <- MCPhrases
    MaxPhrases = 4
    Names <- MCNames
    NoQty = NoQty
    ExtraUnits = {"skids"}
    Thresholds <- MCThresholds
INVARIANTS
    NumbersHeard
    ItemsAreCounted
    OneSlotPerWord
    CorrectionWins
    DoubtIsFlagged
    NameFindsItsOwner
CHECK_DEADLOCK FALSE
