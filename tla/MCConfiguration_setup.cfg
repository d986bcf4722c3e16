SPECIFICATION Spec
CONSTANTS
    File = {"", "database.enc", "custom.txt", "gone"}
    Questions <- QuestionsIn
    Counted <- PairsIn
    NumFiles = 3
    MaxCore = 7
    MaxExtra = 1
    Frequencies = {25, 76}
    Clues = {4, 5}
    SysopNames <- OneName
    Filler <- SomeFiller
    Damages <- SomeDamages
    None = None
    MaxEdits = 3
INVARIANTS
    TypeOK
    IndexFits
    IndexIsCurrent
PROPERTIES
    KeyRegisters
    StartsAsSaved
CHECK_DEADLOCK FALSE
