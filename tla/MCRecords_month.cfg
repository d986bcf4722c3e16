SPECIFICATION Spec
CONSTANTS
    MAX_NODE = 2
    Alias = {ann, sam}
    Sysops = {sam}
    None = None
    Months = 2
    MaxScore = 1
    MaxRecords = 2
INVARIANTS
    TypeOK
    ScoresAreEarned
    OneRecordEach
PROPERTIES
    MaintRepeatedOnlyIfLost
