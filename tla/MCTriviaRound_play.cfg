SPECIFICATION Spec
CONSTANTS
    Node = {n1, n2, n3}
    Sysops = {}
    Frequencies = {6}
    ClueLimits = {2}
    Frequency0 = 6
    ClueLimit0 = 2
    Reloads = {TRUE}
    ClockSteps = {1, 2}
    MaxGap = 5
    MaxElapsed = 9
    MaxSkips = 3
    MaxScore = 1
SYMMETRY PlayerSymmetry
INVARIANTS
    TypeOK
    VoteExact
    InGameHasQuestion
PROPERTIES
    ClueSchedule
    WonOnce
