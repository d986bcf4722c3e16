SPECIFICATION Spec
CONSTANTS
    Node = {n1, n2}
    Thread = {t1, t2, t3}
    Ticker = {k1, k2}
    Main = Main
    None = None
    Line = {"exit", "sysop", "y", "f"}
    Sysops = {n1, n2}
    Alias <- OneName
    SlotCap = 2
    MaxSessions = 1
    MaxLines = 2
SYMMETRY FullSymmetry
PROPERTY ImplementsLobby
INVARIANTS
    TypeOK
    LockDiscipline
    OneTicker
    FlagBacked
    PlayersCounted
CHECK_DEADLOCK FALSE
