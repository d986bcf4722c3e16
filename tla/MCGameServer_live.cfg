SPECIFICATION FairSpec
CONSTANTS
    Node = {n1}
    Thread = {t1, t2}
    Ticker = {k1, k2}
    Main = Main
    None = None
    Line = {"exit", "sysop"}
    Sysops = {n1}
    Alias <- OwnNames
    SlotCap = 3
    MaxSessions = 2
    MaxLines = 2
PROPERTIES
    HangUpEndsThread
    RoundsGoOn
CHECK_DEADLOCK FALSE
