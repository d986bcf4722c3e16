SPECIFICATION Spec
CONSTANTS
    Node = {n1}
    Thread = {t1, t2, t3}
    Ticker = {k1, k2}
    Main = Main
    None = None
    Line = {"exit", "y"}
    Sysops = {}
    Alias <- OwnNames
    SlotCap = 10
    MaxSessions = 1
    MaxLines = 3
INVARIANT NoThreadOutlivesNode
CHECK_DEADLOCK FALSE
