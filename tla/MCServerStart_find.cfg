SPECIFICATION FairSpec
CONSTANTS
    Client = {c1, c2, c3}
    Server = {s1, s2}
    Node = {n1}
    NodeOf <- OnePlace
    None = None
    SpawnTries = 1
    OpenTries = 1
    MaxKills = 1
INVARIANTS
    UpIsReachable
    GhostTurnsAwayOnce
    AnsweredIsHeard
PROPERTIES
    HeardOrEnds
    ImplementsLobby
CHECK_DEADLOCK FALSE
