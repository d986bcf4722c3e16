SPECIFICATION FairSpec
CONSTANTS
    Node = {n1, n2}
    Sysops = {n1}
    Frequencies = {2, 4}
    ClueLimits = {0, 1}
    Frequency0 = 4
    ClueLimit0 = 1
    Reloads = {TRUE, FALSE}
    ClockSteps = {1}
    MaxGap = 2
    MaxElapsed = 5
    MaxSkips = 2
    MaxScore = 0
PROPERTIES
    QuestionTimely
    QuestionEnds
