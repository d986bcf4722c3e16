SPECIFICATION Spec
CONSTANTS
    MAX_NODE = 1
    Alias = {ann, bob}
    Sysops = {}
    None = None
    Months = 12
    MaxScore = 1
    MaxRecords = 3
PROPERTY ScoresKept
