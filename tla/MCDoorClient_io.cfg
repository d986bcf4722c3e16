SPECIFICATION Spec
CONSTANTS
    Kits = {"xsdk", "opendoors"}
    nMaxLength = 2
    LockedUp = 5
    sec_warn = 1
    sec_timeout = 2
    MaxOut = 2
    MaxNow = 3
INVARIANTS
    AskAnsweredOnce
    ErasesOnlyPrompt
    GoodbyeIsSaid
    OnlyTheIdleTimeOut
CHECK_DEADLOCK FALSE
