CONSTANTS
    MaxRequests = 1
    MaxLines = 1
    MaxSpurious = 0
    Commands <- OnlyRestart
    SignalsOn = FALSE
    BindMayFail = FALSE
    DELAY_FOR_RESPONSE = 2
    GIVE_UP = 1
SPECIFICATION FairSpec
PROPERTY RestartCompletes
CHECK_DEADLOCK FALSE
