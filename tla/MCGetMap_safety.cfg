CONSTANTS
    MaxRequests = 2
    MaxLines = 1
    MaxSpurious = 1
    Commands <- AnyCommand
    SignalsOn = TRUE
    BindMayFail = TRUE
    DELAY_FOR_RESPONSE = 2
    GIVE_UP = 1
SPECIFICATION FairSpec
INVARIANTS TypeOK RetriesAreFutile
PROPERTIES ImplementsMapService EveryRequestAnswered ShutdownEnds RestartReturns
CHECK_DEADLOCK FALSE
