CONSTANTS
    MaxSessions = 6
    MaxCalls = 4
    BindMayFail = TRUE
    ServiceStops = TRUE
SPECIFICATION FairSpec
INVARIANTS TypeOK OneAcceptChain
PROPERTIES ImplementsListener 
CHECK_DEADLOCK FALSE
