CONSTANTS
    Senders = {s1, s2}
    MaxBytes = 3
    MaxChunk = 2
    MaxTasks = 1
    SendLimit = 3
    RecvLimit = 2
    RecvSize = 1
    MaxRecvSize = 4
SPECIFICATION FairSpec
INVARIANTS TypeOK OneAtATime NoForgottenBytes
PROPERTIES ImplementsByteStream Delivered
CHECK_DEADLOCK FALSE
