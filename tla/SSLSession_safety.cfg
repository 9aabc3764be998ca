CONSTANTS
    Senders = {s1}
    MaxBytes = 2
    MaxChunk = 2
    MaxCloses = 2
    SendLimit = 2
SPECIFICATION FairSpec
INVARIANTS TypeOK OneAtATime
PROPERTIES ImplementsByteStream ClosesQuietly
CHECK_DEADLOCK FALSE
