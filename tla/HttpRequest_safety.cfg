CONSTANTS
    MessageKinds = {"get", "post", "text", "bad"}
    MaxMessages = 3
SPECIFICATION Spec
INVARIANTS TypeOK RequestsExact AlignedNotified
CHECK_DEADLOCK FALSE
