CONSTANTS
    MessageKinds = {"get", "post", "text", "bad"}
    MaxMessages = 3
SPECIFICATION Spec
INVARIANT SplitNotified
CHECK_DEADLOCK FALSE
