CONSTANTS
    MaxEvents = 3
    MaxUpdates = 2
    MaxDays = 1
    MaxFaults = 1
SPECIFICATION Spec
INVARIANT TypeOK
INVARIANT PartialHasCause
INVARIANT UpdateNeverMissed
INVARIANT BuildSettles
INVARIANT NotOlderThanAsked
