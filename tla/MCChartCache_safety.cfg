CONSTANTS
    Charts = {c1, c2, c3, c4}
    NoChart = NoChart
    g_nCacheLimit = 2
    MaxQuilt = 2
    MaxBad = 1
    MaxDropped = 1
    Outcomes = {"ready", "unready", "retry", "remove"}
SYMMETRY Interchangeable
SPECIFICATION Spec
INVARIANTS TypeOK LocksOwned QuiltStays
PROPERTY OnlyPinnedBeyond
