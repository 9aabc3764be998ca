CONSTANTS
    c1 = c1
    c2 = c2
    c3 = c3
    p1 = p1
    p2 = p2
    Charts = {c1, c2, c3}
    Paths = {p1, p2}
    PathOf <- Reopened
    MaxJobs = 1
    Throws = FALSE
SPECIFICATION Spec
INVARIANT NoDanglingChart
CHECK_DEADLOCK FALSE
