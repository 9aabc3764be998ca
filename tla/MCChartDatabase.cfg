CONSTANTS
    Paths = {1, 2, 3}
    PluginPaths = {2, 3}
    NameOf <- TwoCopies
    Dirs <- Overlapping
    MaxDate = 2
    Near = 1
    MaxStack = 100
    MaxDisturbed = 1
    MaxCalls = 2
    MaxRuns = 2
SPECIFICATION DatabaseSpec
INVARIANTS DatabaseTypeOK NewestPluginFound ListIsKept NoChartHidden
CHECK_DEADLOCK FALSE
