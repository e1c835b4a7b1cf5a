CONSTANTS
    NrErrors = 3
    Modules = {2}
    Group = 3
    Columns = 6
    MaxRaised = 2
    MaxCleaned = 2
    MaxCrashed = 1
    MaxRefused = 0
SPECIFICATION ESpec
INVARIANT FaultsAreInTheTable
