CONSTANTS
    NrErrors = 3
    Modules = {2}
    Group = 3
    Columns = 5
    MaxRaised = 2
    MaxCleaned = 1
    MaxCrashed = 1
    MaxRefused = 1
SPECIFICATION ESpec
INVARIANTS
    OpenRowsAreListed
    ListedIsRecorded
    NumbersAreDistinct
PROPERTIES
    EndIsFinal
    ImplementsJournal
    FlagIsRecorded
