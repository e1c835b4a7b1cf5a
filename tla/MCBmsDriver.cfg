CONSTANTS
    Period <- MCPeriod
    Tolerate <- MCTolerate
    Vehicles <- MCVehicles
SPECIFICATION DSpec
INVARIANTS
    
    StagesAreMeant
PROPERTIES
    FirstSilenceIsNoticed
    TerminationCompletes
