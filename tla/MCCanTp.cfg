CONSTANTS
    Packs <- MCPacks
    Pgn <- MCPgn
    MaxLost = 3
    MaxJobs = 1
SPECIFICATION Spec
INVARIANT AcknowledgedIsDelivered
PROPERTY ImplementsChannel
