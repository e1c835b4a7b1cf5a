CONSTANTS
    MaxWrites = 1
SPECIFICATION XSpec
INVARIANT OneContactor
PROPERTIES
    StoppedIsOpened
    WorkingIsConnected
