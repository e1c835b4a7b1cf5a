CONSTANTS
    MaxUsers = 3
    DiedLine <- MCDiedLine
    Reserved = {2}
    Talkative = {1, 3}
SPECIFICATION USpec
INVARIANTS
    NobodyStarves
PROPERTIES
    SilentIsReported
    AnsweringIsTakenBack
