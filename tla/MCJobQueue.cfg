CONSTANTS
    NULL = NULL
    t1 = t1
    t2 = t2
    t3 = t3
    t4 = t4
    Jid = {t1, t2, t3, t4}
    MaxWait = 1
    MaxCommits = 5
SPECIFICATION QSpec
SYMMETRY Ids
INVARIANTS
    NeverUndercounted
    WaitIsBounded
PROPERTIES
    FirstComeFirstServed
    ImplementsStation
CHECK_DEADLOCK FALSE
