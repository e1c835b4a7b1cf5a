CONSTANTS
    NULL = NULL
    t1 = t1
    t2 = t2
    t3 = t3
    t4 = t4
    Jid = {t1, t2, t3, t4}
    MaxWait = 2
    MaxCommits = 3
SPECIFICATION QSpec
SYMMETRY Ids
INVARIANTS
    NoRequestIsLost
CHECK_DEADLOCK FALSE
