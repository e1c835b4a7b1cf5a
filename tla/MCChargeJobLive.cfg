CONSTANTS
    g0 = g0
    g1 = g1
    Gun = {g0}
    SYSTEM = SYSTEM
    Faults = {g0}
    Supplies <- Only12
    Levels = {0}
    NeedBilling = TRUE
    ManualNeedsAssist = FALSE
    Plan <- BothPlans
    Limit = 1
    MaxGiven = 1
SPECIFICATION CFairSpec
PROPERTIES AbortingJobLeaves TerminationHonoured
