CONSTANTS
    g0 = g0
    g1 = g1
    Gun = {g0, g1}
    SYSTEM = SYSTEM
    Faults = {SYSTEM}
    Supplies <- BothSupplies
    Levels = {0}
    NeedBilling = TRUE
    ManualNeedsAssist = FALSE
    Plan <- LimitPlan
    Limit = 2
    MaxGiven = 2
SYMMETRY Guns
SPECIFICATION CSpec
INVARIANTS EnergisedSafely FaultOpensOutputs NothingLeftOn NeverOverbilled
PROPERTIES BillingGetsItsTime ImplementsSession
