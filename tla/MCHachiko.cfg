CONSTANTS
    NULL = NULL
    f1 = f1
    f2 = f2
    Food = {f1, f2}
    NR_POOL = 2
    MaxTtl = 2
    Callers = {"pause", "resume", "feed"}
SPECIFICATION Spec
INVARIANTS
    SlotDiscipline
    RegistrationSucceeds
PROPERTIES
    OnTime
    KilledLeaves
    TimerFires
