SPECIFICATION Spec
CONSTANTS
    Engine = {"e1", "e2"}
    Model = {"m1", "m2"}
    Thread = {t1, t2}
    ModelOf <- OneModelEach
    LayoutOf <- OwnLayout
    Window <- ShortWindow
    Served <- Turns
    Budgets = {0, 3}
    MaxRequests = 3
    MaxClock = 1
    MaxFaults = 1
INVARIANTS
    ImportFaithful
    SweepSparesWriter
    Durable
PROPERTY CollectionFits
CHECK_DEADLOCK FALSE
SYMMETRY ThreadSymmetry
