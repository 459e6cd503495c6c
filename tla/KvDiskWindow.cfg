SPECIFICATION Spec
CONSTANTS
    Engine = {"e1"}
    Model = {"m1"}
    Thread = {t1}
    ModelOf <- OneModelEach
    LayoutOf <- OwnLayout
    Window <- LongWindow
    Served <- Turns
    Budgets = {0}
    MaxRequests = 3
    MaxClock = 0
    MaxFaults = 0
INVARIANT ImportFaithful
CHECK_DEADLOCK FALSE
