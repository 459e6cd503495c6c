SPECIFICATION AdmSpec
CONSTANTS
    q1 = q1
    q2 = q2
    q3 = q3
    Request = {q1, q2, q3}
    Priority <- MCPriority
    MaxInFlight = 1
    CancelWithPermit = FALSE
    SwitchAfter = 1
    Constrained = {q3}
    Workers = {"paged", "kept"}
    ClientsLeave = TRUE
SYMMETRY RequestSymmetry
INVARIANTS
    OneWayServes
    OneWayMediaOwn
    StreamHoldsNoGate
PROPERTIES
    GateSpec
CHECK_DEADLOCK FALSE
