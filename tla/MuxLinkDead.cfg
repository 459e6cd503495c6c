SPECIFICATION MuxLiveSpec
CONSTANTS
    c1 = c1
    c2 = c2
    c3 = c3
    c4 = c4
    Request = {c1}
    MaxInFlight = 1
    MaxStrays = 0
PROPERTY
    EveryCallReturns
CHECK_DEADLOCK FALSE
