SPECIFICATION ManagerLiveSpec
CONSTANTS
    Model = {"chat", "big"}
    Request = {"c1", "w1"}
    Wanted <- MCWanted
    Keep <- MCKeep
    Wide = {"w1"}
    Client = {"u"}
    Unwanted <- MCUnwanted
    Mover = "mover"
    Left = {"chat"}
    MaxMoves = 1
    MaxTimers = 3
    MaxEngines = 4
INVARIANTS
    OneEngine
    KeepAliveHolds
    TimersAccounted

    
CHECK_DEADLOCK FALSE
