SPECIFICATION MuxLiveSpec
CONSTANTS
    c1 = c1
    c2 = c2
    c3 = c3
    c4 = c4
    Request = {c1, c2, c3, c4}
    MaxInFlight = 2
    MaxStrays = 1
INVARIANTS
    OwnReply
    CountHonest
PROPERTIES
    WaitersLearn
    SleepersWake
    CloseEndsReader
CHECK_DEADLOCK FALSE
