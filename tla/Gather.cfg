SPECIFICATION Spec
CONSTANTS
    Job = {"j1", "j2", "j3", "j4"}
    Key = {"image"}
    KeyOf <- Keys
    Cap <- Caps
INVARIANTS
    OneRunner
    OwnAnswer
PROPERTIES
    KeepsPromise
    EverySubmitReturns
CHECK_DEADLOCK FALSE
