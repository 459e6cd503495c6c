SPECIFICATION GateLiveSpec
CONSTANTS
    chat1 = chat1
    chat2 = chat2
    chat3 = chat3
    fim = fim
    batch = batch
    Request = {chat1, chat2, chat3, fim, batch}
    Priority <- MCPriority
    MaxInFlight = 2
    CancelWithPermit = FALSE
INVARIANTS
    PermitsOwned
    NoIdlePermit
    TrackedFaithful
PROPERTIES
    NoOvertaking
    QueuedIsServed
CHECK_DEADLOCK FALSE
