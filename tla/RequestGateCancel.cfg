SPECIFICATION GateSpec
CONSTANTS
    chat1 = chat1
    chat2 = chat2
    chat3 = chat3
    fim = fim
    batch = batch
    Request = {chat1, chat2}
    Priority <- MCPriority
    MaxInFlight = 1
    CancelWithPermit = TRUE
INVARIANT
    NoSlotLeaked
CHECK_DEADLOCK FALSE
