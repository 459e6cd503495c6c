SPECIFICATION Spec
CONSTANTS
    r1 = r1
    r2 = r2
    r3 = r3
    a = a
    b = b
    Block = {p1, p2, p3, p4}
    BlockSize = 2
    SeqId = {r1, r2, r3}
    Token = {a, b}
    Prompt <- MCPrompt
    NoBlock = NoBlock
    MaxLen = 7
    MaxRunning = 2
    MaxPrefillTokens = 3
    MaxNew <- MCMaxNew
SYMMETRY BlockSymmetry
INVARIANTS
    NoPanic
    SequenceKvFaithful
    CachedKvFaithful
    FirstComeFirstServed
    StreamFaithful
    RunningAgreed
PROPERTIES
    KvSpec
CHECK_DEADLOCK FALSE
