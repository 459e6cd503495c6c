SPECIFICATION KvSpec
CONSTANTS
    s1 = s1
    s2 = s2
    s3 = s3
    a = a
    b = b
    Block = {p1, p2, p3, p4, p5}
    BlockSize = 2
    SeqId = {s1, s2, s3}
    Token = {a, b}
    Prompt <- MCPrompt
    NoBlock = NoBlock
    MaxLen = 5
SYMMETRY BlockSymmetry
INVARIANTS
    NoDoubleUse
    NoLeak
    RefsExact
    TablesCover
    CanAppendCovers
