\* Two requests and two detached tasks of one address, and a restart.
SPECIFICATION BlockFairSpec
CONSTANTS
    Addresses = {i1}
    Requests = {r1, r2}
    Tasks = {t1, t2}
    Threshold = 2
    Limit = 3
    MaxFailed = 4
    MaxBlocks = 2
    MaxRestarts = 1
    NoAddress = NoAddress
INVARIANTS
    BlockTypeOK
    LimitOvershootBounded
    DebtIsAnswered
    EscalatesOncePerBlock
PROPERTIES
    HistoryIsKept
    TemporaryBlocksEnd
