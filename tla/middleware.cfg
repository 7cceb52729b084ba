SPECIFICATION MSpec
CONSTANTS
    Requests = {r1, r2}
    Keys = {k1, k2}
    Burst = 2
    Rate = 2
    Unit = 3
    MaxTime = 4
    Uris = {u1, u2, u3}
    MaxEntries = 2
    CacheTTL = 1
    MaxFetch = 1
    Fingerprints = {f1, f2}
    DedupeTTL = 2
    WindowSize = 3
    Threshold = 2
    Gap = 2
    MaxRequests = 4
    Targets = 3
    Size = 8
    MaxCalls = 20
    MinLength = 3
    MaxLength = 5
    Count = 3
    Depth = 3
    MaxWrappers = 3
    MaxSize = 3
    MaxBytes = 2
    MaxForm = 1
    MaxParams = 1
    MinPieces = 2
INVARIANTS
    WindowInv
    WindowBound
    ComponentTypes
    StalenessBound
    RingIsRecent
    CountersAgree
    Even
    DeliversWritten
    FirstUsableWins
    RequestIntact
    OnlyTheAdmitted
    TrueStatus
    HonestHead
PROPERTIES
    DenialIsEarned
    NoLateDuplicate
    OneWarningEach
CHECK_DEADLOCK FALSE
