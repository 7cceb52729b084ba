SPECIFICATION HFairSpec
CONSTANTS
    Callers = {c1, c2, c3}
    FailureThreshold = 2
    SuccessThreshold = 2
    Timeout = 2
INVARIANTS
    HistoryInv
PROPERTIES
    TripsOnlyOnStreak
    ClosesOnlyAfterTrial
    CoolDownIsRespected
    ImplementsContract
    OpenCoolsDown
