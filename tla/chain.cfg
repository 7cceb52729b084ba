SPECIFICATION HChainSpec
CONSTANTS
    Callers = {r1, r2}
    FailureThreshold = 2
    SuccessThreshold = 1
    Timeout = 1
    Kinds = {"get", "preflight", "other"}
    Uris = {u1}
    Targets = 2
    MaxAttempts = 2
INVARIANTS
    ChainInv
    EarnedAnswers
    OneResultPerRequest
    GivesUpAfterAllBackends
