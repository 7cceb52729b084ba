SPECIFICATION GatewaySpec
CONSTANTS
    Callers = {r1}
    FailureThreshold = 1
    SuccessThreshold = 1
    Timeout = 1
    Kinds = {"get"}
    Uris = {u1}
    Targets = 1
    MaxAttempts = 1
INVARIANT PanicCannotCrash
CHECK_DEADLOCK FALSE
