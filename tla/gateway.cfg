SPECIFICATION GatewayFairSpec
CONSTANTS
    Callers = {r1, r2}
    FailureThreshold = 1
    SuccessThreshold = 1
    Timeout = 1
    Kinds = {"get"}
    Uris = {u1}
    Targets = 1
    MaxAttempts = 1
INVARIANTS
    GatewayInv
PROPERTIES
    NoGoroutineLeak
    ImplementsGateway
CHECK_DEADLOCK FALSE
