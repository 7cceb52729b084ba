SPECIFICATION PHFairSpec
CONSTANTS
    Callers = {r1, r2}
    FailureThreshold = 3
    SuccessThreshold = 2
    Timeout = 2
    MaxRetries = 1
    RetryDelay = 1
INVARIANTS
    AnsweredOnce
PROPERTIES
    OneRequestCannotTrip
    EveryRequestAnswered
    HealthyUpstreamCloses
