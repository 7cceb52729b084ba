SPECIFICATION HSpec
CONSTANTS
    Callers = {c1, c2, c3}
    FailureThreshold = 2
    SuccessThreshold = 2
    Timeout = 2
INVARIANT SingleProbe
