SPECIFICATION Spec
CONSTANTS
    Requests = {r1, r2}
    Fingerprints = {f1}
    TTL = 2
INVARIANT NoDuplicateInFlight
