SPECIFICATION SFairSpec
CONSTANTS
    Requests = {r1, r2, r3, r4}
    MaxConcurrent = 2
    QueueTimeout = 2
    Checks = {h1, h2}
    Targets = {t1, t2}
    Mirrored = {m1}
    MaxBody = 3
INVARIANTS
    ServingTypes
    SlotsAccountedFor
    BothReadTheBody
    PeriodInv
PROPERTIES
    ReportsThePeriod
    EveryWaitEnds
    MirrorDelaysNobody
CHECK_DEADLOCK FALSE
