SPECIFICATION HSpec
CONSTANTS
    Checks = {h1, h2}
    Targets = {t1}
INVARIANT NoFalseAlarm
