CONSTANTS
    HTTP = {h1}
    SPOE = {s1}
    None = None
    Verdicts <- MCVerdicts
    MaxFaults = 1
SPECIFICATION Spec
INVARIANT DetectionPassesTraffic
CHECK_DEADLOCK FALSE
