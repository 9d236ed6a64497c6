CONSTANTS
    HTTP = {h1}
    SPOE = {s1}
    None = None
    Verdicts <- MCVerdicts
    MaxFaults = 1
SPECIFICATION Spec
INVARIANTS TypeOK OneVersionDecides PathsAgree
PROPERTIES Exits
CHECK_DEADLOCK FALSE
