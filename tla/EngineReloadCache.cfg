CONSTANTS
    b1 = b1
    b2 = b2
    bad = bad
    Bundles = {b1, b2, bad}
    Bad = {bad}
    Rules <- MCRules
    Clients = {c1}
    CachePath = TRUE
    Absent = Absent
    Torn = Torn
    MaxReceived = 1
SPECIFICATION Spec
INVARIANT RestartUsesCache
