CONSTANTS
    A = A
    B = B
    s1 = s1
    s2 = s2
    t1 = t1
    t2 = t2
    FirstRef <- MCFirstRef
    First <- MCFirst
    RuleSets = {A}
    Engines = {e1}
    Sources = {s1}
    Texts = {t1, t2}
    Bad = {}
    Refs <- MCRefs
    Installed = FALSE
    None = None
    MaxEdits = 1
    MaxFaults = 1
SPECIFICATION FairSpec
INVARIANTS MountsExist
PROPERTIES EngineConverges EngineReportsFailure
CHECK_DEADLOCK FALSE
