CONSTANTS
    A = A
    B = B
    s1 = s1
    s2 = s2
    t1 = t1
    t2 = t2
    FirstRef <- MCFirstRef
    First <- MCFirst
    RuleSets = {A, B}
    Engines = {e1}
    Sources = {s1, s2}
    Texts = {t1, t2}
    Bad = {t2}
    Refs <- MCRefs
    Installed = TRUE
    None = None
    MaxEdits = 2
    MaxFaults = 0
SPECIFICATION Spec
CHECK_DEADLOCK FALSE
INVARIANT QuietStatus
