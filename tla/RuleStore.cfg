CONSTANTS
    Keys = {k1}
    Publishers = {p1}
    Handlers = {h1, h2}
    Shas = {s1, s2}
    None = None
    MaxPublish = 3
SPECIFICATION FairSpec
INVARIANTS TypeOK NoLostUpdate StoreInv
PROPERTIES NeverBackwards StreamCatchesUp ImplementsLatest
CHECK_DEADLOCK FALSE
