CONSTANTS
    Keys = {k1}
    Publishers = {p1}
    Handlers = {h1}
    Shas = {s1, s2}
    None = None
    MaxPublish = 3
SPECIFICATION FairSpec
PROPERTIES PublishReturns
CHECK_DEADLOCK FALSE
