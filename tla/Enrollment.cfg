CONSTANTS
    p1 = p1
    e1 = e1
    e2 = e2
    Pods = {p1, p2}
    Engines = {e1, e2}
    Config <- MCConfig
    Account <- MCAccount
    Operators = {o1, o2}
    CAs = {ca1, ca2}
    KeyPairs = {k1, k2, k3}
    Absent = Absent
    Torn = Torn
    MaxFaults = 2
SPECIFICATION FairSpec
INVARIANTS TypeOK PairMatches OneCA AnyReplicaAccepts StreamsToItsOwnEngine
PROPERTIES Recovers
