CONSTANTS
    p1 = p1
    e1 = e1
    e2 = e2
    Pods = {p1}
    Engines = {e1}
    Config <- MCConfig
    Account <- MCAccount
    Operators = {o1}
    CAs = {ca1}
    KeyPairs = {k1, k2, k3}
    Absent = Absent
    Torn = Torn
    MaxFaults = 1
SPECIFICATION FairSpec
PROPERTIES InvalidCertReenrolls
