CONSTANTS
    Replicas = {o1, o2}
    Wanted = 1
    Pods = {p1}
    Bundles = {b1, b2, b3}
    Parsable = {b1, b2}
    None = None
    MaxChanges = 2
    MaxFaults = 1
SPECIFICATION Spec
INVARIANTS TypeOK BadRulesStopNobody
PROPERTIES Delivered
CHECK_DEADLOCK FALSE
