CONSTANTS
    None = None
    Specs <- MCSpecs
    URLs <- MCURLs
    Bundles = {b1, b2}
    Parsable = {b1}
    OperatorAddr = operator
    MaxEdits = 2
    MaxForeign = 1
    MaxErrors = 1
SPECIFICATION FairSpec
INVARIANTS TypeOK ServedAtRest
PROPERTIES Converges DeletedLeavesNothing
CHECK_DEADLOCK FALSE
