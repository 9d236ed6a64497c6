CONSTANTS
    None = None
    Specs <- MCSpecs
    URLs <- MCURLs
    Bundles = {b1, b2}
    Parsable = {b1}
    OperatorAddr = operator
    MaxEdits = 1
    MaxForeign = 1
    MaxErrors = 0
SPECIFICATION FairSpec
PROPERTY SteadyStateIsSilent
CHECK_DEADLOCK FALSE
