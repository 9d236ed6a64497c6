CONSTANTS
    IDs = {"1", "2"}
    NoID = NoID
    None = None
    Texts <- MCTexts
    Label = "SecRules/x"
    Other = "SecRules/other"
    MaxEdits = 2
    MaxErrors = 1
    MaxRestarts = 1
SPECIFICATION FairSpec
INVARIANT DetectsDuplicates
CHECK_DEADLOCK FALSE
