SPECIFICATION Spec
CONSTANTS
    Browsers = {b1, b2}
    MaxStarts = 3
    MaxApps = 3
    Forced = TRUE
    Missing = Missing
INVARIANTS
    Recoverable
    SavedAppMatchesKey
    SecretSurvives
PROPERTY FlowEnds
CHECK_DEADLOCK FALSE
