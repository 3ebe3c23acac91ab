SPECIFICATION FairSpec
CONSTANTS
    None = None
    Incidents = {i1}
    Hashes = {h1}
    Actions = {a1}
    Executable = {a1}
    Delays = {0}
    MaxDecisions = 2
    MaxLosses = 1
    MaxEvents = 3
    MaxRestarts = 1
CHECK_DEADLOCK FALSE
PROPERTIES
    EveryApprovalIsActedOn
    SeenIsDiagnosed
