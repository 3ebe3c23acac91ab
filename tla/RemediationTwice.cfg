SPECIFICATION Spec
CONSTANTS
    None = None
    Incidents = {i1}
    Hashes = {h1}
    Actions = {a1}
    Executable = {a1}
    Delays = {0}
    MaxDecisions = 1
    MaxLosses = 1
    MaxEvents = 3
    MaxRestarts = 0
CHECK_DEADLOCK FALSE
INVARIANT AppliedOnce
