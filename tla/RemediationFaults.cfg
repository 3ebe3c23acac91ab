SPECIFICATION Spec
CONSTANTS
    None = None
    Incidents = {i1}
    Hashes = {h1, h2}
    Actions = {a1, a2}
    Executable = {a1}
    Delays = {0}
    MaxDecisions = 2
    MaxLosses = 1
    MaxEvents = 3
    MaxRestarts = 1
SYMMETRY HashSymmetry
CHECK_DEADLOCK FALSE
INVARIANTS
    TypeOK
    AppliedOnceInCalm
    ExecutionIsHonest
PROPERTIES
    AppliedWasAuthorised
    FinalInCalm
