SPECIFICATION Spec
CONSTANTS
    None = None
    Sweeper = sweeper
    Incidents = {i1}
    Hashes = {h1}
    Actions = {a1}
    Workers = {w1}
    Requests = {r1, r2}
    TTL = 1
    Grace = 1
    Durable = TRUE
    Punctual = TRUE
    MaxTime = 2
    MaxDiagnoses = 1
    MaxCrashes = 0
PROPERTY DecisionWrittenOnce
