SPECIFICATION Spec
CONSTANTS
    None = None
    Sweeper = sweeper
    Incidents = {i1}
    Hashes = {h1}
    Actions = {a1, a2}
    Workers = {w1}
    Requests = {r1}
    TTL = 1
    Grace = 1
    Durable = TRUE
    Punctual = TRUE
    MaxTime = 2
    MaxDiagnoses = 2
    MaxCrashes = 0
INVARIANT ApprovedWhatWasRead
