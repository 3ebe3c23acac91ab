SPECIFICATION Spec
CONSTANTS
    None = None
    Sweeper = sweeper
    Incidents = {i1}
    Hashes = {h1}
    Actions = {a1, a2}
    Workers = {w1}
    Requests = {r1, r2}
    TTL = 1
    Grace = 1
    Durable = FALSE
    Punctual = FALSE
    MaxTime = 4
    MaxDiagnoses = 1
    MaxCrashes = 1
SYMMETRY Symmetry
INVARIANTS
    TypeOK
    AuthorisationHasItsToken
    TokenAnswersQuestion
    ExpiryIsNotEarly
    AnswerIsBacked
