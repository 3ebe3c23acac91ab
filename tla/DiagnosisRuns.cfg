SPECIFICATION Spec
CONSTANTS
    None = None
    Malformed = Malformed
    Runs = {d1, d2}
    Contracts <- FewContracts
    Payload <- FewPayloads
    SCALAR_MAX_LENGTH = 3
    MIN_QUOTED_LENGTH = 2
    Answers <- FewAnswers
    Threshold = 50
    MaxRetries = 1
    Deadline = 2
    Waits = {0}
    MaxRetryAfter = 1
    Usages = {1}
    Prompt = FALSE
    MaxTime = 3
SYMMETRY Symmetry
CHECK_DEADLOCK FALSE
INVARIANTS
    TypeOK
    DiagnosedIsVerified
    QuotedWasCollected
    NoSignalNoCall
    AbstainsForAReason
PROPERTY KeepsItsPromise
