SPECIFICATION Spec
CONSTANTS
    None = None
    Malformed = Malformed
    Runs = {d1}
    Contracts <- OneContract
    Payload <- OnePayload
    SCALAR_MAX_LENGTH = 3
    MIN_QUOTED_LENGTH = 2
    Answers <- SoundAnswers
    Threshold = 50
    MaxRetries = 1
    Deadline = 4
    Waits = {0}
    MaxRetryAfter = 2
    Usages = {1}
    Prompt = TRUE
    MaxTime = 5
CHECK_DEADLOCK FALSE
INVARIANT TokensAreItsOwn
