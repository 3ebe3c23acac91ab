SPECIFICATION FairSpec
CONSTANTS
    None = None
    Malformed = Malformed
    Runs = {d1}
    Contracts <- FewContracts
    Payload <- FewPayloads
    SCALAR_MAX_LENGTH = 3
    MIN_QUOTED_LENGTH = 2
    Answers <- BriefAnswers
    Threshold = 50
    MaxRetries = 2
    Deadline = 7
    Waits = {0, 1, 3}
    MaxRetryAfter = 2
    Usages = {0}
    Prompt = TRUE
    MaxTime = 9
CHECK_DEADLOCK FALSE
INVARIANT EndsByDeadline
PROPERTY EveryRunIsAnswered
