SPECIFICATION Spec
CONSTANTS
    None = None
    Incidents = {i1}
    Threads = {"json"}
    Durable = FALSE
    MaxVerdicts = 2
    MaxEvents = 4
    Releases = {1, 2, 3}
    Columns = {"token", "action", "contract"}
    AddedIn <- MCAddedIn
    MaxKills = 4
    Kinds = {"Deployment", "DaemonSet"}
    Want = 1
    Surge <- MCSurge
    ReadyWithin = 3
    StableFor = 3
    Poll = 2
    MaxGeneration = 3
    MaxTick = 11
    Catalogue = {p1, p2}
    Diagnosable = {p1}
    Absent = Absent
    BatchSize = 1
    MaxFailures = 2
    MaxRuns = 4
    MaxSteps = 8
    Deaths <- MCDeaths
    StablePeriod = 1
    MaxDeaths = 2
    MaxPending = 1
    MaxAge = 1
CHECK_DEADLOCK FALSE
INVARIANTS
    ShadowIsNeverDecided
    StampIsHonest
    OpenIsComplete
    FlapIsSeen
    CountedOnce
    FinishedIsComplete
    LogsAreNotOlder
    InitKillIsNamed
PROPERTIES
    RecordsOfferNothing
    NothingIsUntold
    RatedOnce
    RefusedForAReason
    AcceptedIsSound
    VerdictIsKept
    EveryClickIsAnswered
    OpensAgain
    TrackingEnds
    FailureIsTold
