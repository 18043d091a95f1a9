SPECIFICATION MCSpec
CONSTANTS
    t1 = t1  t2 = t2  o1 = o1  o2 = o2
    Event <- MCEvent
    ManualOwner = {"a"}
    MaxCrashes = 1
    MaxFailures = 1
    MaxManual = 1
    Client = {t1, t2}
    Path = {"context", "feed_usage", "usage_reset"}
    AdminOnly = {"usage_reset"}
    TelemetryPath = {"feed_usage"}
    DefaultPath = {"context", "feed_usage"}
    Kind <- MCKind
    StoreRecord <- MCStore
    MaxEdits = 1
    LastSecond = 2
    Thread = {t1, t2}
    Decision <- MCDecision
    QueueCap = 1
    TimeToLive = 1
    EpochLength = 2
    MaxArrivals = 3
    MaxClock = 1
    Server = {t1}
    Owner = {o1, o2}
    Asked <- MCAsked
    Refusal <- MCRefusal
    HistoryCap = 1
    PriorReach = 1
    MaxDecisions = 2
    MaxLostWrites = 1
    MaxRestarts = 1
    Recorder = {t1, t2}
    Observed <- MCObserved
    ShortWindow = 1
    MediumWindow = 3
    Found <- MCFound
    RecordCap = 4
    Gap = {1}
    MaxRecords = 2
    MaxActs = 1
    MaxStops = 1
    MaxBadWrites = 1
    Line = {t1, t2}
    Holder = {"holder"}
    Payment = {"p1"}
    PayerOf <- MCPayerOf
    TierAsked <- MCTierAsked
    Cadence <- MCCadence
    Included <- MCIncluded
    MonthLength = 1
    Rolling = 1
    MaxInstant = 1
    MaxServed = 2
    MaxFaults = 1
    Entry = {"stage_a"}
    StageA = "stage_a"
    MaxMerges = 1
    MaxWritten = 1
    MaxBriefs = 1
    Fixture <- MCFixture
    ProofRecord <- MCProofRecord
    Observed24h = 1
    RepeatThreshold = 2
    GeneratedAt = {3}
    Publication <- MCPublication
    Listing <- MCListing
    MaxPublished = 2
    Regime = {"Stress", "Elevated Fragility", "Stable"}
    Setting <- MCSetting
    Request <- MCRequest
    Shelf <- MCShelf
    Answerer = {t1}
    Outcome <- MCOutcome
    RecordLimit = 4
    WindowLimit = 3
CHECK_DEADLOCK FALSE
INVARIANTS EventsHandledOnce KeyFollowsItsEvents SerialCallsRanked
    ProofTellsOutcome DeliveriesMeteredAndPaid AcceptedOnMainAndSeen
    BriefIsHonest DisagreementShown RateOverrunBounded GateHolds
    MemoryOnlyInforms HeavierNeverCalms IssuedProofsLast
PROPERTY EscalationsKept
