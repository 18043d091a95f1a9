SPECIFICATION Spec
CONSTANTS
    Request <- MCRequest
    Deployment <- MCReleaseAlone
    MaxTime = 4
    MaxCalls = 5
    Window = 2
    MaxRequests = 2
    RetrySpacing = 1
    DenyCooldown = 1
    HaltCooldown = 2
    PressureSimilarity = 750
    AmbiguousSimilarity = 400
    RetryBlock = 2
    PressureEscalation = 3
    DenialHistory = 2
    SignalHistory = 4
    StaleAfter = 60
    MinReliability <- MCMinReliability
    Disagreement = 500
    HaltDisagreement = 700
    ReleaseCooldown = 1
    RequiredEvidence <- MCEvidence
    Budget <- MCBudget
    DelayOnExhaustion = FALSE
CHECK_DEADLOCK FALSE
PROPERTY CleanCycleClears
