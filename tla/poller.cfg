SPECIFICATION FairSpec
CONSTANTS
    NumTriggers = 2
    Profiles = {"shed", "slow"}
    Baseline = ""
    SwitchTo <- MCSwitchTo
    FromProfiles <- MCFromProfiles
    When <- MCWhen
    Config <- MCConfig
    Samples <- MCSamples
    Unreachable = Unreachable
    NoSignal = NoSignal
    MaxGen = 2
    MaxLives = 2
    MaxRestarts = 1
INVARIANTS
    TypeOK
    NewestIsNotLost
    PendingIsCurrent
    PollerBelongs
PROPERTIES
    Debounced
    DeliversTheTruth
    StopsWithPolicy
