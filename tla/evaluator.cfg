SPECIFICATION FairSpec
CONSTANTS
    NumTriggers = 2
    Profiles = {"normal", "shed"}
    Baseline = ""
    SwitchTo <- MCSwitchTo
    FromProfiles <- MCFromProfiles
    When <- MCWhen
    Cooldown <- MCCooldown
    LongestCooldown = 2
    TriggerEdits <- MCTriggerEdits
    Samples <- MCSamples
    MaxFaults = 1
    Window = 3
INVARIANTS
    CooldownRespected
    FiringIsBacked
    NoMissedFire
PROPERTY LastingBreachSwitches
