SPECIFICATION FairSpec
CONSTANTS
    NumTriggers = 2
    Profiles = {"normal", "shed"}
    Baseline = ""
    Undefined = "undefined"
    SwitchTo <- MCSwitchTo
    FromProfiles <- MCFromProfiles
    When <- MCWhen
    FilterSets <- OnlyAC
    Observations <- BothSamples
    Edits = {"profile", "dryRun", "delete"}
    MaxEdits = 1
    Faults = {"patch", "response", "apply", "status", "crash"}
    MaxFaults = 1
    MaxGen = 3
    MaxLag = 1
    HistoryMax = 2
    RtdsOn = TRUE
INVARIANT RuntimeFollowsProfile
PROPERTIES
    AppliedConverges
    DeletionCleansUp
