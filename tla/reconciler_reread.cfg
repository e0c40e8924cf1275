SPECIFICATION FairSpec
CONSTANTS
    NumTriggers = 2
    Profiles = {"normal", "shed"}
    Baseline = ""
    Undefined = "undefined"
    SwitchTo <- MCSwitchTo
    FromProfiles <- MCFromProfiles
    When <- MCWhen
    FilterSets <- OnlyAC
    Observations <- BothSamples
    Edits = {}
    MaxEdits = 0
    Faults = {}
    MaxFaults = 0
    MaxGen = 3
    MaxLag = 1
    HistoryMax = 2
    RtdsOn = TRUE
PROPERTY SwitchReachesRuntime
