SPECIFICATION Spec
CONSTANTS
    NumTriggers = 2
    Profiles = {"normal", "shed"}
    Baseline = ""
    Undefined = "undefined"
    SwitchTo <- MCSwitchTo
    FromProfiles <- MCFromProfiles
    When <- MCWhen
    FilterSets <- StreamOrAC
    Observations <- BothSamples
    Edits = {"profile", "filters", "dryRun", "override", "delete"}
    MaxEdits = 2
    Faults = {"detect", "patch", "response", "apply", "delete", "status", "crash"}
    MaxFaults = 1
    MaxGen = 4
    MaxLag = 0
    HistoryMax = 2
    RtdsOn = TRUE
INVARIANTS
    TypeOK
    ObservedTruthful
    ResourcesTracked
    OverrideOverrun
    DecisionsRecorded
