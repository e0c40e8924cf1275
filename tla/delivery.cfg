SPECIFICATION FairDelivery
CONSTANTS
    NumTriggers = 1
    Profiles = {"shed"}
    Baseline = ""
    Undefined = "undefined"
    SwitchTo <- MCSwitchTo
    FromProfiles <- MCFromProfiles
    When <- MCWhen
    FilterSets <- OnlyAC
    Observations <- Samples
    Edits = {}
    MaxEdits = 0
    Faults = {"crash", "patch"}
    MaxFaults = 1
    MaxGen = 3
    MaxLag = 1
    HistoryMax = 1
    RtdsOn = TRUE
    Node = {e1}
    MaxConns = 2
    MaxPushes = 2
INVARIANT EnvoysFollowProfile
PROPERTIES
    ImplementsServer
    ReconcilesGoOn
