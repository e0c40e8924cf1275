SPECIFICATION Spec
CONSTANTS
    Overrides <- MCOverrides
    Baseline = ""
    Selector <- MCSelector
    App = "app"
    Specs <- MCSpecs
    RtdsOn = TRUE
INVARIANTS
    TypeOK
    ClusterTracked
PROPERTIES
    SwitchKeepsResources
    SwitchDelivers
