SPECIFICATION Spec
CONSTANTS
    Policy = {a, b}
    Pod = {p1, p2}
    Selects <- Overlapping
    Class = {2, 5}
    SuccessRanges <- Default
    Shed = Shed
    MaxRequests = 3
    MaxDisruptions = 1
    Absent = Absent
INVARIANTS
    NothingInvented
    SteadyPodsAreCounted
    ExtremesAreHonest
