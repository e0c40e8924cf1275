SPECIFICATION Spec
CONSTANTS
    Policy = {a, b}
    Pod = {p1, p2}
    Selects <- Separate
    Class = {2, 5}
    SuccessRanges <- Default
    Shed = Shed
    MaxRequests = 1
    MaxDisruptions = 0
    Absent = Absent
INVARIANT HistoryIsKept
