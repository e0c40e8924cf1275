SPECIFICATION FairSpec
CONSTANTS
    Node = {e1, e2}
    Layer = {ac, acc}
    MaxConns = 2
    MaxPushes = 3
INVARIANTS
    TypeOK
    HoldsCurrent
    DeadStreamsLeave
PROPERTIES
    NoRollback
    PushReturns
CHECK_DEADLOCK FALSE
