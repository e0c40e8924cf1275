SPECIFICATION Spec
CONSTANTS
    Node = {e1}
    Layer = {ac}
    MaxConns = 2
    MaxPushes = 1
INVARIANT ConnectedAreRegistered
CHECK_DEADLOCK FALSE
