SPECIFICATION Spec
CONSTANTS
    N = 3
    Policies <- MCPolicies
    NoCamera = NoCamera
    None = NoCamera
CHECK_DEADLOCK FALSE
INVARIANT CloseMeansIdle
INVARIANT TurnBound
PROPERTY NothingAfterClose
PROPERTY FrameAnswered
