CONSTANTS
    FlowIds <- MCBothWays
    MaxFlows = 2
    FlowTimeout = 1
    Timestamps <- MCTimes
    InOrder = FALSE
    MaxPackets = 4
SPECIFICATION Spec
INVARIANT FindsOwnFlow
