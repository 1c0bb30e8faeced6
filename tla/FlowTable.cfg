CONSTANTS
    FlowIds <- MCFlowIds
    MaxFlows = 2
    FlowTimeout = 1
    Timestamps <- MCTimes
    InOrder = TRUE
    MaxPackets = 4
SPECIFICATION Spec
INVARIANTS
    TypeOK
    DescribesConversation
    WithinCapacity
PROPERTY KeepsTheActive
