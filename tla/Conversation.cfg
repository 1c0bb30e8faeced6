CONSTANTS
    None = None
    MaxPackets = 4
    MaxL7StreamBytes = 50
    Conversations <- MCConversations
SPECIFICATION Spec
INVARIANTS
    DecodedAsSent
    CompleteHeadDecoded
    CaughtUp
    ModeFollowsDialogue
    BufferWithinLimit
    SuppressionEnds
CHECK_DEADLOCK FALSE
