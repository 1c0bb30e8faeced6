CONSTANTS
    None = None
    MaxPackets = 4
    MaxL7StreamBytes = 50
    Conversations <- MCConversations
SPECIFICATION Spec
INVARIANTS
    ContentSuppressed
CHECK_DEADLOCK FALSE
