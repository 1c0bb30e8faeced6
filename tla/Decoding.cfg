CONSTANTS
    None = None
    EnableDefragmentation = TRUE
    MaxPackets = 2
    MaxHeard = 3
    Captures <- MCCaptures
    Datagrams <- MCDatagrams
    Units <- MCUnits
    KeyOf <- MCKeyOf
    Fragments <- MCFragments
    Beyond = Beyond
SPECIFICATION DecoderSpec
INVARIANTS
    ReturnsWholeDatagrams
    HoldsOnlyIncomplete
    FlowAsSent
    FlowIdFromOneLevel
    StaysInCapture
    QuotedFlow
    DetectsAsHeard
    MessagesRestored
    CutInventsNothing
CHECK_DEADLOCK FALSE
