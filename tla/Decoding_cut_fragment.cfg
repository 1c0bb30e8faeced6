CONSTANTS
    None = None
    EnableDefragmentation = TRUE
    MaxPackets = 2
    MaxHeard = 3
    Captures <- JustCutFragments
    Datagrams <- MCDatagrams
    Units <- MCUnits
    KeyOf <- MCKeyOf
    Fragments <- MCFragments
    Beyond = Beyond
SPECIFICATION DecoderSpec
INVARIANT ReturnsFragmentData
CHECK_DEADLOCK FALSE
