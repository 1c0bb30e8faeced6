CONSTANTS
    SeqSpace = 16
    ISN = 13
    StreamBytes = 3
    Cuts <- JustOverlapping
    MaxStreamBytes = 6
    SynFirst = TRUE
    LateSyn = FALSE
SPECIFICATION Spec
PROPERTY GapFillReleases
