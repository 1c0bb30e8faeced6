CONSTANTS
    SeqSpace = 16
    ISN = 13
    StreamBytes = 6
    Cuts <- OnceOrAnyhow
    MaxStreamBytes = 6
    SynFirst = TRUE
    LateSyn = FALSE
SPECIFICATION FairSpec
INVARIANTS
    TypeOK
    DeliversInOrder
    NothingWithheld
    WithinLimit
    AccountBalanced
    RetransmissionsWereSeen
PROPERTY StreamCompletes
