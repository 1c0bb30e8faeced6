CONSTANTS
    NumThreads = 2
    RoundRobin = TRUE
    Disciplined = FALSE
    NoPacket = NoPacket
    main = main
    feeder = feeder
    p1 = p1
    p2 = p2
    p3 = p3
    Packets <- ThreePackets
    Malformed <- OneMalformed
    HashOf <- MCHash
    Clients <- MCClients
    Ops <- OwnerOps
SPECIFICATION Spec
SYMMETRY Symmetry
CHECK_DEADLOCK FALSE
INVARIANTS
    TypeOK
    FifoConservation
    CountersAccount
    NoLostWakeup
    NoTerminate
    StrandedOnlyByRace
PROPERTIES
    FlushCovers
    StopDrains
