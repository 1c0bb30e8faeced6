CONSTANTS
    NumThreads = 2
    RoundRobin = FALSE
    Disciplined = FALSE
    NoPacket = NoPacket
    main = main
    feeder = feeder
    p1 = p1
    p2 = p2
    p3 = p3
    Packets <- TwoPackets
    Malformed <- OneMalformed
    HashOf <- MCHash
    Clients <- MCClients
    Ops <- SharedOps
SPECIFICATION Spec
CHECK_DEADLOCK FALSE
INVARIANTS
    FifoConservation
    CountersAccount
    NoLostWakeup
