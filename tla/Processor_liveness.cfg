CONSTANTS
    NumThreads = 2
    RoundRobin = TRUE
    Disciplined = TRUE
    NoPacket = NoPacket
    main = main
    feeder = feeder
    p1 = p1
    p2 = p2
    p3 = p3
    Packets <- TwoPackets
    Malformed <- OneMalformed
    HashOf <- MCHash
    Clients <- MCClients
    Ops <- OwnerOps
SPECIFICATION FairSpec
PROPERTIES
    StopReturns
    FlushReturns
    ImplementsService
