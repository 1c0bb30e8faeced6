CONSTANTS
    NumThreads = 4
    RoundRobin = FALSE
    Disciplined = TRUE
    NoPacket = NoPacket
    HashedBytes = 40
    HashWidth = 16
    main = main
    p1 = p1
    p2 = p2
    p3 = p3
    Packets <- MCPackets
    Malformed = {}
    HashOf <- MCHash
    Clients <- MCClients
    Ops <- MCOps
SPECIFICATION Spec
INVARIANT FlowAffinity
