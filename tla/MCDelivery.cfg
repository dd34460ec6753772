CONSTANTS
    LowDnn = {}
    HighDnn = {h1, h2}
    Host = {1, 2}
    SrcHost <- MCSrcHost
    AllocatedHost <- MCAllocatedHost
    NoHost = NoHost
    MaxTime = 1
    MaxRun = 1
    NoDnn = NoDnn
SPECIFICATION DeliverySpec
SYMMETRY HighSymmetry
INVARIANTS DeliveryTypeOK NoOrphans BookedIsHeld SpoiltIsHalted
PROPERTIES HaltIsLast OutboxSpec
CHECK_DEADLOCK FALSE
