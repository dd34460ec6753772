CONSTANTS
    LowDnn = {l1}
    HighDnn = {h1}
    Host = {1, 2}
    MaxTime = 2
    MaxRun = 1
    NoDnn = NoDnn
    SrcHost <- MCSrcHost
    AllocatedHost <- MCAllocatedHost
    NoHost = NoHost
    r1 = r1  r2 = r2
    Registration = {r1, r2}
    From <- MCFrom
    ClientCount = 2
SPECIFICATION StartupFairSpec
INVARIANTS StartupTypeOK LowNeverLost ReadyWhenTold
PROPERTIES OutboxSpec AllTold LowDelivered
CHECK_DEADLOCK FALSE
