CONSTANTS
    Worker = {w1, w2}
    Handler = {h1}
    MainLoop = main
    CommLoop = comm
    NoThread = none
SPECIFICATION FairSpec
INVARIANTS ThreadsTypeOK NoCycle OnlyKnownRaces
PROPERTY SchedulerRuns
CHECK_DEADLOCK FALSE
