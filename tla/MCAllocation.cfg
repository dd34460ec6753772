CONSTANTS
    l1 = l1  l2 = l2  l3 = l3  h1 = h1  h2 = h2  h3 = h3
    Host = {1, 2}
    Dnn <- PreemptDnn
    Offers <- PreemptOffers
    Cores = 4
    LowTime = 10
    FtpLowCore = 2
    FtpLowTime = 20
    FtpHighCore = 4
    FtpHighTime = 14
    Duration <- MCDuration
    MaxNow = 2
    NoHost = 0
SPECIFICATION FairSpec
INVARIANTS
    TypeOK BooksAgree LinksBooked PhasesInOrder HighMeetsDeadline
    Accounted OnlyHaltsOrphan
PROPERTIES LowServed OnlyLowsOverbook
CHECK_DEADLOCK FALSE
