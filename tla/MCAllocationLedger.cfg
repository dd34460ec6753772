CONSTANTS
    l1 = l1  l2 = l2  l3 = l3  h1 = h1  h2 = h2  h3 = h3
    Host = {1, 2}
    Dnn <- PreemptDnn
    Offers <- PreemptOffers
    Cores = 4
    LowTime = 4
    FtpLowCore = 2
    FtpLowTime = 9
    FtpHighCore = 4
    FtpHighTime = 6
    Duration <- MCDuration
    MaxNow = 2
    NoHost = 0
SPECIFICATION Spec
INVARIANT EndOfListIsLargest
CHECK_DEADLOCK FALSE
