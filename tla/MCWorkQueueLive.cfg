\* Two requests, no symmetry: liveness under FairSpec.
SPECIFICATION FairSpec
CONSTANTS
    r1 = r1
    r2 = r2
    r3 = r3
    Req = {r1, r2}
    Deadline = {1}
    Due <- MCDue
    MaxAttempt = 1
    NoOne = NoOne
    Main = Main
PROPERTIES Served
