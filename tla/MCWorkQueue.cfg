\* Three requests of any external type, two deadlines, one retry.
SPECIFICATION Spec
CONSTANTS
    r1 = r1
    r2 = r2
    r3 = r3
    Req = {r1, r2, r3}
    Deadline = {1, 2}
    Due <- MCDue
    MaxAttempt = 1
    NoOne = NoOne
    Main = Main
SYMMETRY Symmetric
INVARIANTS TypeOK CounterMatches Serial FrontExists HaltBeforeRetry
PROPERTIES PoolSpec
