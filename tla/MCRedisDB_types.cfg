\* Every data type in turn: two threads, three or four commands, two seconds.
CONSTANTS
    t1 = t1
    t2 = t2
    Threads = {t1, t2}
    Keys = {1, 2}
    Stripes = {1, 2}
    MaxCalls <- CallBound
    MaxTime = 2
    InitalLeftIndex = 10
    Lowest <- LowestScore
SPECIFICATION Spec
SYMMETRY ThreadSymmetry
INVARIANTS
    LocksSafe
    CollectionsExact
    ReadersAgree
CHECK_DEADLOCK FALSE
