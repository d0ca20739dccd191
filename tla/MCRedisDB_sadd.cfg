\* SAdd after the deletion of the set.
CONSTANTS
    t1 = t1
    t2 = t2
    Threads = {t1, t2}
    Keys = {1, 2}
    Stripes = {1, 2}
    MaxCalls <- CallBound
    MaxTime = 2
    InitalLeftIndex = 10
    Lowest <- LowestScore
SPECIFICATION Spec
SYMMETRY ThreadSymmetry
INVARIANT SAddIgnoresMembers
CHECK_DEADLOCK FALSE
