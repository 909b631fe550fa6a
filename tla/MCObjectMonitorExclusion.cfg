SPECIFICATION Spec
CONSTANTS
    Threads = {t1, t2, t3}
    NoThread = NoThread
    MaxDepth = 1
    MaxEnters = 1
SYMMETRY ThreadSymmetry
INVARIANTS
    MutualExclusion
CHECK_DEADLOCK FALSE
