SPECIFICATION Spec
CONSTANTS
    Threads = {t1, t2}
    NoThread = NoThread
    Objects = {1, 2}
    Static = {1}
    MaxBlocks = 2
SYMMETRY ThreadSymmetry
INVARIANTS
    TypeOK
    OneMonitorPerObject
    ThrowsOnlyIfRebound
    ExclusivePerObject
\* A thread that waits for a monitor nobody notifies is stuck.
CHECK_DEADLOCK FALSE
