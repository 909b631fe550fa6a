SPECIFICATION Spec
CONSTANTS
    MaxSubs = 1
INVARIANTS
    SubThreadsAwaited
CHECK_DEADLOCK FALSE
