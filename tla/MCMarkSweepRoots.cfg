SPECIFICATION Spec
CONSTANTS
    t1 = t1
    t2 = t2
    Threads = {t1, t2}
    NoThread = NoThread
    Null = Null
    NoRef = NoRef
    NoTask = NoTask
    Tasks <- MCTasks
    Offsets <- MCOffsets
    Boxes <- MCBoxes
    Slots <- MCSlots
    Heaps <- MCHeaps
    MaxCollections = 1
INVARIANTS
    EveryThreadKeepsItsOwn
\* A crashed program stops.
CHECK_DEADLOCK FALSE
