SPECIFICATION FairSpec
CONSTANTS
    Workers = {w1, w2}
    NoWorker = NoWorker
    NoTask = NoTask
    MaxCollections = 2
INVARIANTS
    TypeOK
    NothingLeftBehind
PROPERTIES
    RunsSerially
    CollectionEnds
\* After terminateGC the workers are gone.
CHECK_DEADLOCK FALSE
