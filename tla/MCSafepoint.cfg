SPECIFICATION FairSpec
CONSTANTS
    Threads = {main, t1, t2}
    Main = main
    NoThread = NoThread
    MaxRequests = 2
INVARIANTS
    TypeOK
    WorldStopped
    OneCollectionPerRequest
PROPERTIES
    EverybodyResumes
\* All tasks may be over, and a disturbed round may leave every thread waiting.
CHECK_DEADLOCK FALSE
