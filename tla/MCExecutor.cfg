SPECIFICATION FairSpec
CONSTANTS
    MaxSubs = 2
INVARIANTS
    TypeOK
    AWorkerForEveryTask
    NoTaskCutShort
PROPERTIES
    StartedThreadRuns
    ProcessEnds
\* The process ends.
CHECK_DEADLOCK FALSE
