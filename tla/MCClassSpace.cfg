SPECIFICATION FairSpec
CONSTANTS
    t1 = t1
    t2 = t2
    Threads = {t1, t2}
    NoClass = NoClass
    StringClass = "String"
    Names <- MCNames
    Fields <- MCFields
    Paths <- MCPaths
    Disk <- MCDisk
    Initializers <- MCInitializers
    Programs <- MCPrograms
    MaxRequests = 2
INVARIANTS
    TypeOK
    InitializerAlone
    LifeCycle
    SuperLoaded
    SafeOnCompletePath
PROPERTIES
    UsesEnd
\* Threads whose code is over stop, and so does a process that died.
CHECK_DEADLOCK FALSE
