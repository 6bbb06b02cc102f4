SPECIFICATION FairSpec
CONSTANTS
    Workspace <- MCWorkspaces
    Scripts <- MCScripts
    MaxAttempts = 8
    MaxRevision = 5
    MaxGeneration = 2
    MaxOthers = 1
    None = None
INVARIANTS
    OwnRunCompleted
    RemovalUnobstructed
    AskedWhereReachable
    HostnameExclusive
    PassedMeansClean
PROPERTY
    ScriptEnds
