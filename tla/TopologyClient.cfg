SPECIFICATION FairSpec
CONSTANTS
    base = base
    wanted = wanted
    other = other
    NoGraph = NoGraph
    Graph <- MCGraph
    Desired = wanted
    MaxRecords = 8
    MaxGeneration = 2
    MaxActivities = 2
INVARIANTS TypeOK RecordedBeforeDispatch StepsInOrder JournalNotAhead AdvanceJustified StopIsFinal
PROPERTIES ConvergedFinal InvocationEnds
