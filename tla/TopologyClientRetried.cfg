SPECIFICATION RetriedSpec
CONSTANTS
    base = base
    wanted = wanted
    other = other
    NoGraph = NoGraph
    Graph <- MCGraph
    Desired = wanted
    MaxRecords = 8
    MaxGeneration = 2
    MaxActivities = 2
PROPERTY RetriedOperationSettles
