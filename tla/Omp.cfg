SPECIFICATION OmpSpec
CONSTANTS
    Threads <- MCThreads
    Main = "m"
    OsId <- MCOsId
    Cores = 2
    Sites <- MCSites
    Outer <- MCOuter
    Serial = "main"
    MaxRegions = 2
    MaxSamples = 4
    Order <- MCOrder
    num_threads = 2
INVARIANTS CountsTheProgram SampledWorkersHaveEdge TimeIsWhereItWasSpent CopiesShareTheTime
