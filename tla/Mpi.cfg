SPECIFICATION MpiSpec
CONSTANTS
    Ranks <- MCRanks
    Tags <- MCTags
    Sites <- MCSites
    Requests <- MCRequests
    Programs <- AllPrograms
    Limit <- MCLimit
    Slack = 1
    TracedRequests = 3
    ReadRequests = 2
    MaxFailures = 1
    Kids <- MCKids
    VertexOf <- MCVertexOf
    Samples <- MCSamples
INVARIANTS RoomForNext TraceReplaysCalls LogsCountCalls NobodyDuplicatesAlone ExactEdgesAreMessages ApproximateEdgesAreMessages EachProcessHasItsGraph CommEdgesJoinCopies
