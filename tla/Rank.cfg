CONSTANTS
    Rank = {r0, r1, r2}
    NLocalPartitions = 1
    MaxChunks = 2
    Callers = {"a", "b", "c", "d"}
    Messages = {"a", "b", "c", "d"}
    Threads <- AllThreads
    limit = 2
    Crews <- Together
    Builders = {"a", "b"}
    MaxSpills = 1
    Size <- SizeOf
    NetMemoryDelta <- DeltaOf
    Api <- ApiOf
SPECIFICATION RankSpec
INVARIANTS NeverPremature NoFault AccountingIsTrue RecordIsTrue NothingIsMissed
PROPERTIES StaysFinished RequestsAreAnswered
CHECK_DEADLOCK FALSE
