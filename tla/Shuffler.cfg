SPECIFICATION FairSpec
CONSTANTS
    NRanks = 2
    NParts = 2
    partition_owner <- round_robin
    chunk_id_counter_bits = 3
    Inserters = {0}
    MaxInserts = 1
    WaitFirst = TRUE
INVARIANTS ExtractIsComplete MarkerIsLast ShutdownIsDrained
PROPERTIES CounterRefinement Terminates
