SPECIFICATION Spec
CONSTANTS
    NRanks = 2
    NParts = 1
    partition_owner <- round_robin
    chunk_id_counter_bits = 3
    Inserters = {0}
    MaxInserts = 1
    WaitFirst = FALSE
INVARIANTS ShutdownIsDrained
