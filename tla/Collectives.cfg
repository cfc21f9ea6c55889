CONSTANTS
    MaxRanks = 5
    MaxReductions <- Twice
    Peers = {0, 1}
    Dsts <- Both
    Inserters = {t1, t2}
    MaxOrdinal <- TwoOrNone
    MaxExchanges = 2
    RingSizes = {1, 2, 3}
    MaxInserts <- Contributed
    MaxRounds <- TwoRounds
    Bufs = {1, 2, 3}
    BufSize <- SizeOfBuffer
    Remote = {3}
    MemoryLimit <- LimitOf
    MaxExtracted = 2
SPECIFICATION Spec
INVARIANTS ResultIsOrderedReduction ExtractsAreComplete SpillingIsExact
PROPERTIES CollectivesComplete
CHECK_DEADLOCK FALSE
