SPECIFICATION PartSpec
CONSTANTS
    Peer = {1}
    MaxMsgs <- Two
    MaxExchanges = 1
    ReportsOnce = TRUE
    CommRanks = {0}
    Lanes = {}
    OpSpan = 2
    StageSpan = 2
    MaxSends <- SendsOf
    MaxRecvs <- RecvsOf
PROPERTIES ExchangesAreDelivered
CHECK_DEADLOCK FALSE
