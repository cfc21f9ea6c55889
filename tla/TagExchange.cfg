SPECIFICATION PartSpec
CONSTANTS
    Peer = {1, 2}
    MaxMsgs <- Reused
    MaxExchanges = 2
    ReportsOnce = FALSE
    CommRanks = {0, 1, 2}
    Lanes <- LanesToTwo
    OpSpan = 2
    StageSpan = 2
    MaxSends <- SendsOf
    MaxRecvs <- RecvsOf
INVARIANTS NoOvertaking BookkeepingIsExact IdleIsComplete DeliveryIsSound
PROPERTIES ContractRefinement ExchangesAreDelivered
CHECK_DEADLOCK FALSE
