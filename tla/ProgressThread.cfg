SPECIFICATION CallsSpec
CONSTANTS
    w1 = w1
    w2 = w2
    k = k
    Client <- AllClients
    Ops <- AllOps
    Endless = {k}
    MaxAdds = 4
INVARIANTS NoLostWakeup PausedIsQuiet CallsOnlyRegistered
PROPERTIES OwnersRemoveDone CallsReturn
CHECK_DEADLOCK FALSE
