SPECIFICATION CallsSpec
CONSTANTS
    w1 = w1
    w2 = w2
    k = k
    Client <- OwnerAndController
    Ops <- PauseOps
    Endless = {}
    MaxAdds = 2
CHECK_DEADLOCK FALSE
PROPERTIES RemoveWaitsWhileRunning
