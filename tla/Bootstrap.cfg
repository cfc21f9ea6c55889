CONSTANTS
    Parts = {"backend", "ucxx", "launcher", "binding"}
    nranks = 3
    MaxBarriers = 2
    MaxCrashes = 1
    MaxStray = 1
    Environments = {{"RRUN_SOCKET_ADDR", "RRUN_COORD_DIR"}, {"RRUN_COORD_DIR", "SLURM_PROCID"}, {"SLURM_PROCID"}, {}}
    Procs = {p0, p1, p2}
    Root = p0
    MaxRounds = 2
    NTasks = 2
    PerTask = 2
    Applications = {"ucxx", "plain"}
    MaxFailures = 1
    MaxSignals = 1
    SignalledModes = {"single", "passthrough"}
    CPU_SETSIZE = 2
    MaxCore = 2
    Nodes = {0, 1}
    Devices = {d}
SPECIFICATION Spec
INVARIANTS DirectoryOutlivesUse EveryRankIsReachable LaunchersAreSound BoundAsAsked
PROPERTIES KeepsContract EveryoneGetsThrough
CHECK_DEADLOCK FALSE
