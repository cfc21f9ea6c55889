CONSTANTS
    Parts = {"launcher"}
    nranks = 3
    MaxBarriers = 2
    MaxCrashes = 1
    MaxStray = 1
    Environments = {{"RRUN_SOCKET_ADDR", "RRUN_COORD_DIR"}, {"RRUN_COORD_DIR", "SLURM_PROCID"}, {"SLURM_PROCID"}, {}}
    Procs = {p0, p1, p2}
    Root = p0
    MaxRounds = 2
    NTasks = 2
    PerTask = 2
    Applications = {"plain"}
    MaxFailures = 0
    MaxSignals = 0
    SignalledModes = {"single", "passthrough", "hybrid"}
    CPU_SETSIZE = 2
    MaxCore = 2
    Nodes = {0, 1}
    Devices = {d}
SPECIFICATION Spec
PROPERTIES RelaysReturn
CHECK_DEADLOCK FALSE
