CONSTANTS
    c1 = c1  c2 = c2  c3 = c3  e1 = e1  e2 = e2  e3 = e3
    Clients = {c1, c2, c3}
    Execs = {e1}
    None = None
    Faults = {"LoseJob", "BadKey", "SlowRead"}
    InitialCount = 1
    MaxCount = 2
    KeepPending = 1
    BothQueues = TRUE
    PriorHistory <- NoHistory
    PriorityTasks = {}
    MaxOutputs = 0
SPECIFICATION Spec
SYMMETRY Symmetry
CHECK_DEADLOCK FALSE
INVARIANTS
    LaunchBound
    PendingBound
    PendingCovers
