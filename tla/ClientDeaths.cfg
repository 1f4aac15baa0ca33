CONSTANTS
    c1 = c1  c2 = c2  c3 = c3  e1 = e1  e2 = e2  e3 = e3
    Clients = {c1, c2}
    Execs = {e1}
    None = None
    Faults = {"KillClient", "KillBusyExec", "KillIdleExec"}
    InitialCount = 1
    MaxCount = 2
    KeepPending = 1
    BothQueues = FALSE
    PriorHistory <- NoHistory
    PriorityTasks = {}
    MaxOutputs = 1
SPECIFICATION Spec
SYMMETRY Symmetry
CHECK_DEADLOCK FALSE
INVARIANTS
    TypeOK
    FinalIsLast
    OutputComplete
    SuccessRecorded
