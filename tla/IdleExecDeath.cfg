CONSTANTS
    c1 = c1  c2 = c2  c3 = c3  e1 = e1  e2 = e2  e3 = e3
    Clients = {c1}
    Execs = {e1, e2}
    None = None
    Faults = {"KillIdleExec"}
    InitialCount = 1
    MaxCount = 2
    KeepPending = 1
    BothQueues = FALSE
    PriorHistory <- NoHistory
    PriorityTasks = {}
    MaxOutputs = 0
SPECIFICATION Spec
CHECK_DEADLOCK FALSE
INVARIANTS
    EndsOnlyWhenIdle
