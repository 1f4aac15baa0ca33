CONSTANTS
    c1 = c1  c2 = c2  c3 = c3  e1 = e1  e2 = e2  e3 = e3
    Clients = {c1, c2}
    Execs = {e1}
    None = None
    Faults = {"KillBusyExec"}
    InitialCount = 1
    MaxCount = 2
    KeepPending = 1
    BothQueues = FALSE
    PriorHistory <- LongFirst
    PriorityTasks = {c2}
    MaxOutputs = 0
SPECIFICATION FairSpec
CHECK_DEADLOCK FALSE
PROPERTIES
    TaskAnswered
    EverythingStops
