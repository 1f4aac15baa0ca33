CONSTANTS
    c1 = c1  c2 = c2  e1 = e1
    Clients = {c1, c2}
    Execs = {e1}
    None = None
    FirstClient <- First
    MaxOutputs = 2
    InCap = 1
    OutCap = 1
    SockCap = 2
    PrefixLen = 1
    BodyLen = 1
SPECIFICATION Spec
CHECK_DEADLOCK FALSE
PROPERTY
    LoopReturns
