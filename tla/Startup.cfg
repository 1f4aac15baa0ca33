CONSTANTS
    s1 = s1  s2 = s2  c1 = c1  e1 = e1  p1 = p1  p2 = p2
    root = root  sub = sub
    Servers = {s1, s2}
    Clients = {c1}
    Execs = {e1}
    InitCmd = InitCmd
    None = None
    Ports = {p1, p2}
    Dirs = {root, sub}
    Path <- MCPath
    Second = {e1}
    Long = {s1}
    MaxRetries = 1
    MaxKills = 2
SPECIFICATION Spec
SYMMETRY Symmetry
CHECK_DEADLOCK FALSE
INVARIANTS
    ContactFound
    OwnServer
    RefusedOnlyByRace
    ServedInTheEnd
