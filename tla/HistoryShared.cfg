CONSTANTS
    s1 = s1  s2 = s2  t1 = t1  t2 = t2
    Servers = {s1, s2}
    Targets = {t1, t2}
    Retention = 2
    MaxTime = 4
SPECIFICATION Spec
SYMMETRY Symmetry
INVARIANT
    EntrySurvives
