CONSTANTS
    w1 = w1
    w2 = w2
    k1 = k1
    k2 = k2
    i1 = i1
    i2 = i2
    n1 = n1
    n2 = n2
    Windows = {w1}
    Keys = {k1, k2}
    NewIds <- MCNewIds
    InitStores <- MCStoreLegacyDup
    Outcomes = {"ok"}
    IOResults = {"ok"}
    MaxTasks = 2
    MaxReads = 3
    MaxCreates = 2
    MaxRemoves = 1

SPECIFICATION Spec
INVARIANT OnePerScopeSet
VIEW GcView
CHECK_DEADLOCK FALSE
