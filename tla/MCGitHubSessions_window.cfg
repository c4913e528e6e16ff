CONSTANTS
    w1 = w1
    w2 = w2
    k1 = k1
    k2 = k2
    i1 = i1
    i2 = i2
    n1 = n1
    n2 = n2
    Windows = {w1}
    Keys = {k1, k2}
    NewIds <- MCNewIds
    InitStores <- MCStores
    Outcomes = {"ok", "unauthorized", "error"}
    IOResults = {"ok", "fail"}
    MaxTasks = 2
    MaxReads = 3
    MaxCreates = 2
    MaxRemoves = 1

SPECIFICATION Spec
INVARIANT TypeOK
VIEW GcView
CHECK_DEADLOCK FALSE
