CONSTANTS
    w1 = w1
    w2 = w2
    k1 = k1
    k2 = k2
    i1 = i1
    i2 = i2
    n1 = n1
    n2 = n2
    Windows = {w1, w2}
    Keys = {k1, k2}
    NewIds <- MCNewIds
    InitStores <- MCStoresRepair
    Outcomes = {"ok", "unauthorized"}
    IOResults = {"ok"}
    MaxTasks = 1
    MaxReads = 3
    MaxCreates = 1
    MaxRemoves = 0

SPECIFICATION Spec
PROPERTY EventuallyConsistent
CHECK_DEADLOCK FALSE
