CONSTANTS
    p1 = p1
    p2 = p2
    g1 = g1
    g2 = g2
    f1 = f1
    f2 = f2
    v1 = v1
    NoProc = NoProc
    Hosts = {p1, p2}
    Guests = {g1, g2}
    FuseWorkers = {f1}
    VringWorkers = {v1}
    Total = 2
    Blocking = {p1, g1}
    MaxHold = 2
    MaxInc = 1
    Platforms = {"linux"}
    Faults = FALSE
SPECIFICATION Spec
CHECK_DEADLOCK FALSE
INVARIANTS MachineBound NoIdleSlip RemovedBoxOwnsNothing
PROPERTY GrantsInOrder
