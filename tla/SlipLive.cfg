CONSTANTS
    p1 = p1
    p2 = p2
    g1 = g1
    g2 = g2
    f1 = f1
    f2 = f2
    v1 = v1
    NoProc = NoProc
    Hosts = {p1, p2}
    Guests = {}
    FuseWorkers = {f1, f2}
    VringWorkers = {}
    Total = 1
    Blocking = {p1, p2}
    MaxHold = 1
    MaxInc = 1
    Platforms = {"linux"}
    Faults = FALSE
SPECIFICATION FairSpec
CHECK_DEADLOCK FALSE
PROPERTIES DeadReturnSlips BlockedReadsEnd
