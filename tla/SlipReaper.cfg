CONSTANTS
    p1 = p1
    p2 = p2
    g1 = g1
    g2 = g2
    f1 = f1
    f2 = f2
    v1 = v1
    NoProc = NoProc
    Hosts = {p1, p2}
    Guests = {}
    FuseWorkers = {f1, f2}
    VringWorkers = {}
    Total = 1
    Blocking = {p1}
    MaxHold = 1
    MaxInc = 2
    Platforms = {"linux", "macos"}
    Faults = TRUE
SPECIFICATION Spec
CHECK_DEADLOCK FALSE
SYMMETRY SymWorkers
INVARIANTS TypeOK Conservation OneAnswerPerRead HoldersAreWatched
