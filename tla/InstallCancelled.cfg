SPECIFICATION Spec
CONSTANTS
    c1 = c1
    c2 = c2
    c3 = c3
    p1 = p1
    p2 = p2
    Calls <- MCCalls
    Procs <- MCProcs
    HomeOf <- Home
    MaxCrashes = 0
    MaxCancels = 1
    Stale = None
    None = None
SYMMETRY HomeSymmetry
PROPERTIES StaysInstalled
CHECK_DEADLOCK FALSE
