SPECIFICATION FairSpec
CONSTANTS
    c1 = c1
    c2 = c2
    c3 = c3
    p1 = p1
    p2 = p2
    Calls <- MCCalls
    Procs <- MCProcs
    HomeOf <- Home
    MaxCrashes = 1
    MaxCancels = 1
    Stale = "broken"
    None = None
INVARIANTS TypeOK MemoStands NoRedundantInstall NeverNothing
PROPERTY EveryResolveReturns
CHECK_DEADLOCK FALSE
