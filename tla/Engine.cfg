SPECIFICATION FairSpec
CONSTANTS
    c1 = c1
    c2 = c2
    a1 = a1
    a2 = a2
    k = k
    t1 = t1
    t2 = t2
    b1 = b1
    b2 = b2
    None = None
    Callers <- MCCallers
    Asks <- MCAsks
    Keys <- MCKeys
    KeyOf <- MCKeyOf
    WorkersOf <- MCWorkersOf
    Tools <- MCTools
    Builds <- MCBuilds
    Shape <- MCShape
    Protocol <- MCProtocol
    Bindable <- MCBindable
    Advertising <- MCBuilds
    Pools <- MCPools
INVARIANTS TypeOK RunsAsAsked WorkerCeiling SpeaksProtocol
PROPERTY ReplacedDies
