SPECIFICATION FairSpec
CONSTANTS
    c1 = c1
    c2 = c2
    Callers <- MCCallers
    Servers <- MCServers
    Children <- MCChildren
    MaxCalls = 1
    OutCap = 1
INVARIANTS TypeOK OwnAnswer RetriesElsewhere Undisturbed OneWarmWorker
PROPERTY CallsReturn
