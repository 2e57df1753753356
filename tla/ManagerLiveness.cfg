SPECIFICATION FairSpec
CONSTANTS
    Callers = {c1, c2}
    Plans = {p1}
    Capacity = 1
    Queue = 1
    MaxIssued = 1
    None = None
PROPERTIES StopReturns CallersReturn
