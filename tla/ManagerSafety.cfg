SPECIFICATION Spec
CONSTANTS
    Callers = {c1, c2}
    Plans = {p1, p2}
    Capacity = 1
    Queue = 1
    MaxIssued = 2
    None = None
SYMMETRY ManagerSymmetry
INVARIANTS TypeOK CleanAck WithinCapacity NoLostCaller
