SPECIFICATION Spec
CONSTANTS
    NumOps = 3
    p1 = p1
    p2 = p2
    v1 = v1
    v2 = v2
    Ports = {p1, p2}
    Values = {v1, v2}
    Latency <- MCLatency
    OutLatency <- MCOutLatency
    Detailed = FALSE
    SizeT = 8
    HasContext = FALSE
INVARIANTS
    TypeOK
    InFlightServed
    StartTakesFreeCell
    IdleMeansEmpty
    PendingCountsRing
PROPERTIES
    ImplementsPipeline
