SPECIFICATION Spec
CONSTANTS
    a = a
    p = p
    o = o
    im = im
    zx = zx
    b1 = b1
    b2 = b2
    direct = direct
    late = late
    unit = unit
    Registers = {a, p, o, im, zx}
    Ports = {o}
    PortValues = {0, 1}
    Buses = {b1, b2}
    Guards = {direct, late, unit}
    Target <- MCTarget
    Latency <- MCLatency
    Instructions <- MCInstructions
    Idle <- MCIdle
    Immediates = {1, 2}
    SignExtending = {im}
    ImmWidth = 2
    UnitWidth = 4
    WordWidth = 4
INVARIANTS
    TypeOK
    TraceShowsTransports
    ImmediatesExtended
PROPERTIES
    ImplementsParallelMoves
