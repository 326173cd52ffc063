SPECIFICATION Spec
CONSTANTS
    add = add
    mul = mul
    port = port
    stage1 = stage1
    stage2 = stage2
    NOP = NOP
    Ops = {add, mul}
    Resources = {port, stage1, stage2}
    Width = 4
    Table <- MCTable
INVARIANTS
    TypeOK
    AutomatonSound
    MatrixIsExact
    NextIsSuccessor
PROPERTIES
    ImplementsReservations
