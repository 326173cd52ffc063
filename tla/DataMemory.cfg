SPECIFICATION Spec
CONSTANTS
    Start = 2
    End = 4
    PageSize = 3
    MauBits = 1
    AddressBits = 3
    NumUnits = 2
    MultiChoices = {{}, {1, 2}}
    Addresses = {1, 2, 4}
    Sizes = {1, 2}
    Values = {1, 2}
    MaxQueue = 1
INVARIANTS
    TypeOK
    WritesInside
PROPERTIES
    ImplementsSynchronousMemory
