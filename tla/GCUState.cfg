SPECIFICATION Spec
CONSTANTS
    NumInstr = 4
    DelaySlots = 2
INVARIANTS
    TypeOK
    IdleHasNoJump
    LeftoversAreReplayed
PROPERTIES
    ImplementsArchitecture
