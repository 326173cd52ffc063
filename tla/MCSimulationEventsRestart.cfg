CONSTANTS
    Addresses = {a1, a2, a3, a4}
    NULL = NULL
    MaxTraced = 2
    MaxStrays = 2
SPECIFICATION Spec
INVARIANTS RestartsAfterKill
CONSTRAINT FewStrays
SYMMETRY Symmetry
CHECK_DEADLOCK FALSE
