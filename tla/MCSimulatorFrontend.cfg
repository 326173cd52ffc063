SPECIFICATION Spec
CONSTANTS
    NumInstr = 4
    Flow <- MCFlow
    Procedure <- MCProcedure
    ExitPoints = {}
    Kinds = {"run", "until", "next"}
    Counts = {2}
    t1 = t1
    t2 = t2
    user = user
    Timers = {t1, t2}
    User = user
    Handlers = {}
    HasTimeout = TRUE
INVARIANTS
    TypeOK
PROPERTIES
    NoCycleAfterStop
    FinishedUntilKilled
    CommandsEnd
