SPECIFICATION Spec
CONSTANTS
    NumInstr = 4
    Flow <- MCFlow
    Procedure <- MCProcedure
    ExitPoints = {2}
    Kinds = {"run", "until", "step", "next"}
    Counts = {2}
    t1 = t1
    t2 = t2
    user = user
    Timers = {t1}
    User = user
    Handlers = {user}
    HasTimeout = FALSE
INVARIANTS
    StopsForAReason
    ShortStepExplained
PROPERTIES
    CommandsEnd
