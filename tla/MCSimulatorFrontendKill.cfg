SPECIFICATION GuiSpec
CONSTANTS
    NumInstr = 4
    Flow <- MCFlow
    Procedure <- MCProcedure
    ExitPoints = {}
    Kinds = {"run"}
    Counts = {2}
    t1 = t1
    t2 = t2
    user = user
    Timers = {t1}
    User = user
    Handlers = {}
    HasTimeout = FALSE
PROPERTY KillEndsSimulation
