SPECIFICATION MCSpec
CONSTANTS
    t1 = t1
    t2 = t2
    t3 = t3
    t4 = t4
    Task = {t1, t2, t3, t4}
    Initial = 1
    MaxCount = 2
    NCPU = 1
    MaxPid = 3
    Levels = 1
    Kernel = {}
    Boot = 1
    Ops = {"block", "sleep", "fork", "wait", "kill", "exit"}
    HrTask = {1, 2}
    HrPeriod = 4
    HrLatency = 2
    HrNaps = {0, 1, 3, 6}
    HrEnd = 24
    PrTasks = 3
    PrSlots = 2
INVARIANTS
    
    TimersKeepTime
    SharedCounted
PROPERTIES
    
    KillSafe
    
