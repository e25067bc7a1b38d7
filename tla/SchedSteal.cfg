SPECIFICATION Spec
CONSTANTS
    NCPU = 2
    MaxPid = 3
    Levels = 1
    Kernel = {}
    Boot = 2
    Ops = {"block"}
INVARIANTS OneCpuPerTask
