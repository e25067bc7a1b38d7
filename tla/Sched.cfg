SPECIFICATION MCSpec
CONSTANTS
    NCPU = 2
    MaxPid = 4
    Levels = 2
    Kernel = {2}
    Boot = 2
    Ops = {"block", "fork", "wait", "exit"}
CONSTRAINT Explored
INVARIANTS
    RunQueuesSound
    NobodyForgotten
    NoUseAfterFree
    NoMissedExit
PROPERTIES
    SwitchesToReady
