SPECIFICATION FairSpec
CONSTANTS
    NCPU = 1
    MaxPid = 2
    Levels = 1
    Kernel = {}
    Boot = 1
    Ops = {"fork", "exit"}
PROPERTIES OrphanReaped
