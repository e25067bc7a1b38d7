SPECIFICATION MCSpec
CONSTANTS
    FtOnDisk <- MCOnDisk
    FtLast = 4
    FtSlots = 2
    FtPageBlocks = {1}
    FtDirBlocks = 2
    FtCreatable = {"n"}
    FtLong = {"a"}
    FtFd = {1}
    FtMaxBlocks = 2
    FtUnlinkOpen = FALSE
    PcFile = {1, 2}
    PcTable = 0
    PcSector = {0, 1}
    PcVal = {1}
    PcMax = 2
    RbNodes = 8
    RbSame = 2
    TwNode = {n1}
    TwBits1 = 1
    TwBitsN = 1
    TwLag = 3
INVARIANTS
    RbSound
    WheelOnTime
    

    
