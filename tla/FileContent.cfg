SPECIFICATION FtSpec
CONSTANTS
    FtLast = 6
    FtSlots = 2
    FtPageBlocks = {1}
    FtDirBlocks = 2
    FtOnDisk <- MCOnDisk
    FtCreatable = {"m", "n"}
    FtLong = {}
    FtFd = {1}
    FtMaxBlocks = 2
    FtUnlinkOpen = FALSE
INVARIANTS FileContent
CHECK_DEADLOCK FALSE
