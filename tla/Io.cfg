SPECIFICATION MCSpec
CONSTANTS
    TcLinks = {"fifo", "faulty"}
    TcMod = 8
    TcFlight = 4
    NtLinks = {"reliable", "faulty"}
    NtServers = {1, 2}
    NtNames = {31, 32}
    NtIds = {61}
    NtPorts = 2
    NtCache = 1
    NtFlight = 2
    VnSenders = {0}
    VnTx = 2
    VnTag = {1, 2}
    VqSize = 2
    VqMod = 4
    BdDriver = {"ata", "virtio"}
    BdByte = 2
    BdDisk = 8
    BdMax = 2
    BdVal = {1, 2}
    BdSlow = {TRUE, FALSE}
    NicRx = 3
    NicTx = 3
    NicFrames = 4
    NicLag = 2
INVARIANTS
    
    NetSound
    
    
    

    
CHECK_DEADLOCK FALSE
