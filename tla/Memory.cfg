SPECIFICATION MCSpec
CONSTANTS
    PfCpu = {1, 2}
    PfTotal = 6
    PfMaxFree = 5
    PfMaxOrder = 2
    PfBatch = 2
    PfHigh = 2
    PfMaxRef = 2
    PfReserved = {4}
    PfSizes = {2, 3}
    SlThread = {t1, t2}
    SlCpu = {0, 1}
    SlPage = {11, 12, 13}
    SlObjCount = 2
    SlMinPartial = 1
    HpThread = {t1}
    HpHeader = 3
    HpPageSize = 16
    HpInitial = 20
    HpMaxPages = 1
    HpSizes = {2, 5, 14}
    PtArch = {"x86_64", "x86", "arm64"}
    PtProc = {p1, p2}
    PtFrames = 14
    PtRefMax = 3
    PtTouched = {0, 1, 2}
    PtEntries = 2
    PtUserPages = 4
    PtKernPages = 8
    PtCountMod = 3
    VmBrkStart = 1
    VmBrkLimit = 3
    VmBase = 3
    VmLimit = 7
    VmLens = {1, 3}
    VmMaxAreas = 3
VIEW MCView
INVARIANTS
    
    
    SlabSound
    HeapSound
    VmSound
