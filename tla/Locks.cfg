SPECIFICATION MCSpec
CONSTANTS
    CPU <- MCCPU
    Modulus <- MCModulus
    t1 = t1
    t2 = t2
    t3 = t3
    t4 = t4
    Task = {t1, t2, t3}
    None = None
    Preemptible = {t1, t2, t3}
    Killable = {t1, t2, t3}
    MaxRecursion = 2
    TlCpu = {0, 1, 2}
    TlVa = {0}
    TlForkers = {1}
    WqCpus = 2
    WqWork = {w1}
    WqClient = {t1, t2}
    WqTokens = 1
    KtCaller = {t1, t2}
    KtTokens = 2
    MqSender = {t1, t2}
    MqReceiver = {t3, t4}
    MqBound = 3
INVARIANTS
    MutualExclusion
    NoSelfDeadlock
    
    
    ShotDown
    WorkAccounted
    KtSound
    TokensCoverMessages
PROPERTIES
    RefinesFifoLock
    
