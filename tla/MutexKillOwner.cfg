SPECIFICATION MutexSpec
CONSTANTS
    Task = {t1, t2, t3}
    None = None
    Preemptible = {t1, t2, t3}
    Killable = {t1, t2, t3}
    MaxRecursion = 2
INVARIANTS InsideMeansOwner
