SPECIFICATION HpSpec
CONSTANTS
    HpThread = {t1}
    HpHeader = 3
    HpPageSize = 16
    HpInitial = 20
    HpMaxPages = 1
    HpSizes = {2, 5, 14}
INVARIANTS HeapFits
