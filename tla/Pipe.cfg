SPECIFICATION FairSpec
CONSTANTS
    r = r
    rw = rw
    w = w
    Reader <- MCReader
    Writer <- MCWriter
    Size = 2
    Len <- MCLen
    Bytes = 3
    MaxTokens = 2
INVARIANTS InOrder ItemsCovered SlotsCovered
PROPERTIES CallsReturnAfterClose
CHECK_DEADLOCK FALSE
