SPECIFICATION LedgerSpec
CONSTANTS
    LedgerSlots = {s1, s2}
    Keys = {k1, k2}
    LastEvent = 3
PROPERTIES PastIsFinal
CHECK_DEADLOCK FALSE
