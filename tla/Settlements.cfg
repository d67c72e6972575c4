SPECIFICATION FairSpec
CONSTANTS
    Last = 3
    MaxHeight = 6
    Window = 2
    Refresh = 2
    Histories <- MCHistories
    MaxFaults = 2
INVARIANTS
    FrozenIsFinal
    PayoutsExact
    SettlementsAddUp
    SettledIsSettled
PROPERTIES
    EverySettlementShown
CHECK_DEADLOCK FALSE
