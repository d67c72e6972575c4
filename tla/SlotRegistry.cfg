SPECIFICATION Spec
CONSTANTS
    MaxHeight = 2
    Slots = {1, 2}
    GenesisSlots = {1}
    Chains <- MCChains
    MaxManual = 1
    Null = Null
    Genesis = Genesis
    Live = Live
INVARIANTS
    HistoryFollowsChain
    NothingLost
    ColumnsCurrent
PROPERTIES
    EventNeverUndone
CHECK_DEADLOCK FALSE
