SPECIFICATION FairSpec
CONSTANTS
    MaxHeight = 3
    Window = 1
    Projections = {"lifecycle", "key_rotation", "temporal_map", "block_signatures", "evidence", "liveness", "proposer"}
    EventsAtOne = FALSE
    MaxFaults = 1
    MaxResets = 1
    LoneResets = TRUE
    None = None
INVARIANT NoSilentGap
PROPERTIES EventuallyProjected
CHECK_DEADLOCK FALSE
