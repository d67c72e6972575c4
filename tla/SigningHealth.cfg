SPECIFICATION Spec
CONSTANTS
    NumSlots = 4
    PartTime = {4}
    Unreliable = {1}
    Doubtful = {1, 4}
    Garbled = {1, 2}
    Commitless = FALSE
    RingSize = 2
    Recent = 2
    DownStreak = 2
    ChunkSize = 5
    MaxHeight = 3
    MaxLag = 1
    MaxMistakes = 1
INVARIANTS RowsTruthful NormalIsEarned
PROPERTIES SummariesMatchBatch
CHECK_DEADLOCK FALSE
