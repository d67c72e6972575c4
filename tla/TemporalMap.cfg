SPECIFICATION MapSpec
CONSTANTS
    s1 = s1
    s2 = s2
    k1 = k1
    k2 = k2
    k3 = k3
    Slots = {s1, s2}
    Keys = {k1, k2, k3}
    NoKey = NoKey
    GenesisKey <- MCGenesisKey
    GenesisActive = {s1}
    RotateInactive = {s2}
    Lossy = {s1}
    RotationDelay = 1
    MaxBlocks = 3
    MaxEvents = 2
    MaxLost = 1
    MaxManual = 1
INVARIANT MapMatchesValidators
 
CHECK_DEADLOCK FALSE
