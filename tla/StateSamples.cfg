SPECIFICATION Spec
CONSTANTS
    Chain <- MCChain
    MaxTip = 3
    PageLimit = 3
    IndexLags = FALSE
    Held <- MCHeld
    Keep = 2
    SamplesAnywhere = FALSE
INVARIANTS
    StoredBlockIsWhole
    HistoryIsTheChains
    
    ShownBalancesAreASample
