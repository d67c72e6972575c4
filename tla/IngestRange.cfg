\* Two workers, a chain that may be replaced, three heights, two faults.
SPECIFICATION FairSpec
CONSTANTS
    Workers = {w1, w2}
    MaxHeight = 3
    Chains = {c1, c2}
    MaxFaults = 2
    StartOverrides = {}
    Mentions = {}
    Undecodable = {}
    None = None
INVARIANTS WatermarkContiguous CursorHashMatches RunCoversItsRange
PROPERTIES NeverRewritten ImplementsWatermark ImplementsBlockStore EventuallyCaughtUp
