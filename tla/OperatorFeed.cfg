\* Two epochs; the server never delivers the newer one's status.
SPECIFICATION Spec
CONSTANTS
    Last = 2
    Take = 2
    EpochBudget = 2
    DrawBudget = 1
    Backoff = 2
    Broken = {2}
    BrokenDraws = {}
    MaxStops = 1
INVARIANT NoDrawGivenUpEarly
PROPERTIES  DrawsResolved
CHECK_DEADLOCK FALSE
