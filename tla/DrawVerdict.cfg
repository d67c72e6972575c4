\* Honest and forged records against every interleaving of one request after
\* another with the indexer, one reset of a projection.
SPECIFICATION VerdictSpec
CONSTANTS
    Slot = 1
    Epoch = 7
    MaxUint = 9999
    MaxWindow = 3
    MaxCandidates = 5
    Ticket <- MCTicket
    None = None
    Cases <- MCCases
    MaxResets = 1
INVARIANTS GreenIsTheDraw RightUnlessStraddled
PROPERTY EventuallyRight
CHECK_DEADLOCK FALSE
