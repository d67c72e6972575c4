SPECIFICATION PageSpec
CONSTANTS
    Last = 2
    MaxHeight = 3
    Histories <- MCHistories
    Today = 3
    Month = 1
    Behind = 2
    Tries = 2
    MaxFaults = 2
    MaxVisits = 2

    
    
PROPERTIES
    ShownIsAsked
    PolledPagesCatchUp
CHECK_DEADLOCK FALSE
