CONSTANTS
    n1 = n1
    n2 = n2
    n3 = n3
    n4 = n4
    Servers <- MCServers4
    Values = {1}
    Nobody = Nobody
    MaxTerm = 1
    LogCap = 1
    MaxBatch = 1
    MaxInFlight = 3
    MaxDuplicates = 2
    MaxNewRounds = 0
SPECIFICATION Spec
SYMMETRY Symmetry4
CHECK_DEADLOCK FALSE
INVARIANT ElectionSafety
