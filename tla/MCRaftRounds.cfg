CONSTANTS
    n1 = n1
    n2 = n2
    n3 = n3
    n4 = n4
    Servers <- MCServers2
    Values = {1, 2}
    Nobody = Nobody
    MaxTerm = 1
    LogCap = 1
    MaxBatch = 1
    MaxInFlight = 3
    MaxDuplicates = 1
    MaxNewRounds = 3
SPECIFICATION Spec
SYMMETRY Symmetry2
CHECK_DEADLOCK FALSE
INVARIANT ElectionSafety
