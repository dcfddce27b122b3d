CONSTANTS
    n1 = n1
    n2 = n2
    n3 = n3
    n4 = n4
    Servers <- MCServers
    Values = {1}
    Nobody = Nobody
    MaxTerm = 3
    LogCap = 4
    MaxBatch = 1
    MaxInFlight = 2
    MaxDuplicates = 0
    MaxNewRounds = 0
SPECIFICATION Spec
CHECK_DEADLOCK FALSE
CONSTRAINT OneLeaderAtATime
INVARIANT CommittedAgreement
