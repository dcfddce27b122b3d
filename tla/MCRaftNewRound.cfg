CONSTANTS
    n1 = n1
    n2 = n2
    n3 = n3
    n4 = n4
    Servers <- MCServers
    Values = {1, 2}
    Nobody = Nobody
    MaxTerm = 1
    LogCap = 1
    MaxBatch = 1
    MaxInFlight = 2
    MaxDuplicates = 0
    MaxNewRounds = 1
SPECIFICATION Spec
CONSTRAINT OnlyN1Campaigns
CHECK_DEADLOCK FALSE
PROPERTY CommitHeldByQuorum
