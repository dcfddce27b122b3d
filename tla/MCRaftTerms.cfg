CONSTANTS
    n1 = n1
    n2 = n2
    n3 = n3
    n4 = n4
    Servers <- MCServers
    Values = {1}
    Nobody = Nobody
    MaxTerm = 4
    LogCap = 3
    MaxBatch = 1
    MaxInFlight = 1
    MaxDuplicates = 0
    MaxNewRounds = 0
SPECIFICATION Spec
SYMMETRY Symmetry13
CONSTRAINT OnlyN2Votes
CHECK_DEADLOCK FALSE
INVARIANTS
    LogMatching
    LeaderCompleteness
    CommittedAgreement
