CONSTANTS
    n1 = n1
    n2 = n2
    n3 = n3
    n4 = n4
    Servers <- MCServers
    Values = {1}
    Nobody = Nobody
    MaxTerm = 2
    LogCap = 2
    MaxBatch = 2
    MaxInFlight = 2
    MaxDuplicates = 1
    MaxNewRounds = 0
SPECIFICATION Spec
SYMMETRY Symmetry
CHECK_DEADLOCK FALSE
INVARIANTS
    RaftTypeOK
    ElectionSafety
    LogMatching
    LeaderCompleteness
    CommittedAgreement
    AckSound
PROPERTIES
    CommitHeldByQuorum
    CommittedPrefixStable
