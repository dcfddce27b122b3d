CONSTANTS
    MaxAuditEvents = 3
    GenesisHash <- MCGenesisHash
    Hash <- MCHash
    Caps <- MCCaps
    Nonces = {1, 2}
    Rights = {"SCHEDULE"}
    NonceWindow = 2
    MaxRevocations = 1
    GenMax = 1
    EpochMax = 1
    Nodes <- MCNodes
    Ceiling <- MCCeiling
    Amounts = {1, 2}
    MaxNodes = 2
    ManifestEdges <- MCManifestEdges
    Priorities = {0}
    MaxQueue = 1
SPECIFICATION Spec
INVARIANTS
    KernelTypeOK
    Accountable
    Conservation
    DeclaredEdgesOnly
PROPERTIES
    QueueGated
    DenialsPure
    
