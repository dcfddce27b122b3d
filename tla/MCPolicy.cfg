CONSTANTS
    MaxAuditEvents = 3
    GenesisHash <- MCGenesisHash
    Hash <- MCHash
    Caps <- MCCaps
    Nonces <- MCNonces
    Rights <- MCRights
    NonceWindow = 2
    MaxRevocations = 1
    GenMax = 2
    EpochMax = 2
SPECIFICATION GateSpec
INVARIANTS
    GateTypeOK
    ChainIntact
    TamperEvident
    ChecksAccountable
    NoReplay
PROPERTIES
    AppendOnly
    ImplementsOneShot
