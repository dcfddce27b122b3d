SPECIFICATION Spec
CONSTANTS
    Wires <- MCWires
    OtherData = {other}
    Challenges = {c1, c2}
    MaxNodes = 2
    MaxEdges = 2
    ZeroPcr <- MCZeroPcr
    NullQuote <- MCNullQuote
    ZeroNonce = zero
    Hash <- MCHash
    MaxExtends = 2
    MaxAttestations = 1
INVARIANTS
    BootTypeOK
    SealedFromOneManifest
    QuoteBindsHistory
    BootQuoteCoversImage
PROPERTY RefusedBootTrace
