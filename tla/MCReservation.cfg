SPECIFICATION Spec
CONSTANTS
    c1 = c1
    c2 = c2
    Nonces <- MCNonces
    Ttls <- MCTtls
    MaxReservations = 2
    MaxTtl = 2
    IdMax = 3
    TickMax = 3
    MaxConsumed = 2
INVARIANTS
    ResTypeOK
    ConsumedOnce
PROPERTY ImplementsOneShot
