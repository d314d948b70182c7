CONSTANTS
    Credentials = {k1, k2, k3, k4, k5, k6}
    None = None
    RefreshEvery = 2
    CredentialTTL = 3
    ApiMayFail = TRUE
    MaxRestarts = 1
SPECIFICATION FairSpec
INVARIANTS
    TypeOK
    OfferedNotRevoked
PROPERTIES
    CapNeverAssumed
    ServiceReturns
    CapTakesEffect
