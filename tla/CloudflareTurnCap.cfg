CONSTANTS
    Credentials = {k1, k2, k3}
    None = None
    RefreshEvery = 2
    CredentialTTL = 3
    ApiMayFail = FALSE
    MaxRestarts = 1
SPECIFICATION Spec
INVARIANT CapStopsRelays
