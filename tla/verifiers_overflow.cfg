SPECIFICATION MCSpec
CONSTANTS
    DurBits = 8
    SecBits = 7
    Second = 10
    UnixToInternal = 20
    Timestamps <- FarTimestamps
    MaxParts = 2
    Nows = {5}
    Routes <- MCRoutes
    Inputs <- MCInputs
    w1 = w1
    w2 = w2
    w3 = w3
    u1 = u1
    u2 = u2
    c1 = c1
    c2 = c2
    c3 = c3
    Webhooks <- ThreeWebhooks
    Urls <- TwoUrls
    TrustedUrls <- OneTrusted
    Certs <- ThreeCerts
    ChainedCerts <- TwoChained
    NoCert = NoCert
    CertTTL = 2
    FetchTimeout = 1
    MaxTime = 4
    MaxRotations = 1
SYMMETRY WebhookSymmetry
INVARIANTS
    StaleNeverAccepted
CHECK_DEADLOCK FALSE
