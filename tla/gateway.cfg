SPECIFICATION Spec
CONSTANTS
    d1 = d1
    stripe = stripe
    github = github
    b1 = b1
    b2 = b2
    Deliveries <- OneDelivery
    Providers <- TwoProviders
    Bodies <- TwoBodies
    MaxAttempts = 3
    MaxCrashes = 1
SYMMETRY GatewaySymmetry
INVARIANTS
    
    
    EventMatchesResponse
CHECK_DEADLOCK FALSE
