SPECIFICATION HandlersFair
CONSTANTS
    d1 = d1
    stripe = stripe
    b1 = b1
    b2 = b2
    None = None
    Deliveries <- OneDelivery
    Providers <- OneProvider
    Bodies <- TwoBodies
    MaxAttempts = 2
    MaxCrashes = 0
    QueueCap = 1
    LogInterval = 1
    MaxTime = 0
INVARIANTS
    EventsAreOutcomes
    AnsweredIsRecorded

    
CHECK_DEADLOCK FALSE
