\* Two attempts per message, and liveness.
CONSTANTS
    Connections = {c1}
    NoConnection = NoConnection
    ConsumptionScheme = "SuccessfulDeliveryToAllSubscribers"
    MaxDeliveryAttempts = 2
    Expires = TRUE
    MaxEnqueued = 2
    AttemptCap = 3
SPECIFICATION FairSpec
INVARIANT AttemptsBounded
PROPERTY NoRedelivery
PROPERTY StopCompletes
PROPERTY EveryMessageLeaves
CHECK_DEADLOCK FALSE
