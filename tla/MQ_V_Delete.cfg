\* Expected violation of DeleteCompletes.
CONSTANTS
    Connections = {c1}
    NoConnection = NoConnection
    ConsumptionScheme = "SuccessfulDeliveryToAllSubscribers"
    MaxDeliveryAttempts = 2
    Expires = FALSE
    MaxEnqueued = 1
    AttemptCap = 3
SPECIFICATION FairSpec
PROPERTY DeleteCompletes
CHECK_DEADLOCK FALSE
