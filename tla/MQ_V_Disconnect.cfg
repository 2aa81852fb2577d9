\* Expected violation of DisconnectRemovesSubscription.
CONSTANTS
    Connections = {c1}
    NoConnection = NoConnection
    ConsumptionScheme = "SuccessfulDeliveryToAllSubscribers"
    MaxDeliveryAttempts = 2
    Expires = FALSE
    MaxEnqueued = 1
    AttemptCap = 3
SPECIFICATION Spec
INVARIANT DisconnectRemovesSubscription
CHECK_DEADLOCK FALSE
