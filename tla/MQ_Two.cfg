\* Two connections that compete for two messages, one attempt each, expiration.
CONSTANTS
    Connections = {c1, c2}
    NoConnection = NoConnection
    ConsumptionScheme = "FirstConsumedSubscriber"
    MaxDeliveryAttempts = 1
    Expires = TRUE
    MaxEnqueued = 2
    AttemptCap = 2
SPECIFICATION Spec
SYMMETRY ConnectionSymmetry
INVARIANT TypeOK
INVARIANT IInv
INVARIANT InOrder
INVARIANT AtMostOneConsumer
PROPERTY RemovedOnlyWhenSettled
PROPERTY ImplementsContract
CHECK_DEADLOCK FALSE
