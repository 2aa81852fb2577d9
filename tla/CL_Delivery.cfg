\* Two messages for a client that loses its connection and subscribes again.
CONSTANTS
    Configured = FALSE
    AutoReconnect = TRUE
    MaxConnections = 2
    MaxDeliveryAttempts = 2
    NumMessages = 2
    MaxDeliveries = 2
SPECIFICATION Spec
INVARIANT TypeOK
INVARIANT OneAtATime
INVARIANT HandledAgainOnlyAfterFailure
PROPERTY LeavesForAReason
PROPERTY ImplementsQueueContract
CHECK_DEADLOCK FALSE
