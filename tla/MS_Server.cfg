\* All the operations on a queue and on one created meanwhile; timeouts,
\* disconnections, Stop and Start.
CONSTANTS
    Connections = {c1}
    QueueNames = {q1, q2}
    InitialQueues = {q1}
    Operations = {"CreateQueue", "DeleteQueue", "EnqueueMessage", "PurgeQueue",
                  "SubscribeToQueue", "UnsubscribeFromQueue"}
    MaxQueries = 2
    MaxCreated = 2
SPECIFICATION Spec
INVARIANT TypeOK
INVARIANT NoOrphanThread
INVARIANT StopSweeps
INVARIANT AcceptedIsEnqueued
INVARIANT EnqueuedOnce
INVARIANT SenderOrder
PROPERTY SubscriptionsRemoved
PROPERTY ImplementsServerContract
CHECK_DEADLOCK FALSE
