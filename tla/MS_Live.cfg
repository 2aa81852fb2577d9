\* Handlers end and Stop returns, but for the deadlock of DeleteQueue.
CONSTANTS
    Connections = {c1}
    QueueNames = {q1}
    InitialQueues = {q1}
    Operations = {"CreateQueue", "DeleteQueue", "EnqueueMessage", "SubscribeToQueue"}
    MaxQueries = 2
    MaxCreated = 2
SPECIFICATION FairSpec
PROPERTY HandlerEnds
PROPERTY StopReturns
CHECK_DEADLOCK FALSE
