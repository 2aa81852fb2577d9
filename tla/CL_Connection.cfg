\* Losses, outages, reconnect threads, Connect and Disconnect at any time.
CONSTANTS
    Configured = FALSE
    AutoReconnect = TRUE
    MaxConnections = 4
SPECIFICATION ClientFairSpec
INVARIANT DisconnectIsFinal
PROPERTY Reconnects
PROPERTY ReconnectThreadsEnd
CHECK_DEADLOCK FALSE
