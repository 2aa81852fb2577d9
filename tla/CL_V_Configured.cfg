\* Expected violation of Reconnects, for a client made with a configuration.
CONSTANTS
    Configured = TRUE
    AutoReconnect = TRUE
    MaxConnections = 2
SPECIFICATION ClientFairSpec
PROPERTY Reconnects
CHECK_DEADLOCK FALSE
