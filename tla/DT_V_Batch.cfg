\* Two messages for a subscriber, without a throttle or a maximum age.
CONSTANTS
    BatchDeliveryInterval = 2
    MaxMessageAge = 0
    Throttles = {0}
    ScanPeriod = 3
    Second = 4
    Millisecond = 2
    MaxEnqueued = 2
    MaxTime = 6
SPECIFICATION Spec
PROPERTY BatchDeliversAll
CHECK_DEADLOCK FALSE
