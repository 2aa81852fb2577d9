\* Intervals, ages and throttles that are not multiples of one another, with a
\* throttle above a second and one below.
CONSTANTS
    BatchDeliveryInterval = 1
    MaxMessageAge = 1
    Throttles = {3, 5}
    ScanPeriod = 3
    Second = 4
    Millisecond = 2
    MaxEnqueued = 2
    MaxTime = 9
SPECIFICATION Spec
INVARIANT TypeOK
INVARIANT StopCutsThrottle
PROPERTY FreshWhenTaken
PROPERTY ThrottleKept
CHECK_DEADLOCK FALSE
