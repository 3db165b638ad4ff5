\* A second connection's observer ticks over the job too.
SPECIFICATION Spec
CONSTANTS
    Foreign = {"other"}
    ThrottleWaiters = 1
    PauseWaiters = 2
    ResumeWaiters = 0
    Dwell = 2
    MaxWaiters = 2
    CapBatches = 2
INVARIANTS BreakerTrips
CHECK_DEADLOCK FALSE
