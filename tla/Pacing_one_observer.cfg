\* A job and the observer of its own server.
SPECIFICATION FairSpec
CONSTANTS
    Foreign = {}
    ThrottleWaiters = 1
    PauseWaiters = 2
    ResumeWaiters = 0
    Dwell = 2
    MaxWaiters = 2
    CapBatches = 2
INVARIANTS BreakerTrips CommitsForWaiter
PROPERTIES NoFlapping StopEnds PauseEnds
CHECK_DEADLOCK FALSE
