SPECIFICATION Spec
CONSTANTS
    Clients <- MCClients
    Specs <- MCSpecs
    Connections <- MCConnections
    MaxTries = 2
    MaxCalls = 3
    Pids = {1, 2}
INVARIANTS TypeOK CeilingHolds NeverWaitsInside SharedTargetsSerialise
    CountedIsUnderway MarkedIsGone
PROPERTIES DeadAreMarked JobsEnd
CHECK_DEADLOCK FALSE
