\* The process dies while a group is open.
CONSTANTS
    MaxSteps = 2
    Plans <- MCPlans
    MaxLockAttempts = 1
    LedgerMayFail = FALSE
SPECIFICATION Spec
INVARIANT InterruptedStepsTrue
CHECK_DEADLOCK FALSE
