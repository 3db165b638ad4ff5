\* Plans of up to three emitted steps; the coordination connection may fail.
CONSTANTS
    MaxSteps = 3
    Plans <- MCPlans
    MaxLockAttempts = 2
    LedgerMayFail = TRUE
SPECIFICATION FairSpec
INVARIANTS
    StepsToldTrue
    NoOrphanedSuccess
    SucceededMeansAll
    FinishedLedgerTrue
PROPERTIES ImplementsMigration JobEnds
CHECK_DEADLOCK FALSE
