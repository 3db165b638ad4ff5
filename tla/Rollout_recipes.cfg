SPECIFICATION Spec
CONSTANTS
    Names <- MCNames
    Scenario <- MCScenario
    MakePlan <- PlanMigration
    MaxInterrupts = 3
    MaxWrites = 2
INVARIANTS
    StepsApply
    DoneMeansIdeal
    ResumeAccepted
    KeepsWhatStays
    ShortLocks
    QueuesBriefly
    WalksByKey
PROPERTY
    Completes
CHECK_DEADLOCK FALSE
