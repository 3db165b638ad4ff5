SPECIFICATION Spec
CONSTANTS
    Names <- LabelNames
    Scenario <- MCScenario
    MakePlan <- PlanMigration
    MaxInterrupts = 0
    MaxWrites = 0
INVARIANT StepsApply
CHECK_DEADLOCK FALSE
