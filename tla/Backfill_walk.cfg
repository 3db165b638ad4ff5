\* A table the application writes beside the walk: three keys, two attempts.
SPECIFICATION FairSpec
CONSTANTS
    Keys = {4, 5, 7}
    BatchRows = 2
    BatchCapRows = 2
    GroupStarts = {3, 6}
    GroupsPerBatch = 1
    Steps <- WalkOrStatement
    MaxAttempts = 2
    MaxCancels = 1
    MaxAppWrites = 1
INVARIANTS WalkComplete
PROPERTIES CancelKeepsBatch AttemptEnds
CHECK_DEADLOCK FALSE
