\* A grouped walk whose first group's value is the empty string.
SPECIFICATION FairSpec
CONSTANTS
    Keys = {1, 7}
    BatchRows = 1
    BatchCapRows = 2
    GroupStarts = {0, 6}
    GroupsPerBatch = 2
    Steps <- JustGroups
    MaxAttempts = 1
    MaxCancels = 0
    MaxAppWrites = 0
PROPERTY AttemptEnds
CHECK_DEADLOCK FALSE
