\* One batch cancelled by the observer, nobody writes the table.
SPECIFICATION Spec
CONSTANTS
    Keys = {1, 2, 3}
    BatchRows = 1
    BatchCapRows = 3
    GroupStarts = {}
    GroupsPerBatch = 2
    Steps <- JustWalk
    MaxAttempts = 1
    MaxCancels = 1
    MaxAppWrites = 0
INVARIANT CursorClaim
CHECK_DEADLOCK FALSE
