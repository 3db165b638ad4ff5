\* Overlapping runs, two jobs at once in each, and up to two troubles.
SPECIFICATION Spec
CONSTANTS
    p1 = p1
    p2 = p2
    Procs = {p1, p2}
    Settings <- MCSettings
    Limits <- OneConnection
    Default = "main"
INVARIANTS TypeOK DependencyOrder ExitZeroMeansDone WatchedToTheEnd SlotFree
PROPERTY StopEnds
CHECK_DEADLOCK FALSE
