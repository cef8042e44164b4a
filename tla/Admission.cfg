CONSTANTS
    h1 = h1
    h2 = h2
    b1 = b1
    Handlers = {h1, h2}
    Background = {b1}
    TasksOf <- MCTasksOf
    None = None
SPECIFICATION FairSpec
INVARIANTS ShutdownIsClean RestoreIsAlone LateNeverMutates
PROPERTY ShutdownEnds
CHECK_DEADLOCK FALSE
