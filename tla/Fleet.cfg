SPECIFICATION FleetSpec
SYMMETRY Symmetry
CHECK_DEADLOCK FALSE
CONSTANTS
    Routers = {ra, rb}
    NoRouter = NoRouter
    HourLen = 2
    FiveMinute = 2
    Hourly = 3
    IdleWindows = 2
    Capacity = 3
    MaxFaults = 1
    MaxTime = 4
    MaxPolls = 3
    MaxOutages = 1
    MaxDeletes = 1
INVARIANT OwnData
INVARIANT NoSplicedRate
PROPERTY HistoryIsKept
