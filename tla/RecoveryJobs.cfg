SPECIFICATION JobsSpec
CONSTANTS
    Nobody = Nobody
    Jobs = {j1, j2}
    Uploads = {u1, u2}
    Previews = {p1, p2}
    HistoryLimit = 1
    RestoreLimit = 2
    HashSlots = 2
    MaxFaults = 1
    MaxRequests = 4
SYMMETRY Symmetry
INVARIANTS CancelHolds ConfirmedIsSeen FilesAccounted
CHECK_DEADLOCK FALSE
