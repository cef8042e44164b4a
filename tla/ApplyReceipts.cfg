SPECIFICATION FairSpec
CONSTANTS
    Op = {o1, o2}
    Device = {d1}
    Handler = {h1, h2}
    Request = {r1}
    None = None
INVARIANTS WritesAreRecorded RunsAtMostOnce ReceiptsAgree
PROPERTY EveryOperationEnds
