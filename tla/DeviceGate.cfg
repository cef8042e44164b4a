SPECIFICATION FairSpec
CONSTANTS
    Proc = {p1, p2}
    DeviceId = {d1}
    Mac = {m1, m2}
    Op = {o1, o2}
    None = None
    MaxGeneration = 2
INVARIANTS MutualExclusion WorksOnJoinedRouter FenceExact
PROPERTY EveryWaiterReturns
