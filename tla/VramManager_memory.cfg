SPECIFICATION Spec
CONSTANTS
    m1 = m1  m2 = m2  m3 = m3
    r1 = r1  r2 = r2  r3 = r3
    Models = {m1, m2, m3}
    Canonical = {m1, m2, m3}
    CanonicalMb <- MCAllMb
    DbSizes = {4}
    Budget = 3
    IdleTimeout = 1
    MaxConcurrency = 1
    Requests = {r1, r2}
    Cleaner = Cleaner
    Insts = {1, 2, 3, 4, 5}
    MaxCalls = 2
    MaxIdle = 2
    MaxReloads = 0
    NoTask = NoTask  NoSlot = NoSlot  NoWrapper = NoWrapper  NoReq = NoReq
INVARIANT MemoryWithinLimit
