SPECIFICATION Spec
CONSTANTS
    m1 = m1  m2 = m2  m3 = m3
    r1 = r1  r2 = r2  r3 = r3
    Models = {m1, m2, m3}
    Canonical = {m1, m2}
    CanonicalMb <- MCCanonicalMb
    DbSizes = {4}
    Budget = 3
    IdleTimeout = 0
    MaxConcurrency = 1
    Requests = {r1, r2}
    Cleaner = Cleaner
    Insts = {1, 2, 3, 4, 5}
    MaxCalls = 1
    MaxIdle = 1
    MaxReloads = 2
    NoTask = NoTask  NoSlot = NoSlot  NoWrapper = NoWrapper  NoReq = NoReq
INVARIANT ModelCallLimit
