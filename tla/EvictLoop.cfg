SPECIFICATION Spec
CONSTANTS
    Models = {m1, m2, m3}
    Budget = 4
    NoSlot = NoSlot
    MbValues = {1, 2, 5}
    IdleValues = {0, 1, 2}
INVARIANTS LoopMatchesDescription DescriptionMatchesLoop
PROPERTY LoopEnds
CHECK_DEADLOCK FALSE
