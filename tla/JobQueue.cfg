\* Two jobs for two works on two slots; every job may be tried twice.
SPECIFICATION FairSpec
CONSTANTS
    JobIds = {1, 2}
    Works = {w1, w2}
    NoKey = NoKey
    MaxAttempts = 2
    Slots = {s1, s2}
    Idle = Idle
    MaxFaults = 2
INVARIANTS
    TypeOK
    NoLostWork
    OneQueuedPerKey
    OneSettler
    AttemptsJustified
PROPERTIES
    StaleWorkersChangeNothing
    EveryJobEnds
CHECK_DEADLOCK FALSE
