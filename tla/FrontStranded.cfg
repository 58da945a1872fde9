\* A turn outlives its lease and then fails.
SPECIFICATION Spec
CONSTANTS
    JobIds = {1, 2, 3, 4}
    Works = {0}
    NoKey = NoKey
    MaxAttempts = 2
    Slots = {s1, s2}
    None = None
    Items = {1, 2}
    Files = {}
    Reactions = {}
    StepBudget = 1
    MaxFaults = 2
INVARIANT NoInputStranded
CHECK_DEADLOCK FALSE
