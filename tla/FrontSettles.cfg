\* A file and a message; two slots; two faults.
SPECIFICATION FairSpec
CONSTANTS
    JobIds = {1, 2, 3, 4, 5, 6}
    Works = {0, 1}
    NoKey = NoKey
    MaxAttempts = 2
    Slots = {s1, s2}
    None = None
    Items = {1, 2}
    Files = {1}
    Reactions = {}
    StepBudget = 2
    MaxFaults = 2
PROPERTY
    InputSettles
CHECK_DEADLOCK FALSE
