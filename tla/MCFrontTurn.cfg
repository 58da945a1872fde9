\* A message, a file and a reaction; two slots; two faults.
SPECIFICATION Spec
CONSTANTS
    JobIds = {1, 2, 3, 4, 5, 6}
    Works = {0, 2}
    NoKey = NoKey
    MaxAttempts = 2
    Slots = {s1, s2}
    None = None
    Items = {1, 2, 3}
    Files = {2}
    Reactions = {3}
    StepBudget = 2
    MaxFaults = 2
SYMMETRY SlotSymmetry
INVARIANTS
    TypeOK
    AnsweredInOrder
    NoInputLeftBehind
PROPERTIES
    TurnsKeepTheirInput
CHECK_DEADLOCK FALSE
