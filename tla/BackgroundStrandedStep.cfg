\* The job of the next step is taken by a slot that finds the lock still held.
SPECIFICATION Spec
CONSTANTS
    JobIds = {1, 2, 3, 4}
    Works = {step}
    RunStep = step
    NoKey = NoKey
    MaxAttempts = 2
    Slots = {s1, s2}
    None = None
    MaxSteps = 3
    MaxResumes = 1
    MaxFaults = 0
INVARIANT NeverStranded
CHECK_DEADLOCK FALSE
