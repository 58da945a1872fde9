\* A crash between the two statements that store a reply and count its step.
SPECIFICATION Spec
CONSTANTS
    JobIds = {1, 2, 3, 4}
    Works = {step}
    RunStep = step
    NoKey = NoKey
    MaxAttempts = 2
    Slots = {s1, s2}
    None = None
    MaxSteps = 3
    MaxResumes = 1
    MaxFaults = 1
INVARIANT EveryParkAnnounced
CHECK_DEADLOCK FALSE
