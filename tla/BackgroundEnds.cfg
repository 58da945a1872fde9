\* The same run under fairness, with one fault at any point.
SPECIFICATION FairSpec
CONSTANTS
    JobIds = {1, 2, 3}
    Works = {step}
    RunStep = step
    NoKey = NoKey
    MaxAttempts = 2
    Slots = {s1, s2}
    None = None
    MaxSteps = 2
    MaxResumes = 1
    MaxFaults = 1
INVARIANTS
    ParkedOnAHandoff
    
PROPERTY
    EndsOrParks
CHECK_DEADLOCK FALSE
