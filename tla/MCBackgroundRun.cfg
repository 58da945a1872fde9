\* Two slots on one run of two steps, which may park once; two faults, so that
\* a step can use up both attempts of its job.
SPECIFICATION AgentsSpec
CONSTANTS
    JobIds = {1, 2, 3}
    Works = {step}
    RunStep = step
    NoKey = NoKey
    MaxAttempts = 2
    Slots = {s1, s2}
    None = None
    MaxSteps = 2
    MaxResumes = 1
    MaxFaults = 2
    TurnSlots = {t1}
    NoSlot = None
    MaxTokens = 8
    TargetTokens = 6
    MaxTurns = 4
    MaxStream = 11
    CompactAt = 8
    KeptSteps = 1
    MaxLog = 14
    MaxContextFaults = 1
    MaxGroup = 2
    ReplyParts = 2
    ReplyTries = 3
    MaxReplyFaults = 2
    HandTasks = {"task"}
    LinkRequests = {l1}
    MaxHandoffs = 2
    MaxFrontTurns = 2
    MaxHandFaults = 1
SYMMETRY SlotSymmetry
VIEW AgentsView
INVARIANTS
    TypeOK
    AnswersTellTheTruth
    
PROPERTIES
    CallsAnsweredNext
    OwnEndingIsTheEnd
    KeepsPromise
CHECK_DEADLOCK FALSE
