SPECIFICATION Spec
CONSTANTS
    Scenes = {"cluster", "history", "reads"}
    MaxBallot = 3
    QueueLimit = 3
    PromiseLimit = 4
    PinLimit = 1
    MaxSlots = 2
    Commands = {1}
    ReadIds = {1}
    MaxEffort = 3
    HMaxEpoch = 2
    HMaxIndex = 2
    Incarnations = {"i1"}
    Operations = {"ADD"}
    ReadRoots <- MCRoots
    MaxEpoch = 2
    MaxPosition = 2
    MaxSequence = 1
INVARIANTS
    OracleAccepts
    CommittedKept
PROPERTIES
    ImplementsLog
    ReadsSafe
CHECK_DEADLOCK FALSE
