SPECIFICATION Spec
CONSTANTS
    None = None
    MaxSeq = 1
    MaxGroup = 1
    MaxCuts = 1
    MaxCrashes = 1
    MaxFaults = 0
    Minors = {1}
    Components = 1
    Nodes = {n1, n2, n3}
    QCases <- MCCases
    Seeds = 1
    Waves = 2
    WaveCalls = 2
    MaxDowns = 1
    MaxLies = 1
    HCases <- MCScenarios
    MaxNoise = 1
    MaxBreaches = 1
SYMMETRY Symmetry
INVARIANTS CrashRecovers
CHECK_DEADLOCK FALSE
