SPECIFICATION Spec
CONSTANTS
    None = None
    MaxSeq = 2
    MaxGroup = 2
    MaxCuts = 2
    MaxCrashes = 1
    MaxFaults = 1
    Minors = {1, 2}
    Components = 1
    Nodes = {n1, n2, n3}
    QCases <- MCCases
    Seeds = 1
    Waves = 2
    WaveCalls = 2
    MaxDowns = 1
    MaxLies = 1
    HCases <- MCScenarios
    MaxNoise = 1
    MaxBreaches = 1
SYMMETRY Symmetry
INVARIANTS DurablePrefix CasesPass PassMeansHonest NoFalseAlarm VerdictMatches
CHECK_DEADLOCK FALSE
