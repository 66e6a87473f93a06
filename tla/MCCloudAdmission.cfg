SPECIFICATION Spec
CONSTANTS
    Sources = {1, 2}
    Members = {m1, m2}
    Experiment = m1
    Histories <- MCHistories
    Providers = {quota}
    Tries = 2
    MaxRuns = 9
    MaxJobs = 2
    MaxFaults = 1
    None = None
INVARIANTS ApprovedSpend AcceptedOriginals
CHECK_DEADLOCK FALSE
