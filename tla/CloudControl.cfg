\* One owner, a second attempt that follows it, and the manual cleanup.
SPECIFICATION FairSpec
CONSTANTS
    Attempts = {1, 2}
    Reconcilers = {w}
    Rows = 1
    Parts = 0
    MaxFaults = 1
    None = None
INVARIANTS NothingLeaks PassIsQualified
PROPERTIES LeaseReturns
CHECK_DEADLOCK FALSE
