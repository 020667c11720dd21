SPECIFICATION FairSpec
CONSTANTS
    Jobs = {j1, j2}
    Workers = {w1, w2}
    None = none
    MaxRestarts = 1
    MaxGen = 2
INVARIANTS
    TypeOK
    OneActiveJob
    OverlapNeedsLostLease
    NoAbandonedRenewal
    ActiveInstalled
PROPERTIES
    BaselineKept RenewalEnds
CHECK_DEADLOCK FALSE
