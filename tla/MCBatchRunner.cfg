\* Two configurations, so that a node can be behind; one trouble of any kind; the push
\* node's configuration may break and be repaired.
SPECIFICATION FairSpec
CONSTANTS
    n1 = n1
    n2 = n2
    Nodes = {n1, n2}
    Uplink = {n2}
    MaxConcurrency = 1
    Requests <- MCRequests
    Fragile = {n1}
    MaxConfig = 2
    MaxTrouble = 1
INVARIANTS
    BatchTypeOK
    TaskResultsExact
PROPERTIES
    BootstrapConverges
CHECK_DEADLOCK FALSE
