\* Three requests against two failures; three edits of a domain against one failing step.
SPECIFICATION FairSpec
CONSTANTS
    n1 = n1
    n2 = n2
    n3 = n3
    Nodes = {n1, n2, n3}
    UplinkNodes = {n3}
    HopLists <- MCHopLists
    MaxOps = 3
    MaxFailures = 2
    Modes <- MCModes
    Values = {1, 2}
    MaxEdits = 3
    MaxFailed = 1
INVARIANTS
    TypeOK
    DeployOutcome
    OwnedAccounted
PROPERTIES
    ChainsConverge
    DnsConverges
CHECK_DEADLOCK FALSE
