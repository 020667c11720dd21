SPECIFICATION FairSpec
CONSTANTS
    Writers = {w1}
    Serials = {1, 2, 3}
    Tokens = {1, 2}
    MaxTime = 3
    MaxEdits = 1
    MaxReports = 2
    Ahead = 1
    Handlers = {h1, h2}
    Nobody = nobody
    MaxFaults = 3
INVARIANTS
    TypeOK
    EditsKept
    PinnedIsActive
PROPERTIES
    ReportsWin
    PinnedEventually
CHECK_DEADLOCK FALSE
