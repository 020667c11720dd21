\* One socket and one log stream: a buffer of one line, two lines sent.
SPECIFICATION Spec
CONSTANTS
    Unary = {u}
    Streams = {s}
    MaxSockets = 1
    MaxItems = 2
    StreamDepth = 1
CHECK_DEADLOCK FALSE
INVARIANTS
    BlockedOnlyOnReader
