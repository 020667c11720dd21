\* Two sockets, so that an old one is torn down while a new one lives; one unary
\* call and one stream whose buffer holds one line of the two sent, so that it
\* fills up.
SPECIFICATION FairSpec
CONSTANTS
    Unary = {u}
    Streams = {s}
    MaxSockets = 2
    MaxItems = 2
    StreamDepth = 1
CHECK_DEADLOCK FALSE
INVARIANTS
    TypeOK
    NoOrphanedCall
    NewestSocketKept
    DisplacedIsClosed
    NoStreamGap
PROPERTIES
    DisplacedSocketEnds
