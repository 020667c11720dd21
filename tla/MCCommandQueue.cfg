\* Two commands against a lease limit of one, so that the LIMIT of the SELECT
\* bites; two poll goroutines, one of which may be a poll the Agent gave up on;
\* a TTL of two leases, so that a command is redelivered before it expires.
SPECIFICATION Spec
CONSTANTS
    Cmds = {c1, c2}
    Handlers = {h1, h2}
    TTL = 2
    LeaseSec = 1
    PollWait = 1
    BatchLimit = 1
    MaxTime = 2
    LastEnqueue = 0
    MaxRestarts = 1
SYMMETRY Symmetry
INVARIANTS
    TypeOK
    RunsAreCharged
    RedeliveryBounded
    NoLostWakeup
PROPERTIES
    ImplementsContract
