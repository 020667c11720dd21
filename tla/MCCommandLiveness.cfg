\* One command, two poll goroutines (one may be a poll the Agent gave up on),
\* one restart of either side, and a clock that reaches the TTL.
SPECIFICATION FairSpec
CONSTANTS
    Cmds = {c1}
    Handlers = {h1, h2}
    TTL = 2
    LeaseSec = 1
    PollWait = 1
    BatchLimit = 1
    MaxTime = 2
    LastEnqueue = 0
    MaxRestarts = 1
PROPERTIES
    CommandTerminates
