\* One command that is run, whose result never arrives before the sweep.
SPECIFICATION Spec
CONSTANTS
    Cmds = {c1}
    Handlers = {h1}
    TTL = 2
    LeaseSec = 1
    PollWait = 1
    BatchLimit = 1
    MaxTime = 2
    LastEnqueue = 0
    MaxRestarts = 0
INVARIANTS
    ExpiredMeansNotExecuted
