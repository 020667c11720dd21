\* Two inbound settings, one of which binds the managed certificate; one FRPS
\* setting that runs a server; one renewal and two edits.
SPECIFICATION FairSpec
CONSTANTS
    Bases = {plain, tls}
    Managed = {tls}
    FRPS = {f}
    Enabled = {f}
    None = None
    MaxEdits = 2
    MaxRenewals = 1
CHECK_DEADLOCK FALSE
INVARIANTS
    TypeOK
    RememberedRuns
PROPERTIES
    ConvergesUnlessDrifted
