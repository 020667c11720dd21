\* One inbound setting without a certificate and two FRPS settings; three PUTs.
SPECIFICATION FairSpec
CONSTANTS
    Bases = {plain}
    Managed = {}
    FRPS = {f, off}
    Enabled = {f}
    None = None
    MaxEdits = 3
    MaxRenewals = 0
CHECK_DEADLOCK FALSE
PROPERTIES
    FRPSConverges
