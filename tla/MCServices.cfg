CONSTANTS
    Sources = {"s1"}
    Callers = {c1, c2}
    Urls = {"u1", "u2"}
    TTL = 1
    Grace = 1
    Concurrency = 1
    MaxTime = 3
    MaxSourceEdits = 1
    MaxFetchErrors = 1
    Requests = {r1, r2}
    Passwords = {1, 2}
    LoginLimit = 2
    MaxAdminOps = 4
    Stagings = {1, 2}
    MaxCrashes = 1
    IntermediateLife = 3
    ClientLife = 2
    RenewBefore = 1
    MaxTicks = 4
    MaxStarts = 4
    Protocols = {"shadowsocks", "trojan", "vless", "tuic"}
    MaxInboundOps = 2
    Addresses <- MCAddresses
    Undialable = {"h3"}
INIT Init
NEXT Next
SYMMETRY Symmetry
INVARIANTS TypeOK FilesConsistent FunctionsAgree RevokedStaysRevoked
PROPERTIES GoodKept
CHECK_DEADLOCK FALSE
