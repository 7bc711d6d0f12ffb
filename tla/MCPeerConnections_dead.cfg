SPECIFICATION FairSpec
CONSTANTS
    None = None
    Reserved = Reserved
    Peer = {p1}
    Kind = {"prflx"}
    Future = {f1, f2}
    Tunnel = {t1, t2}
    MaxRun = 1
    MaxWaiters = 1
    MaxBinds = 1
    MaxChecks = 2

PROPERTY DeadReplaced
