SPECIFICATION FairSpec
CONSTANTS
    None = None
    Call = {c1, c2}
    MaxAnswers = 1
    Address = {a1, a2}
    CallTimeout = 1
    Period = 2
    MaxPeriod = 2
    MaxDelay = 1
    Outage = 2
    Timeouts = {3, 6}
INVARIANTS TypeOK MapDrains Reachable SoonBack
PROPERTIES OneEnd BindEnds Cleared
