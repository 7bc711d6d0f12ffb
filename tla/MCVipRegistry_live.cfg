SPECIFICATION FairSpec
CONSTANTS
    Mac = {m1, m2}
    Channel = {c1, c2}
    Pool = {v1}
    Reserved = {net}
    Admin = {t1}
    NoMac = NoMac
    NoVip = NoVip
    NoChannel = NoChannel
    NoRow = NoRow
    MaxRegist = 1
INVARIANTS VipExclusive BindingsExact
PROPERTIES ClosedReleased ListedSilentEvicted LeaseKept
