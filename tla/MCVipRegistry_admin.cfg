SPECIFICATION Spec
CONSTANTS
    Mac = {m1, m2}
    Channel = {c1, c2}
    Pool = {v1, v2}
    Reserved = {net}
    Admin = {t1}
    NoMac = NoMac
    NoVip = NoVip
    NoChannel = NoChannel
    NoRow = NoRow
    MaxRegist = 2
SYMMETRY Alike
INVARIANTS VipExclusive BindingsExact ListedOwner
