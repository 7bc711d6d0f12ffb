SPECIFICATION Spec
CONSTANTS
    Mac = {m1, m2}
    Channel = {c1, c2, c3}
    Pool = {v1, v2}
    Reserved = {}
    Admin = {}
    NoMac = NoMac
    NoVip = NoVip
    NoChannel = NoChannel
    NoRow = NoRow
    MaxRegist = 2
SYMMETRY Alike
INVARIANTS TypeOK VipExclusive BindingsExact ListedOwner AddressBook
PROPERTY StaysListed
