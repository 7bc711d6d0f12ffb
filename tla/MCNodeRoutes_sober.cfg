SPECIFICATION Spec
CONSTANTS
    dA = dA
    dB = dB
    dLan = dLan
    other = other
    me = me
    Dest = {dA, dB, dLan}
    Hop = {other, me}
    Own = me
    Lists <- MixedLists
    Early = {"never", "addressed"}
    MaxInbox = 2
INVARIANTS TypeOK OsFollows NoOwn CacheCurrent
PROPERTIES ReleaseClean QuietUpdate
