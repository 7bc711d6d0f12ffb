SPECIFICATION Spec
CONSTANTS
    dA = dA
    dB = dB
    dLan = dLan
    other = other
    me = me
    Dest = {dA, dB, dLan}
    Hop = {other, me}
    Own = me
    Lists <- FewLists
    Early = {"any"}
    MaxInbox = 2
INVARIANT NoOwn
