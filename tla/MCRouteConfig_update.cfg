SPECIFICATION Spec
CONSTANTS
    Fresh = Fresh
    Gone = Gone
    None = None
    n1 = n1
    n2 = n2
    r1 = r1
    r2 = r2
    v1 = v1
    v2 = v2
    t1 = t1
    d1 = d1
    Node = {n1, n2}
    Route = {r1, r2}
    Vip = {v1, v2}
    EditVip = {}
    EditMesh = {n1, n2}
    Http = {t1}
    Dest = {d1}
INVARIANT RoutesRefer
