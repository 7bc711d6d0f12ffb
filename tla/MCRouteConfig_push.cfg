SPECIFICATION Spec
CONSTANTS
    Fresh = Fresh
    Gone = Gone
    None = None
    n1 = n1
    n2 = n2
    r1 = r1
    v1 = v1
    v2 = v2
    t1 = t1
    t2 = t2
    d1 = d1
    Node = {n1, n2}
    Route = {r1}
    Vip = {v1, v2}
    EditVip = {v1, v2}
    EditMesh = {n1, n2}
    Http = {t1, t2}
    Dest = {d1}
SYMMETRY Alike
CONSTRAINT OneAnswer
INVARIANTS TypeOK CurrentTold
