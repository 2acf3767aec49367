\* Two handler threads: one loads a collection while the other refreshes it.
CONSTANTS
    n1 = n1  n2 = n2  n3 = n3
    k1 = k1  k2 = k2  k3 = k3
    p1 = p1  p2 = p2  p3 = p3
    Threads = {t1, t2}
    Nodes = {n1}
    ChildColls = {k1}
    PropColls = {p1}
    Owner <- MC_Owner
    NoDbNodes = {}
    MaxVersion = 1
SPECIFICATION Spec
SYMMETRY MC_ThreadSymmetry
INVARIANT ResetForcesReload
