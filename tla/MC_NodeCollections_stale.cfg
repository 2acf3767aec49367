\* Two handler threads load, reset and refresh the collections of a
\* database and of a server-level object while the catalog changes.
CONSTANTS
    n1 = n1  n2 = n2  n3 = n3
    k1 = k1  k2 = k2  k3 = k3
    p1 = p1  p2 = p2  p3 = p3
    Threads = {t1, t2}
    Nodes = {n1, n3}
    ChildColls = {k1, k3}
    PropColls = {p1, p3}
    Owner <- MC_Owner
    NoDbNodes = {n3}
    MaxVersion = 1
SPECIFICATION Spec
SYMMETRY MC_ThreadSymmetry
CONSTRAINT MC_CatalogBound
INVARIANT StaleOnlyAfterRacedReset
