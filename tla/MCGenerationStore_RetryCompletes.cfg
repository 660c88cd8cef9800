SPECIFICATION Spec
CONSTANTS
    t1 = t1
    t2 = t2
    p1 = p1
    p2 = p2
    m1 = m1
    m2 = m2
    m3 = m3
    None = None
    Tx = {t1, t2}
    Proc = {p1, p2}
    Okf = {t2}
    Manifests = {m1, m2, m3}
    Verified = {m1, m2}
    Requests <- ChainRequests
SYMMETRY Symmetry
INVARIANT RetryCompletes
