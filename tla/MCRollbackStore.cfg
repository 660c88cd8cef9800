SPECIFICATION Spec
CONSTANTS
    g1 = g1
    g2 = g2
    g3 = g3
    k1 = k1
    k2 = k2
    None = None
    Gen = {g1, g2, g3}
    Key = {k1, k2}
    Target <- Targets
    Proc = {p1, p2}
    MaxCrashes = 2
SYMMETRY Symmetry
INVARIANTS RollbackAudited CommittedWereEffective ToldTruth
