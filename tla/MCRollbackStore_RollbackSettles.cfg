SPECIFICATION FairSpec
CONSTANTS
    g1 = g1
    g2 = g2
    g3 = g3
    k1 = k1
    k2 = k2
    None = None
    Gen = {g1, g2}
    Key = {k1}
    Target <- OneTarget
    Proc = {p1, p2}
    MaxCrashes = 1
PROPERTY RollbackSettles
CHECK_DEADLOCK FALSE
