SPECIFICATION Spec
CONSTANTS
    P1 = P1 P2 = P2
    F1 = F1 F2 = F2 F3 = F3 G = G
    M1 = M1 M2 = M2 M3 = M3
    E1 = E1 E2 = E2 E3 = E3
    K1 = K1 K2 = K2
    None = None
    Proc = {P1, P2}
    Project = {F1, F2, F3}
    Global = G
    World <- MCWorld
    MaxFaults = 2
INVARIANT SourcesStay
