SPECIFICATION Spec
CONSTANTS
    P1 = P1 P2 = P2
    M1 = M1 M2 = M2
    T1 = T1 T2 = T2 T3 = T3
    C1 = C1 C2 = C2
    E1 = E1 E2 = E2 E3 = E3
    R1 = R1 R2 = R2
    None = None
    Proc = {P1, P2}
    Policy <- MCPolicy
    Episode <- MCEpisode
    Scenario <- MCScenario
    FreshFor = 1
    AgingFor = 2
    MaxTime = 2
    MaxCrashes = 1
INVARIANTS Derivable ActiveEarned NoLateConflict HarmRemembered EvidenceFreezeHolds
CHECK_DEADLOCK FALSE
