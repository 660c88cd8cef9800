SPECIFICATION Spec
CONSTANTS
    m1 = m1
    m2 = m2
    fa = fa
    fb = fb
    s1 = s1
    s2 = s2
    None = None
    Fact = {fa, fb, s1, s2}
    Identity <- TwoContents
    Mig = {m1, m2}
    Inputs <- SharedInput
    SourceManifest <- OwnManifests
    Puts = {fa, fb}
    Proc = {p1, p2}
    MaxCrashes = 1
    MaxFailures = 1
SYMMETRY Symmetry
INVARIANT NothingLeftBehind InputsReadable
PROPERTIES UndoesItsOwn SealedStay
