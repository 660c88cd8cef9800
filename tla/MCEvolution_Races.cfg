SPECIFICATION Spec
CONSTANTS
    ca = ca
    cb = cb
    qa = qa
    qb = qb
    std = std
    alt = alt
    bad = bad
    p1 = p1
    p2 = p2
    None = None
    Class = {ca}
    Prop = {qa}
    Text = {std}
    Default <- Hash
    Standard = std
    Answers <- NoAnswers
    Task <- Failing
    Rank <- ByName
    Sound = {std}
    Threshold = 1
    Proc = {p1, p2}
    Command = {"approve", "reject", "rollback", "prune", "repair"}
    Keep = {0}
    MaxEpisodes = 2
    MaxFailures = 1
SYMMETRY Symmetry
INVARIANTS EvidenceGrounded Recoverable
CHECK_DEADLOCK FALSE
