SPECIFICATION Spec
CONSTANTS
    ca = ca
    cb = cb
    qa = qa
    qb = qb
    std = std
    alt = alt
    bad = bad
    p1 = p1
    p2 = p2
    None = None
    Class = {ca, cb}
    Prop = {qa, qb}
    Text = {std, alt, bad}
    Default <- Hash
    Standard = std
    Answers <- Generated
    Task <- Failing
    Rank <- ByName
    Sound = {std, alt}
    Threshold = 2
    Proc = {p1}
    Command = {"approve", "reject", "rollback", "prune", "repair"}
    Keep = {0}
    MaxEpisodes = 4
    MaxFailures = 1
INVARIANTS GatedInForce ApprovedCanReturn EvidenceKept
CHECK_DEADLOCK FALSE
