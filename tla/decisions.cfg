SPECIFICATION DecisionsSpec
CONSTANTS
    Values = {before, after}
    Clerks = {panel, other}
    Worker = worker
    Cards = {card}
    Nobody = nobody
    MaxExpiry = 2
    Revisions = {r1, r2}
    Followed = {r1}
    Bridges = {b1, b2}
    Revocable = {b1, b2}
    Leases = {l1, l2}
    NoOne = noone
    MaxAttempts = 2
    MaxEdits = 2
    MaxInFlight = 1
    Writers = {t1, t2}
    MaxSeq = 4
    MaxHarm = 1
SYMMETRY DecisionsSymmetry
CHECK_DEADLOCK FALSE
INVARIANTS
    TypesOK
    PaidRunsAreBounded OneProposalPerDraft
    VerdictIsRight
PROPERTIES
    ImplementsPromise SentAsTheRowSays
    OwnersEditIsSeen
