SPECIFICATION AuditSpec
CONSTANTS
    Writers = {t1, t2}
    MaxSeq = 4
    MaxHarm = 0
SYMMETRY AuditSymmetry
CHECK_DEADLOCK FALSE
INVARIANTS
    UntouchedVerifies
