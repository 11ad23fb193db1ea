SPECIFICATION StoppingSpec
CONSTANTS
    p1 = p1  p2 = p2  w1 = w1  w2 = w2
    None = None
    Proposals = {p1, p2}
    Workers = {w1, w2}
    Delta <- RaiseAndCut
    DailyCap = 3
    Autonomous = {p2}
    LeaseHolds = FALSE
    GatesMayFail = FALSE
    MaxDay = 1
    Accounts = {a1, a2}
    Pressed = {"global", a1, a2}
    Callers = {c1, c2}
    MaxTime = 1
    Absent = Absent
    BusinessRows <- MCBusinessRows
    Policies <- MCPolicies
    Snapshots <- MCSnapshots
    Changes <- MCChanges
SYMMETRY StoppingSymmetry
INVARIANTS
    TypesOK
    SentOnce
    DailyCapHolds
    WithdrawnIsNeverWritten
    BrakeHolds
    BrakeIsSeen
    WrittenIsSignedAndAdmissible
