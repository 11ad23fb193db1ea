SPECIFICATION PathSpec
CONSTANTS
    p1 = p1  k1 = k1  s1 = s1  s2 = s2  acct = acct  w1 = w1
    None = None
    Unreadable = Unreadable
    Proposals = {p1}
    Workers = {w1}
    Delta <- MCDelta
    DailyCap = 3
    Autonomous = {}
    LeaseHolds = TRUE
    GatesMayFail = TRUE
    MaxDay = 1
    OtherKeys = {k1}
    Slots = {s1, s2}
    Accounts <- MCAccounts
    Requests <- MCRequests
    CapsOf <- MCCaps
    TicksPerDay = 1
    DaysPerMonth = 2
    MaxClock = 1
    MaxUploads = 1
SYMMETRY SlotSymmetry
CHECK_DEADLOCK FALSE
INVARIANTS
    PathTypeOK PathIsSound
PROPERTIES
    ImplementsChokepoint
