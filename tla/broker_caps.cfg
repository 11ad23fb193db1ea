SPECIFICATION Spec
CONSTANTS
    k1 = k1  k2 = k2  k3 = k3  acct = acct
    s1 = s1  s2 = s2
    None = None
    Unreadable = Unreadable
    Keys = {k1, k2, k3}
    Slots = {s1, s2}
    Accounts <- MCAccounts
    Requests <- CapsRequests
    CapsOf <- CapsOfCaps
    Resend = FALSE
    TicksPerDay = 1
    DaysPerMonth = 2
    MaxClock = 2
    MaxUploads = 2
SYMMETRY SlotSymmetry
CHECK_DEADLOCK FALSE
INVARIANTS
    EffectsAreCounted SpendWithinCaps RejectionMeansNothingDone
