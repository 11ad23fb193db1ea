SPECIFICATION Spec
CONSTANTS
    k1 = k1  k2 = k2  k3 = k3  k4 = k4  k5 = k5  acct = acct
    s1 = s1  s2 = s2
    None = None
    Unreadable = Unreadable
    Keys = {k1, k2, k3, k4, k5}
    Slots = {s1, s2}
    Accounts <- MCAccounts
    Requests <- ResentRequests
    CapsOf <- CapsOfRetry
    Resend = TRUE
    TicksPerDay = 1
    DaysPerMonth = 2
    MaxClock = 2
    MaxUploads = 2
CONSTRAINT OneKindOfKeys
SYMMETRY SlotSymmetry
INVARIANTS
    AtMostOneCall LedgerAgrees ParentFirst
PROPERTIES
    HistoryIsKept ImplementsWritePort
