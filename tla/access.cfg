SPECIFICATION AccessSpec
CONSTANTS
    acctA = acctA  acctB = acctB  call1 = call1  call2 = call2
    hand1 = hand1  hand2 = hand2  back1 = back1  back2 = back2
    None = None  Missing = Missing  Damaged = Damaged
    CapAccounts = {acctA, acctB}
    Requestable <- MCRequestable
    HandEdited <- MCHandEdited
    CapsFiles <- MCFiles
    MaxChangesPerDay = 2
    RetainedDays = 2
    MaxCapsDay = 1
    OAuthCalls = {call1, call2}
    Generations = 3
    Nil = Nil
    Handlers = {hand1, hand2}
    Sessions = {s1}
    Actions = {"revoke", "other"}
    TotpCodes = {k1}
    Nonces = {n1}
    Jumps = {j1}
    MaxIdentifications = 1
    Nothing = Nothing
    Attempts = {redirected, pasted}
    Pasted = {pasted}
    AdAccounts = {page}
    Callbacks = {back1, back2}
    MaxBrokerCrashes = 1
SYMMETRY AccessSymmetry
CHECK_DEADLOCK FALSE
INVARIANTS
    TypesOK
    AuthorityHolds ChangesWithinBudget ConfirmedIsKept
    ConsentIsTraceable
    ConfirmationServesOnce ConnectionIsSound
PROPERTIES
    LoggedOutStaysOut
