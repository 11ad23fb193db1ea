SPECIFICATION SettlingSpec
CONSTANTS
    Approved = p1
    Workers = {w1, w2}
    Undated = undated
    Revisions = {r1, r2}
    Followed = {r1}
    Bridges = {b1}
    Revocable = {}
    Leases = {l1, l2, l3}
    NoOne = noone
    MaxAttempts = 2
    MaxEdits = 2
    MaxInFlight = 1
    Nothing = Nothing
    Attempts = {redirected}
    Pasted = {}
    AdAccounts = {page}
    Callbacks = {back1, back2}
    MaxBrokerCrashes = 1
    HourLength = 2
    DayHours = 4
    Active = {2}
    DigestHour = 1
    Chats = 2
    Tries = 3
    MaxEntries = 2
    MaxDelay = 1
    MaxSlot = 4
    MaxWorkerCrashes = 1
    Containers = {c1, c2}
    Loops = {observation, execution, telegram}
    NoSession = NoSession
CHECK_DEADLOCK FALSE
INVARIANTS
    TypesOK
    DoneByOne
PROPERTIES
    WorkSettles
