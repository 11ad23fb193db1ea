SPECIFICATION GuardSpec
CONSTANTS
    Absent = Absent
    BusinessRows <- MCBusinessRows
    Policies <- MCPolicies
    Snapshots <- MCSnapshots
    Changes <- MCChanges
CHECK_DEADLOCK FALSE
PROPERTY
    ChangedVerdictInvalidates
