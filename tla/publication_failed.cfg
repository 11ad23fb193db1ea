SPECIFICATION SagaSpec
CONSTANTS
    Plan <- MCPlan
    OwnerOps <- MCOwnerOps
    Trees = {signed, edited}
    NoTree = NoTree
    MaxCrashes = 1
CHECK_DEADLOCK FALSE
INVARIANTS
    FailedMeansNothingCreated
