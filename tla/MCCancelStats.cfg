\* The aggregator counts the order canceled at most once and only when it is Canceled.
CONSTANTS
    MaxFill <- MCMaxFill
    MaxAttempts <- MCMaxAttempts
    MaxPolls <- MCMaxPolls
    Policies <- MCPolicies
    Capacity <- MCCapacity
SPECIFICATION CSSpec
INVARIANTS
    CanceledCountedOnlyIfCanceled
CHECK_DEADLOCK FALSE
