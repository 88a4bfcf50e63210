\* Violation expected: the work fails after the hook deferred CancelOrderSucceeded, which is then never published.
CONSTANTS
    MaxFill <- MCMaxFill
    MaxAttempts <- MCMaxAttempts
    MaxPolls <- MCMaxPolls
    Policies <- MCPolicies
    Capacity <- MCCapacity
SPECIFICATION CSSpec
PROPERTIES
    CanceledOrderCounted
CHECK_DEADLOCK FALSE
