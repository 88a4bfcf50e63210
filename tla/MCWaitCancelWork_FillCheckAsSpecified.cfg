CONSTANTS
    MaxFill <- MCMaxFill
    MaxAttempts <- MCMaxAttempts
    MaxPolls <- MCMaxPolls
    Policies <- MCPolicies
SPECIFICATION Spec
PROPERTIES
    FillCheckAsSpecified
CHECK_DEADLOCK FALSE
