\* The leader's retry loop under every policy: no missed fill, one cancel event, and a cancelled token ends the work.
CONSTANTS
    MaxFill <- MCMaxFill
    MaxAttempts <- MCMaxAttempts
    MaxPolls <- MCMaxPolls
    Policies <- MCPolicies
SPECIFICATION FairSpec
INVARIANTS
    NoMissedFill
    CancelEventOnce
    CancelEventInv
PROPERTIES
    TokenEndsWork
\* The call returns and the venue runs out of fills: the program stops.
CHECK_DEADLOCK FALSE
