\* Violation expected: a second call finds the latch of an earlier call set and returns Ok on an unfinished order.
CONSTANTS
    t1 = t1
    t2 = t2
    NoTask = NoTask
    Tasks <- MCTasks
    MaxFill <- MCMaxFill
    MaxAttempts <- MCMaxAttempts
    MaxPolls <- MCMaxPolls
    Policies <- MCPolicies
SPECIFICATION Spec
INVARIANTS
    LeaderOkOnlyIfFinished
CHECK_DEADLOCK FALSE
