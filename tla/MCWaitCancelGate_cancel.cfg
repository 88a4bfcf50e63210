\* Liveness: cancellation of every token unblocks every call.
CONSTANTS
    t1 = t1
    t2 = t2
    t3 = t3
    NoTask = NoTask
    Tasks <- MCTaskPair
SPECIFICATION Spec
PROPERTIES
    CancellationUnblocksAll
CHECK_DEADLOCK FALSE
