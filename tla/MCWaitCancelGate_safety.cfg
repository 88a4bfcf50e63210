\* Single flight, its inductive invariant and the refinement of SingleFlightGate over every interleaving of three callers.
CONSTANTS
    t1 = t1
    t2 = t2
    t3 = t3
    NoTask = NoTask
    Tasks <- MCTasks
SPECIFICATION SafetySpec
SYMMETRY TaskSymmetry
INVARIANTS
    SingleFlight
    GateInv
PROPERTIES
    ImplementsSingleFlightGate
\* Every caller returns and no step is left: the program has stopped.
CHECK_DEADLOCK FALSE
