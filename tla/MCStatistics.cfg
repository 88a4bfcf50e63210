\* The counters and partially_filled_orders agree after any event stream.
CONSTANTS
    o1 = o1
    o2 = o2
    o3 = o3
    a1 = a1
    a2 = a2
    Orders <- MCOrders
    Accounts <- MCAccounts
    AccountOf <- MCAccountOf
    Capacity <- MCCapacity
    MaxEvents <- MCMaxEvents
SPECIFICATION Spec
INVARIANTS
    PartialCountsMatch
\* Every event is handled and the stream is at its bound: nothing is left.
CHECK_DEADLOCK FALSE
