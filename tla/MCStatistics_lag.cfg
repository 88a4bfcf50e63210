\* Violation expected: a receiver more than Capacity events behind gets Lagged and start() returns Err.
CONSTANTS
    o1 = o1
    o2 = o2
    o3 = o3
    a1 = a1
    a2 = a2
    Orders <- MCOrders
    Accounts <- MCAccounts
    AccountOf <- MCAccountOf
    Capacity <- MCCapacity
    MaxEvents <- MCMaxEvents
SPECIFICATION Spec
PROPERTIES
    EveryEventHandled
CHECK_DEADLOCK FALSE
