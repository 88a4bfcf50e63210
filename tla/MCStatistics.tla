--------------------------- MODULE MCStatistics ---------------------------
(* Model-checking instance of Statistics: two orders of one account and    *)
(* one of another, so that counters are shared and kept apart; a channel  *)
(* of capacity 2 with up to 3 events, so that a receiver can lag.          *)
EXTENDS Statistics, TLC

CONSTANTS o1, o2, o3, a1, a2

MCOrders == {o1, o2, o3}
MCAccounts == {a1, a2}
MCAccountOf == (o1 :> a1) @@ (o2 :> a1) @@ (o3 :> a2)
MCCapacity == 2
MCMaxEvents == 3

=============================================================================
