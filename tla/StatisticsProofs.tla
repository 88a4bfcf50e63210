------------------------- MODULE StatisticsProofs -------------------------
(***************************************************************************)
(* Proof, for any finite set of orders, any accounts and any channel       *)
(* capacity, that the partially filled counters of statistic_service.rs   *)
(* agree with partially_filled_orders (PartialCountsMatch).  The argument: *)
(* register_partially_filled_order increments only for an order not yet in *)
(* the set and inserts it; remove_filled_order_if_exist decrements only    *)
(* for an order in the set and removes it; so the counter of the order's   *)
(* account and the number of its orders in the set move together, and the *)
(* guarded decrement of lines 47-53 never meets a zero counter.            *)
(***************************************************************************)
EXTENDS Statistics, FiniteSetTheorems, TLAPS

(* The orders of account a in a set P of orders.                           *)
OfAccount(P, a) == {x \in P : AccountOf[x] = a}

IInv == TypeOK /\ PartialCountsMatch

(* Adding an order to, or removing it from, a set of orders changes the    *)
(* number of orders of an account by one exactly when the order is of that *)
(* account and was out of, or in, the set.                                 *)
LEMMA OfAccountCard ==
    ASSUME NEW P \in SUBSET Orders, NEW o \in Orders, NEW a \in Accounts
    PROVE  /\ IsFiniteSet(OfAccount(P, a))
           /\ Cardinality(OfAccount(P \cup {o}, a)) =
                IF o \notin P /\ AccountOf[o] = a
                THEN Cardinality(OfAccount(P, a)) + 1
                ELSE Cardinality(OfAccount(P, a))
           /\ Cardinality(OfAccount(P \ {o}, a)) =
                IF o \in P /\ AccountOf[o] = a
                THEN Cardinality(OfAccount(P, a)) - 1
                ELSE Cardinality(OfAccount(P, a))
<1> DEFINE Q == OfAccount(P, a)
<1>1. IsFiniteSet(Q)
  <2>1. Q \in SUBSET Orders
    BY DEF OfAccount
  <2>. QED
    BY <2>1, StatisticsAssumption, FS_Subset
<1>2. CASE AccountOf[o] = a
  <2>1. OfAccount(P \cup {o}, a) = Q \cup {o}
    BY <1>2 DEF OfAccount
  <2>2. OfAccount(P \ {o}, a) = Q \ {o}
    BY DEF OfAccount
  <2>3. o \in Q <=> o \in P
    BY <1>2 DEF OfAccount
  <2>4. Cardinality(Q \cup {o}) = IF o \in Q THEN Cardinality(Q)
                                             ELSE Cardinality(Q) + 1
    BY <1>1, FS_AddElement
  <2>5. Cardinality(Q \ {o}) = IF o \in Q THEN Cardinality(Q) - 1
                                          ELSE Cardinality(Q)
    BY <1>1, FS_RemoveElement
  <2>. QED
    BY <1>1, <1>2, <2>1, <2>2, <2>3, <2>4, <2>5
<1>3. CASE AccountOf[o] # a
  <2>1. OfAccount(P \cup {o}, a) = Q /\ OfAccount(P \ {o}, a) = Q
    BY <1>3 DEF OfAccount
  <2>. QED
    BY <1>3, <2>1, <1>1
<1>. QED
  BY <1>2, <1>3

(* The initial state: no counts, an empty set.                             *)
LEMMA InitIInv == Init => IInv
<1> SUFFICES ASSUME Init PROVE IInv
  OBVIOUS
<1>1. TypeOK
  BY DEF Init, TypeOK, ZeroStatistic, Counters
<1>2. \A a \in Accounts : OfAccount(partial, a) = {}
  BY DEF Init, OfAccount
<1>3. \A a \in Accounts : stats[a].partially = 0
  BY DEF Init, ZeroStatistic, Counters
<1>. QED
  BY <1>1, <1>2, <1>3, FS_EmptySet DEF IInv, PartialCountsMatch, OfAccount

(* handle_event keeps the invariant, whatever the event: the partially    *)
(* counter of the event's account and the number of that account's orders *)
(* in the set change by the same amount, and nothing else bears on it.    *)
LEMMA ReceiveIInv ==
    ASSUME IInv, Receive, UNCHANGED stream
    PROVE  IInv'
<1>. USE StatisticsAssumption
<1> DEFINE e == stream[next]
           a == AccountOf[e.order]
           o == e.order
<1>1. e \in Events /\ o \in Orders /\ a \in Accounts
  <2>1. next \in 1..Len(stream) /\ stream \in Seq(Events)
    BY DEF IInv, TypeOK, Receive
  <2>2. e \in Events
    BY <2>1
  <2>. QED
    BY <2>2 DEF Events
<1>2. /\ partial \subseteq Orders
      /\ stats \in [Accounts -> [Counters -> Nat]]
      /\ \A b \in Accounts : stats[b].partially = Cardinality(OfAccount(partial, b))
  BY DEF IInv, TypeOK, PartialCountsMatch, OfAccount
<1>3. /\ next' = next + 1 /\ next <= Len(stream)
      /\ UNCHANGED <<handler, skipped>>
      /\ HandleEvent(e)
  BY DEF Receive
<1>4. ASSUME /\ stats' \in [Accounts -> [Counters -> Nat]]
             /\ partial' \subseteq Orders
             /\ \A b \in Accounts :
                  stats'[b].partially = Cardinality(OfAccount(partial', b))
      PROVE  IInv'
  BY <1>3, <1>4 DEF IInv, TypeOK, PartialCountsMatch, OfAccount
<1>5. \A b \in Accounts : AccountOf[o] = b <=> b = a
  OBVIOUS
<1>6. CASE e.type = "CreateOrderSucceeded"
  <2>1. stats' = Increment(stats, a, "opened") /\ partial' = partial
    BY <1>3, <1>6 DEF HandleEvent, RegisterCreatedOrder
  <2>2. /\ stats' \in [Accounts -> [Counters -> Nat]]
        /\ \A b \in Accounts : stats'[b].partially = stats[b].partially
    BY <2>1, <1>1, <1>2 DEF Increment, Counters
  <2>. QED
    BY <1>4, <2>1, <2>2, <1>2
<1>7. CASE e.type \in {"CancelOrderSucceeded", "OrderCompleted"}
  <2> DEFINE c == IF e.type = "CancelOrderSucceeded" THEN "canceled" ELSE "fully"
             inc == Increment(stats, a, c)
  <2>1. /\ stats' = RemoveFilledOrderIfExist(inc, a, o)
        /\ partial' = partial \ {o}
    BY <1>3, <1>7 DEF HandleEvent, RegisterCanceledOrder,
                      RegisterCompletelyFilledOrder
  <2>2. /\ inc \in [Accounts -> [Counters -> Nat]]
        /\ \A b \in Accounts : inc[b].partially = stats[b].partially
    BY <1>1, <1>2 DEF Increment, Counters
  <2>3. \A b \in Accounts :
          Cardinality(OfAccount(partial', b)) =
            IF o \in partial /\ AccountOf[o] = b
            THEN Cardinality(OfAccount(partial, b)) - 1
            ELSE Cardinality(OfAccount(partial, b))
    BY <2>1, <1>1, <1>2, OfAccountCard
  <2>4. partial' \subseteq Orders
    BY <2>1, <1>2
  <2>5. CASE o \in partial
    <3>1. Cardinality(OfAccount(partial, a)) # 0
      <4>1. o \in OfAccount(partial, a) /\ IsFiniteSet(OfAccount(partial, a))
        BY <2>5, <1>1, <1>2, OfAccountCard DEF OfAccount
      <4>. QED
        BY <4>1, FS_EmptySet
    <3>2. inc[a].partially # 0
      BY <3>1, <2>2, <1>1, <1>2
    <3>3. stats' = [inc EXCEPT ![a].partially = @ - 1]
      BY <2>1, <2>5, <3>2 DEF RemoveFilledOrderIfExist, DecrementPartially
    <3>4. /\ inc[a] \in [Counters -> Nat]
          /\ inc[a]["partially"] \in Nat \ {0}
      BY <3>2, <2>2, <1>1 DEF Counters
    <3>5. stats' = [inc EXCEPT ![a] = [inc[a] EXCEPT !["partially"] =
                                                    inc[a]["partially"] - 1]]
      BY <3>3
    <3>6. [inc[a] EXCEPT !["partially"] = inc[a]["partially"] - 1]
            \in [Counters -> Nat]
      BY <3>4 DEF Counters
    <3>7. /\ stats' \in [Accounts -> [Counters -> Nat]]
          /\ \A b \in Accounts :
               stats'[b].partially = IF b = a THEN stats[b].partially - 1
                                              ELSE stats[b].partially
      BY <3>5, <3>6, <2>2, <1>1 DEF Counters
    <3>. QED
      BY <1>4, <1>5, <2>3, <2>4, <2>5, <3>7, <1>2
  <2>6. CASE o \notin partial
    <3>1. stats' = inc
      BY <2>1, <2>6 DEF RemoveFilledOrderIfExist
    <3>. QED
      BY <1>4, <2>2, <2>3, <2>4, <2>6, <3>1, <1>2
  <2>. QED
    BY <2>5, <2>6
<1>8. CASE e.type = "OrderFilled"
  <2>1. CASE o \notin partial
    <3>1. /\ stats' = Increment(stats, a, "partially")
          /\ partial' = partial \cup {o}
      BY <1>3, <1>8, <2>1 DEF HandleEvent, RegisterPartiallyFilledOrder
    <3>2. /\ stats' \in [Accounts -> [Counters -> Nat]]
          /\ \A b \in Accounts :
               stats'[b].partially = IF b = a THEN stats[b].partially + 1
                                              ELSE stats[b].partially
      BY <3>1, <1>1, <1>2 DEF Increment, Counters
    <3>3. \A b \in Accounts :
            Cardinality(OfAccount(partial', b)) =
              IF AccountOf[o] = b
              THEN Cardinality(OfAccount(partial, b)) + 1
              ELSE Cardinality(OfAccount(partial, b))
      BY <3>1, <2>1, <1>1, <1>2, OfAccountCard
    <3>4. partial' \subseteq Orders
      BY <3>1, <1>1, <1>2
    <3>. QED
      BY <1>4, <1>5, <3>2, <3>3, <3>4, <1>2
  <2>2. CASE o \in partial
    <3>1. UNCHANGED <<stats, partial>>
      BY <1>3, <1>8, <2>2 DEF HandleEvent, RegisterPartiallyFilledOrder
    <3>. QED
      BY <1>4, <3>1, <1>2
  <2>. QED
    BY <2>1, <2>2
<1>9. CASE e.type = "Other"
  <2>1. UNCHANGED <<stats, partial>>
    BY <1>3, <1>9 DEF HandleEvent
  <2>. QED
    BY <1>4, <2>1, <1>2
<1>. QED
  BY <1>1, <1>6, <1>7, <1>8, <1>9 DEF Events, EventTypes

(* Every step keeps the invariant.                                         *)
LEMMA NextIInv == IInv /\ [Next]_vars => IInv'
<1> SUFFICES ASSUME IInv, [Next]_vars PROVE IInv'
  OBVIOUS
<1>1. CASE Receive /\ UNCHANGED stream
  BY <1>1, ReceiveIInv
<1>2. CASE RecvLagged /\ UNCHANGED stream
  BY <1>2 DEF RecvLagged, IInv, TypeOK, PartialCountsMatch
<1>3. CASE RegisterSkippedEvent /\ UNCHANGED stream
  BY <1>3 DEF RegisterSkippedEvent, IInv, TypeOK, PartialCountsMatch
<1>4. CASE Publish
  BY <1>4 DEF Publish, statsVars, IInv, TypeOK, PartialCountsMatch
<1>5. CASE UNCHANGED vars
  BY <1>5 DEF vars, statsVars, IInv, TypeOK, PartialCountsMatch
<1>. QED
  BY <1>1, <1>2, <1>3, <1>4, <1>5 DEF Next, HandlerStep

(* The partially filled counter of every account equals the number of its *)
(* orders in partially_filled_orders in every reachable state, for any     *)
(* orders, accounts, channel capacity and event stream.                    *)
THEOREM PartialCountsMatchHolds == Spec => []PartialCountsMatch
<1>1. IInv => PartialCountsMatch
  BY DEF IInv
<1>. QED
  BY InitIInv, NextIInv, <1>1, PTL DEF Spec

=============================================================================
