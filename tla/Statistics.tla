----------------------------- MODULE Statistics -----------------------------
(***************************************************************************)
(* The Statistics Aggregator (src/src/core/statistic_service.rs):          *)
(* StatisticEventHandler::start receives the global event stream from a    *)
(* tokio broadcast receiver and, for each order event, updates the         *)
(* per-TradePlaceAccount counters of StatisticServiceState and the         *)
(* partially_filled_orders set of StatisticService.                        *)
(*                                                                         *)
(* The stream is the sequence of every event published so far; the         *)
(* receiver reads it from position `next`.  A tokio broadcast channel      *)
(* keeps the last Capacity values: a receiver more than Capacity values    *)
(* behind gets RecvError::Lagged, and the ? of line 271 ends the loop.     *)
(*                                                                         *)
(* Only one task calls the handlers, so each event is handled in one step; *)
(* the RwLock and the Mutexes only order it with other readers.  Amounts   *)
(* and commissions (summary_filled_amount, summary_commission) are data no *)
(* property here tells apart and are left out.                             *)
(***************************************************************************)
EXTENDS Naturals, Sequences, FiniteSets

CONSTANTS
    Orders,      \* ClientOrderIds
    Accounts,    \* TradePlaceAccounts (exchange account and currency pair)
    AccountOf,   \* AccountOf[o]: the TradePlaceAccount of order o
    Capacity,    \* capacity of the broadcast channel of exchange events
    MaxEvents    \* bound on the events published in a run

ASSUME StatisticsAssumption ==
    /\ IsFiniteSet(Orders)
    /\ AccountOf \in [Orders -> Accounts]
    /\ Capacity \in Nat \ {0}
    /\ MaxEvents \in Nat

VARIABLES
    stream,       \* the events published on the channel, in order
    next,         \* index in stream of the next event the receiver gets
    handler,      \* "running", or "stopped" once start() returned Err
    stats,        \* trade_place_stats: counters of each account
    partial,      \* partially_filled_orders
    skipped       \* disposition_executor_stats.skipped_events_amount

statsVars == <<next, handler, stats, partial, skipped>>
vars == <<stream, statsVars>>

(* OrderEventType values the handler distinguishes; "Other" stands for the *)
(* other order events and for the events that are not order events.        *)
EventTypes == {"CreateOrderSucceeded", "CancelOrderSucceeded", "OrderFilled",
               "OrderCompleted", "Other"}

Events == [type : EventTypes, order : Orders]

Counters == {"opened", "canceled", "partially", "fully"}

(* TradePlaceAccountStatistic::default(): every counter zero.  Entries are *)
(* created on first access (entry().or_default()), so a map with a zero    *)
(* entry for every account is the same state.                              *)
ZeroStatistic == [c \in Counters |-> 0]

Init ==
    /\ stream = <<>>
    /\ next = 1
    /\ handler = "running"
    /\ stats = [a \in Accounts |-> ZeroStatistic]
    /\ partial = {}
    /\ skipped = 0

-----------------------------------------------------------------------------
(* Counter updates of TradePlaceAccountStatistic (lines 34-66).            *)

(* register_created_order, register_canceled_order,                        *)
(* increment_partially_filled_orders, increment_completely_filled_orders:  *)
(* counter c of account a goes up by one.                                  *)
Increment(s, a, c) == [s EXCEPT ![a][c] = @ + 1]

(* decrement_partially_filled_orders (lines 47-53): a zero counter is only *)
(* logged.                                                                 *)
DecrementPartially(s, a) ==
    IF s[a].partially = 0 THEN s ELSE [s EXCEPT ![a].partially = @ - 1]

(* remove_filled_order_if_exist (lines 227-239), counters part: decrement  *)
(* the account's partially filled count if the order is in the set.        *)
RemoveFilledOrderIfExist(s, a, o) ==
    IF o \in partial THEN DecrementPartially(s, a) ELSE s

-----------------------------------------------------------------------------
(* StatisticEventHandler::handle_event (lines 280-326) with the            *)
(* StatisticService methods it calls.                                      *)

(* CreateOrderSucceeded: register_created_order (lines 178-181, 95-101).   *)
RegisterCreatedOrder(a) ==
    /\ stats' = Increment(stats, a, "opened")
    /\ UNCHANGED partial

(* CancelOrderSucceeded: register_canceled_order (lines 183-192, 103-109), *)
(* then remove_filled_order_if_exist.                                      *)
RegisterCanceledOrder(a, o) ==
    /\ stats' = RemoveFilledOrderIfExist(Increment(stats, a, "canceled"), a, o)
    /\ partial' = partial \ {o}

(* Mutant: the order counted as partially filled on every fill, without   *)
(* the contains test of line 201.                                          *)
RegisterPartiallyFilledOrder_NoContains(a, o) ==
    /\ stats' = Increment(stats, a, "partially")
    /\ partial' = partial \cup {o}

(* OrderFilled: register_partially_filled_order (lines 194-206): an order  *)
(* not yet in the set is counted and inserted, under the set's mutex.      *)
RegisterPartiallyFilledOrder(a, o) ==
    IF o \notin partial
    THEN /\ stats' = Increment(stats, a, "partially")
         /\ partial' = partial \cup {o}
    ELSE UNCHANGED <<stats, partial>>

(* OrderCompleted: register_completely_filled_order (lines 208-225,        *)
(* 302-318).                                                               *)
RegisterCompletelyFilledOrder(a, o) ==
    /\ stats' = RemoveFilledOrderIfExist(Increment(stats, a, "fully"), a, o)
    /\ partial' = partial \ {o}

HandleEvent(e) ==
    LET a == AccountOf[e.order]
    IN  CASE e.type = "CreateOrderSucceeded" -> RegisterCreatedOrder(a)
          [] e.type = "CancelOrderSucceeded" -> RegisterCanceledOrder(a, e.order)
          [] e.type = "OrderFilled" -> RegisterPartiallyFilledOrder(a, e.order)
          [] e.type = "OrderCompleted" -> RegisterCompletelyFilledOrder(a, e.order)
          [] OTHER -> UNCHANGED <<stats, partial>>

(* The receiver has fallen more than Capacity values behind.               *)
Lagging == Len(stream) - (next - 1) > Capacity

(* One iteration of the loop of start() (lines 267-277): recv() yields the *)
(* next event and handle_event applies it.  The handler's actions leave    *)
(* the stream to Next (HandlerStep).                                       *)
Receive ==
    /\ handler = "running"
    /\ next <= Len(stream)
    /\ ~Lagging
    /\ HandleEvent(stream[next])
    /\ next' = next + 1
    /\ UNCHANGED <<handler, skipped>>

(* recv() returns Err(Lagged): the ? of line 271 ends start() with Err.    *)
RecvLagged ==
    /\ handler = "running"
    /\ Lagging
    /\ handler' = "stopped"
    /\ UNCHANGED <<next, stats, partial, skipped>>

(* register_skipped_event (lines 241-243, 159-161), called by the          *)
(* disposition executor.                                                   *)
RegisterSkippedEvent ==
    /\ skipped < MaxEvents
    /\ skipped' = skipped + 1
    /\ UNCHANGED <<next, handler, stats, partial>>

(* The exchanges publish an event on the channel (environment).            *)
Publish ==
    /\ Len(stream) < MaxEvents
    /\ \E e \in Events : stream' = Append(stream, e)
    /\ UNCHANGED statsVars

(* A step of the handler task: the stream is the publishers' to change.   *)
HandlerStep == (Receive \/ RecvLagged) /\ UNCHANGED stream

Next ==
    \/ HandlerStep
    \/ RegisterSkippedEvent /\ UNCHANGED stream
    \/ Publish

(* The handler task is spawned once and tokio keeps polling it while an    *)
(* event is ready.                                                         *)
Spec == Init /\ [][Next]_vars /\ WF_vars(HandlerStep)

-----------------------------------------------------------------------------
(* Type invariant.                                                          *)
TypeOK ==
    /\ stream \in Seq(Events)
    /\ next \in 1..(Len(stream) + 1)
    /\ handler \in {"running", "stopped"}
    /\ stats \in [Accounts -> [Counters -> Nat]]
    /\ partial \subseteq Orders
    /\ skipped \in Nat

(* Spec 4.4: the partially filled count of each account is the number of  *)
(* its orders in partially_filled_orders -- the set and the counters are   *)
(* updated under different locks (lines 199-205, 232-238) and must still   *)
(* agree after any sequence of fills, cancellations and completions.       *)
PartialCountsMatch ==
    \A a \in Accounts :
        stats[a].partially = Cardinality({o \in partial : AccountOf[o] = a})

(* Spec 4.4: the aggregator keeps up with the stream and every published   *)
(* event is eventually handled ("statistics for in-flight events are not   *)
(* lost").                                                                 *)
EveryEventHandled ==
    \A i \in 1..MaxEvents : (i <= Len(stream)) ~> (next > i)

=============================================================================
