------------------------- MODULE CancelStatsProofs -------------------------
(***************************************************************************)
(* Proof that the statistics aggregator, reading the events the            *)
(* coordinator and the exchange hooks publish for an order, counts the     *)
(* order canceled at most once and only when it is Canceled               *)
(* (CanceledCountedOnlyIfCanceled), for every order amount, retry bound,   *)
(* set of policies and channel capacity.  The argument: the canceled       *)
(* counter is 1 exactly when the receiver has passed a CancelOrderSucceeded *)
(* position of the stream; the stream only grows, so a passed position     *)
(* stays one; and the coordinator publishes at most one such event, for a *)
(* Canceled order (WaitCancelWorkProofs, NextEvC).                         *)
(***************************************************************************)
EXTENDS CancelStats, WaitCancelWorkProofs, TLAPS

USE BoundsAssumption, PoliciesAssumption

(* The receiver has handled a CancelOrderSucceeded of the order.           *)
CancelHandled == \E i \in CancelAt(events) : i < next

(* The inductive invariant: the coordinator's invariant EvC, the           *)
(* receiver's position within the stream, and the canceled counter as a    *)
(* function of the events handled.                                         *)
CSInv ==
    /\ TypeOK
    /\ EvC
    /\ next \in 1..Len(events) + 1
    /\ stats \in [{TheAccount} -> [S!Counters -> Nat]]
    /\ stats[TheAccount].canceled = IF CancelHandled THEN 1 ELSE 0

LEMMA InitCSInv == CSInit => CSInv
<1> SUFFICES ASSUME CSInit PROVE CSInv
  OBVIOUS
<1>1. TypeOK
  BY InitTypeOK DEF CSInit
<1>2. CancelAt(events) = {} /\ ~canceledNotFromWait
  BY DEF CSInit, Init, CancelAt, IsCancelEvent
<1>3. stats \in [{TheAccount} -> [S!Counters -> Nat]]
      /\ stats[TheAccount].canceled = 0
  BY DEF CSInit, S!ZeroStatistic, S!Counters
<1>. QED
  BY <1>1, <1>2, <1>3 DEF CSInit, CSInv, EvC, CancelHandled, TypeOK

(* A step of the coordinator or of the environment: the stream grows and  *)
(* the receiver has not moved, so the handled positions are the same.     *)
LEMMA WorkStepCSInv ==
    ASSUME CSInv, Next, UNCHANGED statsVars
    PROVE  CSInv'
<1>1. TypeOK' /\ EvC' /\ Grows(events, events')
  BY NextTypeOK, NextEvC, NextGrows DEF CSInv
<1>2. next \in 1..Len(events) + 1 /\ next' = next
  BY DEF CSInv, statsVars
<1>3. next' \in 1..Len(events') + 1
  BY <1>1, <1>2 DEF Grows
<1>4. CancelHandled' = CancelHandled
  <2>1. \A i \in 1..Len(events) : i \in CancelAt(events') <=> i \in CancelAt(events)
    BY <1>1, GrowsCancelAt DEF CSInv, TypeOK
  <2>2. \A i \in CancelAt(events) \cup CancelAt(events') :
          i < next <=> i \in 1..Len(events) /\ i < next
    BY <1>1, <1>2 DEF CancelAt, TypeOK
  <2>. QED
    BY <1>2, <2>1, <2>2 DEF CancelHandled
<1>. QED
  BY <1>1, <1>3, <1>4 DEF CSInv, statsVars

(* The receiver handles the event at position next.                        *)
LEMMA ReceiveCSInv ==
    ASSUME CSInv, S!Receive, UNCHANGED workVars
    PROVE  CSInv'
<1> DEFINE e == events[next]
<1>1. /\ next \in 1..Len(events) /\ next' = next + 1
      /\ S!HandleEvent([type |-> e, order |-> TheOrder])
  BY DEF S!Receive, CSInv
<1>2. UNCHANGED <<events, status, canceledNotFromWait, pc>> /\ TypeOK' /\ EvC'
  BY DEF workVars, vars, orderVars, venueVars, taskVars, CSInv, TypeOK, EvC,
         CancelAt
<1>3. stats \in [{TheAccount} -> [S!Counters -> Nat]]
  BY DEF CSInv
<1>4. CASE IsCancelEvent(e)
  <2>1. next \in CancelAt(events)
    BY <1>1, <1>4 DEF CancelAt, CSInv, TypeOK
  <2>2. ~CancelHandled /\ CancelHandled'
    BY <1>1, <1>2, <2>1 DEF CancelHandled, CSInv, EvC
  <2>3. stats' = S!RemoveFilledOrderIfExist(S!Increment(stats, TheAccount, "canceled"),
                                             TheAccount, TheOrder)
    BY <1>1, <1>4, Zenon DEF S!HandleEvent, S!RegisterCanceledOrder, IsCancelEvent
  <2>4. /\ stats' \in [{TheAccount} -> [S!Counters -> Nat]]
        /\ stats'[TheAccount].canceled = stats[TheAccount].canceled + 1
    <3> DEFINE inc == S!Increment(stats, TheAccount, "canceled")
    <3>1. /\ inc \in [{TheAccount} -> [S!Counters -> Nat]]
          /\ inc[TheAccount].canceled = stats[TheAccount].canceled + 1
      BY <1>3 DEF S!Increment, S!Counters
    <3>2. /\ S!RemoveFilledOrderIfExist(inc, TheAccount, TheOrder)
               \in [{TheAccount} -> [S!Counters -> Nat]]
          /\ S!RemoveFilledOrderIfExist(inc, TheAccount, TheOrder)[TheAccount].canceled
               = inc[TheAccount].canceled
      BY <3>1 DEF S!RemoveFilledOrderIfExist, S!DecrementPartially, S!Counters
    <3>. QED
      BY <2>3, <3>1, <3>2
  <2>. QED
    BY <1>1, <1>2, <2>2, <2>4 DEF CSInv
<1>5. CASE ~IsCancelEvent(e)
  <2>1. next \notin CancelAt(events)
    BY <1>5 DEF CancelAt
  <2>2. CancelHandled' = CancelHandled
    BY <1>1, <1>2, <2>1 DEF CancelHandled, CancelAt
  <2>3. e \in {"CreateOrderSucceeded", "OrderFilled", "OrderCompleted"}
    BY <1>1, <1>5 DEF CSInv, TypeOK, EventTypes, IsCancelEvent
  (* handle_event selects one update of the counters.                     *)
  <2>4. \/ stats' = S!Increment(stats, TheAccount, "opened")
        \/ stats' = S!Increment(stats, TheAccount, "partially")
        \/ stats' = stats
        \/ stats' = S!RemoveFilledOrderIfExist(
                       S!Increment(stats, TheAccount, "fully"), TheAccount, TheOrder)
    <3>1. CASE e = "CreateOrderSucceeded"
      BY <1>1, <3>1, Zenon DEF S!HandleEvent, S!RegisterCreatedOrder
    <3>2. CASE e = "OrderFilled"
      BY <1>1, <3>2, Zenon DEF S!HandleEvent, S!RegisterPartiallyFilledOrder
    <3>3. CASE e = "OrderCompleted"
      BY <1>1, <3>3, Zenon DEF S!HandleEvent, S!RegisterCompletelyFilledOrder
    <3>. QED
      BY <2>3, <3>1, <3>2, <3>3
  (* None of them touches the canceled counter.                           *)
  <2>5. /\ stats' \in [{TheAccount} -> [S!Counters -> Nat]]
        /\ stats'[TheAccount].canceled = stats[TheAccount].canceled
    BY <1>3, <2>4 DEF S!RemoveFilledOrderIfExist, S!DecrementPartially,
                      S!Increment, S!Counters
  <2>. QED
    BY <1>1, <1>2, <2>2, <2>5 DEF CSInv
<1>. QED
  BY <1>4, <1>5

LEMMA NextCSInv == CSInv /\ [CSNext]_csVars => CSInv'
<1> SUFFICES ASSUME CSInv, [CSNext]_csVars PROVE CSInv'
  OBVIOUS
<1>1. CASE LeaderStep \/ (Environment /\ UNCHANGED statsVars)
  BY <1>1, WorkStepCSInv DEF LeaderStep, Next
<1>2. CASE S!Receive /\ UNCHANGED workVars
  BY <1>2, ReceiveCSInv
<1>3. CASE S!RecvLagged /\ UNCHANGED workVars
  BY <1>3 DEF S!RecvLagged, workVars, vars, orderVars, venueVars, taskVars,
              CSInv, TypeOK, EvC, CancelHandled, CancelAt
<1>4. CASE UNCHANGED csVars
  BY <1>4 DEF csVars, workVars, statsVars, vars, orderVars, venueVars,
              taskVars, CSInv, TypeOK, EvC, CancelHandled, CancelAt
<1>. QED
  BY <1>1, <1>2, <1>3, <1>4 DEF CSNext, HandlerStep

(* The aggregator counts the order canceled at most once, and only when    *)
(* the order is Canceled, however the hook, the end of                     *)
(* wait_cancel_order_work (lines 202-211) and handle_event (lines 280-326) *)
(* interleave: the property CanceledCountedOnlyIfCanceled for every        *)
(* instance.                                                               *)
THEOREM CanceledCountedOnlyIfCanceledHolds == CSSpec => []CanceledCountedOnlyIfCanceled
<1>1. CSInv => CanceledCountedOnlyIfCanceled
  BY DEF CSInv, EvC, CancelHandled, CanceledCountedOnlyIfCanceled
<1>. QED
  BY InitCSInv, NextCSInv, <1>1, PTL DEF CSSpec

=============================================================================
