----------------------------- MODULE CancelStats -----------------------------
(***************************************************************************)
(* The cancellation coordinator and the statistics aggregator together:   *)
(* the events the leader of wait_cancel_order and the exchange hooks       *)
(* publish for one order (WaitCancelWork's `events`) are the stream that   *)
(* StatisticEventHandler::start receives (Statistics).  The two run as     *)
(* separate tasks; their steps interleave.                                 *)
(***************************************************************************)
EXTENDS WaitCancelWork

CONSTANTS
    Capacity     \* broadcast channel capacity

VARIABLES
    \* Statistics
    next, handler, stats, partial

(* WaitCancelWork's variables: the order, the venue and the leader.        *)
workVars == vars
statsVars == <<next, handler, stats, partial>>
csVars == <<workVars, statsVars>>

(* The order and its TradePlaceAccount.                                    *)
TheOrder == "order"
TheAccount == "account"

(* The handler's stream is the order's events, each tagged with the order; *)
(* register_skipped_event is not part of this composition.                 *)
S == INSTANCE Statistics
        WITH stream <- [i \in 1..Len(events) |->
                           [type |-> events[i], order |-> TheOrder]],
             Orders <- {TheOrder}, Accounts <- {TheAccount},
             AccountOf <- [o \in {TheOrder} |-> TheAccount],
             MaxEvents <- 0, skipped <- 0

(* The handler subscribed before the order was placed, so the stream holds *)
(* the order's CreateOrderSucceeded if the order starts Created.           *)
CSInit ==
    /\ Init
    /\ next = 1
    /\ handler = "running"
    /\ stats = [a \in {TheAccount} |-> S!ZeroStatistic]
    /\ partial = {}

LeaderStep == Leader /\ UNCHANGED statsVars

HandlerStep == (S!Receive \/ S!RecvLagged) /\ UNCHANGED workVars

CSNext ==
    \/ LeaderStep
    \/ Environment /\ UNCHANGED statsVars
    \/ HandlerStep

(* Both tasks are polled by tokio whenever they can go on; the venue, the  *)
(* WebSocket feed and the caller are not fair.                             *)
CSSpec == CSInit /\ [][CSNext]_csVars
               /\ WF_csVars(LeaderStep)
               /\ WF_csVars(HandlerStep)

-----------------------------------------------------------------------------
(* The aggregator counts the order canceled at most once, and only if the  *)
(* order is Canceled: the CancelOrderSucceeded published by the hook or    *)
(* deferred to the end of wait_cancel_order_work (lines 202-211) reaches   *)
(* register_canceled_order once, for an order that stays Canceled.         *)
CanceledCountedOnlyIfCanceled ==
    /\ stats[TheAccount].canceled <= 1
    /\ stats[TheAccount].canceled = 1 => status = "Canceled"

(* The model's bound on the retry loop: the leader has used MaxAttempts  *)
(* iterations and waits at line 108, where the code would start another   *)
(* one and then see the finished order (line 156).                         *)
AttemptBoundHit ==
    pc = "loop_top" /\ attempt = MaxAttempts /\ ~tokenCancelled

(* Spec 8 round trip: an order the coordinator drives to Canceled is       *)
(* eventually counted once as canceled by the aggregator, however the     *)
(* cancellation was confirmed (a leader stopped only by the model's bound  *)
(* on the retry loop is not a counterexample).                             *)
CanceledOrderCounted ==
    status = "Canceled" ~> (stats[TheAccount].canceled = 1 \/ AttemptBoundHit)

=============================================================================
