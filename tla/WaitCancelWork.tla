--------------------------- MODULE WaitCancelWork ---------------------------
(***************************************************************************)
(* The work of the leader of wait_cancel_order for one order:              *)
(* wait_cancel_order_work, order_cancelled, check_order_cancellation_status *)
(* and has_missed_fill (src/src/core/exchanges/general/order/               *)
(* wait_cancel.rs, lines 70-406), against an environment made of the      *)
(* venue, its REST answers, the WebSocket feed and the caller's token.     *)
(*                                                                         *)
(* The exchange adapter hooks that this file calls but that are not under  *)
(* src/ (handle_cancel_order_succeeded, handle_cancel_order_failed,        *)
(* check_order_fills and the fill handler behind the WebSocket) are        *)
(* modelled from spec.md sections 3, 4.3 and 6.                            *)
(***************************************************************************)
EXTENDS Integers, Sequences

CONSTANTS
    MaxFill,      \* the order amount, in fill units
    MaxAttempts,  \* bound on iterations of the retry loop (line 108)
    MaxPolls,     \* bound on requests of check_order_cancellation_status
    Policies      \* values of features.allowed_cancel_event_source_type

ASSUME BoundsAssumption ==
    /\ MaxFill \in Nat \ {0}
    /\ MaxAttempts \in Nat \ {0}
    /\ MaxPolls \in Nat \ {0}

ASSUME PoliciesAssumption ==
    /\ Policies # {}
    /\ Policies \subseteq {"All", "FallbackOnly", "NonFallback"}

VARIABLES
    \* the order (OrderRef) and its internal_props
    status,              \* order.status()
    isCanceling,         \* is_canceling_from_wait_cancel_order
    srcType,             \* cancellation_event_source_type
    lastErr,             \* last_cancellation_error
    filled,              \* filled_amount
    filledAfterCancel,   \* filled_amount_after_cancellation, NoAmount = None
    canceledNotFromWait, \* canceled_not_from_wait_cancel_order
    events,              \* order events published, in order
    \* the venue
    venueStatus,         \* the order's state at the exchange
    venueFilled,         \* the amount the exchange has filled
    cancelInFlight,      \* a cancel request may still reach the exchange
    \* the leader task
    pc,                  \* where wait_cancel_order_work is
    attempt,             \* attempt_number (line 106)
    polls,               \* requests made by check_order_cancellation_status
    result,              \* what wait_cancel_order_work returned
    tokenCancelled,      \* the caller's cancellation_token
    policy,              \* self.features.allowed_cancel_event_source_type
    checkFills           \* the check_order_fills argument

orderVars == <<status, isCanceling, srcType, lastErr, filled,
               filledAfterCancel, canceledNotFromWait, events>>
venueVars == <<venueStatus, venueFilled, cancelInFlight>>
taskVars == <<pc, attempt, polls, result, tokenCancelled, policy, checkFills>>
vars == <<orderVars, venueVars, taskVars>>

NoAmount == -1

Statuses == {"Creating", "Created", "Canceled", "Completed"}

(* OrderStatus values for which order.is_finished() holds.                 *)
Finished == {"Canceled", "Completed"}

Sources == {"None", "WebSocket", "Rest", "RestFallback"}

ErrorTypes == {"None", "ParsingError", "PendingError", "OrderCompleted",
               "OrderNotFound", "Unknown"}

EventTypes == {"CreateOrderSucceeded", "OrderFilled", "OrderCompleted",
               "CancelOrderSucceeded"}

PcValues == {"start", "wait_created", "check_finished", "latch", "loop_top",
             "racing", "pending_sleep", "await_finish", "poll_top",
             "poll_wait", "iter_end", "after_loop", "fill_check",
             "final_event", "done"}

IsFinished == status \in Finished

Init ==
    /\ status \in {"Creating", "Created"}
    /\ isCanceling = FALSE
    /\ srcType = "None"
    /\ lastErr = "None"
    /\ filled = 0
    /\ filledAfterCancel = NoAmount
    /\ canceledNotFromWait = FALSE
    /\ events = IF status = "Created" THEN <<"CreateOrderSucceeded">> ELSE <<>>
    /\ venueStatus = "Open"
    /\ venueFilled = 0
    \* a cancel_order issued before wait_cancel_order may still be in flight
    /\ cancelInFlight \in BOOLEAN
    /\ pc = "start"
    /\ attempt = 0
    /\ polls = 0
    /\ result = "none"
    /\ tokenCancelled = FALSE
    /\ policy \in Policies
    /\ checkFills \in BOOLEAN

-----------------------------------------------------------------------------
(***************************************************************************)
(* Exchange adapter hooks (not under src/; modelled from the spec).        *)
(***************************************************************************)

(* The fill handler: the order's filled amount becomes `to`, an            *)
(* OrderFilled event is published, and a fully filled unfinished order     *)
(* becomes Completed with an OrderCompleted event.                         *)
ApplyFills(to) ==
    LET completes == to = MaxFill /\ ~IsFinished
    IN  /\ filled' = to
        /\ status' = IF completes THEN "Completed" ELSE status
        /\ events' = IF completes
                      THEN Append(Append(events, "OrderFilled"), "OrderCompleted")
                      ELSE Append(events, "OrderFilled")

(* check_order_fills: fetch the venue's fills and apply the missing ones.  *)
CheckOrderFills ==
    IF filled < venueFilled
    THEN ApplyFills(venueFilled)
    ELSE UNCHANGED <<filled, status, events>>

(* handle_cancel_order_succeeded(client_order_id, exchange_order_id,       *)
(* filled_amount, source): a finished order is left alone; otherwise it    *)
(* becomes Canceled, and the CancelOrderSucceeded event is published now   *)
(* unless wait_cancel_order is cancelling it, which publishes it itself    *)
(* (lines 202-211).                                                        *)
HandleCancelSucceeded(src, amount) ==
    IF IsFinished
    THEN UNCHANGED <<status, srcType, filledAfterCancel, canceledNotFromWait,
                     events>>
    ELSE /\ status' = "Canceled"
         /\ srcType' = src
         /\ filledAfterCancel' = amount
         /\ IF isCanceling
            THEN /\ canceledNotFromWait' = TRUE
                 /\ UNCHANGED events
            ELSE /\ events' = Append(events, "CancelOrderSucceeded")
                 /\ UNCHANGED canceledNotFromWait

(* handle_cancel_order_failed(exchange_order_id, error, source): the error *)
(* is recorded; OrderNotFound means the order is gone and counts as a      *)
(* cancellation confirmed by that source.                                  *)
HandleCancelFailed(err, src) ==
    /\ lastErr' = err
    /\ IF err = "OrderNotFound"
       THEN HandleCancelSucceeded(src, NoAmount)
       ELSE UNCHANGED <<status, srcType, filledAfterCancel,
                        canceledNotFromWait, events>>

-----------------------------------------------------------------------------
(***************************************************************************)
(* The leader: wait_cancel_order_work and the functions it calls.          *)
(***************************************************************************)

Goto(label) == pc' = label

(* has_missed_fill (lines 376-406): true iff the amount reported with the  *)
(* cancellation exceeds the order's filled amount; a smaller one is only   *)
(* logged.                                                                 *)
HasMissedFill ==
    /\ filledAfterCancel # NoAmount
    /\ filledAfterCancel > filled

(* Mutant: the condition grouped as spec 4.3 step 6 writes it, the status *)
(* test guarding every disjunct and WebSocket needing an error type.       *)
NeedsFillCheck_SpecGrouping ==
    /\ \/ checkFills
       \/ HasMissedFill
       \/ srcType = "RestFallback"
       \/ /\ srcType \in {"WebSocket", "Rest"}
          /\ lastErr \in {"OrderNotFound", "OrderCompleted"}
    /\ status # "Completed"

(* The condition of lines 182-191 with Rust's precedence: && binds tighter *)
(* than ||, so the status test only guards the last disjunct and a         *)
(* WebSocket source alone selects the check.                               *)
NeedsFillCheck ==
    \/ checkFills
    \/ HasMissedFill
    \/ srcType = "RestFallback"
    \/ /\ \/ srcType = "WebSocket"
          \/ /\ srcType = "Rest"
             /\ lastErr \in {"OrderNotFound", "OrderCompleted"}
       /\ status # "Completed"

(* Lines 77-80: a Creating order waits for its creation first.             *)
Start ==
    /\ pc = "start"
    /\ Goto(IF status = "Creating" THEN "wait_created" ELSE "check_finished")
    /\ UNCHANGED <<orderVars, venueVars, attempt, polls, result,
                   tokenCancelled, policy, checkFills>>

(* create_order_created_task resolves once the order left Creating or the  *)
(* token is cancelled (lines 78-79).                                       *)
OrderCreated ==
    /\ pc = "wait_created"
    /\ status # "Creating" \/ tokenCancelled
    /\ Goto("check_finished")
    /\ UNCHANGED <<orderVars, venueVars, attempt, polls, result,
                   tokenCancelled, policy, checkFills>>

(* Lines 82-84.                                                            *)
CheckFinished ==
    /\ pc = "check_finished"
    /\ IF IsFinished
       THEN Goto("done") /\ result' = "ok"
       ELSE Goto("latch") /\ UNCHANGED result
    /\ UNCHANGED <<orderVars, venueVars, attempt, polls, tokenCancelled,
                   policy, checkFills>>

(* Lines 86-102: test-and-set of the latch under the order's lock; a set   *)
(* latch ends the work with Ok.  The latch is never cleared.               *)
Latch ==
    /\ pc = "latch"
    /\ isCanceling' = TRUE
    /\ IF isCanceling
       THEN Goto("done") /\ result' = "ok"
       ELSE Goto("loop_top") /\ UNCHANGED result
    /\ UNCHANGED <<status, srcType, lastErr, filled, filledAfterCancel,
                   canceledNotFromWait, events, venueVars, attempt, polls,
                   tokenCancelled, policy, checkFills>>

(* Lines 108-128: a new iteration builds the start_cancel_order future.    *)
(* The future is only polled, so the request only sent, when the cancel   *)
(* arm of the select is enabled (policy # FallbackOnly).                   *)
StartAttempt ==
    /\ pc = "loop_top"
    /\ ~tokenCancelled
    /\ attempt < MaxAttempts
    /\ attempt' = attempt + 1
    /\ cancelInFlight' = (cancelInFlight \/ policy # "FallbackOnly")
    /\ Goto("racing")
    /\ UNCHANGED <<orderVars, venueStatus, venueFilled, polls, result,
                   tokenCancelled, policy, checkFills>>

(* Line 108: the loop ends when the caller's token is cancelled.           *)
LoopExit ==
    /\ pc = "loop_top"
    /\ tokenCancelled
    /\ Goto("after_loop")
    /\ UNCHANGED <<orderVars, venueVars, attempt, polls, result,
                   tokenCancelled, policy, checkFills>>

(* The REST answers the venue can give to a cancel request in its state.   *)
CancelOutcomes ==
    {"Success", "TransportError", "ParsingError", "PendingError", "Unknown"}
    \cup (IF venueStatus # "Open" THEN {"OrderNotFound"} ELSE {})
    \cup (IF venueStatus = "Completed" THEN {"OrderCompleted"} ELSE {})

(* Next label of order_cancelled for each error type (lines 231-257).     *)
AfterError ==
    [ParsingError |-> "poll_top", PendingError |-> "pending_sleep",
     OrderCompleted |-> "await_finish", OrderNotFound |-> "iter_end",
     Unknown |-> "iter_end"]

(* The cancel arm of the select (lines 133-142): start_cancel_order        *)
(* completes; an Err fails the work (?), an error outcome is recorded by   *)
(* handle_cancel_order_failed with source Rest and dispatched by           *)
(* order_cancelled; Success needs no action.                               *)
CancelArm ==
    /\ pc = "racing"
    /\ policy # "FallbackOnly"
    /\ \/ /\ Goto("done")                     \* TransportError
          /\ result' = "err"
          /\ UNCHANGED <<orderVars, polls>>
       \/ /\ Goto("iter_end")                 \* Success
          /\ UNCHANGED <<orderVars, polls, result>>
       \/ \E o \in CancelOutcomes \ {"Success", "TransportError"} :
             /\ HandleCancelFailed(o, "Rest")
             /\ Goto(AfterError[o])
             /\ polls' = 0
             /\ UNCHANGED <<isCanceling, filled, result>>
    /\ UNCHANGED <<venueVars, attempt, tokenCancelled, policy, checkFills>>

(* The 10 s timer arm (lines 143-152): the cancel future is dropped; any   *)
(* policy but All fails the work, All starts another iteration.            *)
TimerArm ==
    /\ pc = "racing"
    /\ IF policy # "All"
       THEN Goto("done") /\ result' = "err"
       ELSE Goto("iter_end") /\ UNCHANGED result
    /\ UNCHANGED <<orderVars, venueVars, attempt, polls, tokenCancelled,
                   policy, checkFills>>

(* PendingError: sleep(error.pending_time) (line 244).                     *)
PendingSleep ==
    /\ pc = "pending_sleep"
    /\ Goto("iter_end")
    /\ UNCHANGED <<orderVars, venueVars, attempt, polls, result,
                   tokenCancelled, policy, checkFills>>

(* OrderCompleted: create_order_finish_future with order_is_finished_token *)
(* resolves when the order is finished or the caller's token, its parent,  *)
(* is cancelled (lines 246-253).                                           *)
OrderFinishFuture ==
    /\ pc = "await_finish"
    /\ IsFinished \/ tokenCancelled
    /\ Goto("iter_end")
    /\ UNCHANGED <<orderVars, venueVars, attempt, polls, result,
                   tokenCancelled, policy, checkFills>>

(* Lines 156-159: a finished order ends the loop.                          *)
IterEnd ==
    /\ pc = "iter_end"
    /\ Goto(IF IsFinished THEN "after_loop" ELSE "loop_top")
    /\ UNCHANGED <<orderVars, venueVars, attempt, polls, result,
                   tokenCancelled, policy, checkFills>>

(* Mutant: the polling loop without its token test (`loop` instead of the *)
(* `while !cancellation_token.is_cancellation_requested()` of line 269).  *)
PollStart_NoTokenCheck ==
    /\ pc = "poll_top"
    /\ IF IsFinished
       THEN Goto("iter_end") /\ UNCHANGED polls
       ELSE /\ polls < MaxPolls
            /\ polls' = polls + 1
            /\ Goto("poll_wait")
    /\ UNCHANGED <<orderVars, venueVars, attempt, result, tokenCancelled,
                   policy, checkFills>>

(* check_order_cancellation_status, lines 269-293: leave on a cancelled    *)
(* token or a finished order, otherwise stamp the request time and ask the *)
(* venue for the order's info.                                             *)
PollStart ==
    /\ pc = "poll_top"
    /\ IF tokenCancelled \/ IsFinished
       THEN Goto("iter_end") /\ UNCHANGED polls
       ELSE /\ polls < MaxPolls
            /\ polls' = polls + 1
            /\ Goto("poll_wait")
    /\ UNCHANGED <<orderVars, venueVars, attempt, result, tokenCancelled,
                   policy, checkFills>>

(* get_order_info answers (lines 293-370).  A finished order returns at    *)
(* once.  OrderNotFound calls handle_cancel_order_failed with the          *)
(* ParsingError that started the poll and source RestFallback (there is    *)
(* always an exchange_order_id once created); another error polls again;  *)
(* Canceled calls handle_cancel_order_succeeded with the venue's filled    *)
(* amount; Completed runs check_order_fills; any other status stops.       *)
PollAnswer ==
    /\ pc = "poll_wait"
    /\ IF IsFinished
       THEN Goto("iter_end") /\ UNCHANGED <<orderVars>>
       ELSE \/ /\ venueStatus # "Open"
               /\ HandleCancelFailed("ParsingError", "RestFallback")
               /\ Goto("iter_end")
               /\ UNCHANGED <<isCanceling, filled>>
            \/ /\ Goto("poll_top")
               /\ UNCHANGED orderVars
            \/ /\ venueStatus = "Canceled"
               /\ HandleCancelSucceeded("RestFallback", venueFilled)
               /\ Goto("iter_end")
               /\ UNCHANGED <<isCanceling, lastErr, filled>>
            \/ /\ venueStatus = "Completed"
               /\ CheckOrderFills
               /\ Goto("iter_end")
               /\ UNCHANGED <<isCanceling, srcType, lastErr,
                              filledAfterCancel, canceledNotFromWait>>
            \/ /\ venueStatus = "Open"
               /\ Goto("iter_end")
               /\ UNCHANGED orderVars
    /\ UNCHANGED <<venueVars, attempt, polls, result, tokenCancelled,
                   policy, checkFills>>

(* Lines 162-191: has_missed_fill and the source and error are read, and   *)
(* the post-cancel fill check is selected.                                 *)
AfterLoop ==
    /\ pc = "after_loop"
    /\ Goto(IF NeedsFillCheck THEN "fill_check" ELSE "final_event")
    /\ UNCHANGED <<orderVars, venueVars, attempt, polls, result,
                   tokenCancelled, policy, checkFills>>

(* Lines 193-199: check_order_fills(order, false, ..., token).             *)
FillCheck ==
    /\ pc = "fill_check"
    /\ CheckOrderFills
    /\ Goto("final_event")
    /\ UNCHANGED <<isCanceling, srcType, lastErr, filledAfterCancel,
                   canceledNotFromWait, venueVars, attempt, polls, result,
                   tokenCancelled, policy, checkFills>>

(* Mutant: the event published without the canceled_not_from_wait test.   *)
FinalEvent_NoFlag ==
    /\ pc = "final_event"
    /\ IF status # "Completed"
       THEN events' = Append(events, "CancelOrderSucceeded")
       ELSE UNCHANGED events
    /\ Goto("done")
    /\ result' = "ok"
    /\ UNCHANGED <<status, isCanceling, srcType, lastErr, filled,
                   filledAfterCancel, canceledNotFromWait, venueVars,
                   attempt, polls, tokenCancelled, policy, checkFills>>

(* Lines 202-213: publish the CancelOrderSucceeded that the hook deferred, *)
(* unless the order is Completed, and return Ok.                           *)
FinalEvent ==
    /\ pc = "final_event"
    /\ IF canceledNotFromWait /\ status # "Completed"
       THEN events' = Append(events, "CancelOrderSucceeded")
       ELSE UNCHANGED events
    /\ Goto("done")
    /\ result' = "ok"
    /\ UNCHANGED <<status, isCanceling, srcType, lastErr, filled,
                   filledAfterCancel, canceledNotFromWait, venueVars,
                   attempt, polls, tokenCancelled, policy, checkFills>>

-----------------------------------------------------------------------------
(***************************************************************************)
(* The environment.                                                        *)
(***************************************************************************)

(* The placement flow acknowledges the order.                              *)
CreateAck ==
    /\ status = "Creating"
    /\ status' = "Created"
    /\ events' = Append(events, "CreateOrderSucceeded")
    /\ UNCHANGED <<isCanceling, srcType, lastErr, filled, filledAfterCancel,
                   canceledNotFromWait, venueVars, taskVars>>

(* The venue fills one more unit of the open order.                        *)
VenueFill ==
    /\ venueStatus = "Open"
    /\ status # "Creating"
    /\ venueFilled < MaxFill
    /\ venueFilled' = venueFilled + 1
    /\ venueStatus' = IF venueFilled + 1 = MaxFill THEN "Completed" ELSE "Open"
    /\ UNCHANGED <<orderVars, cancelInFlight, taskVars>>

(* A cancel request reaches the venue, possibly after its future was       *)
(* dropped by the timer arm, or is lost.                                   *)
VenueCancel ==
    /\ cancelInFlight
    /\ cancelInFlight' = FALSE
    /\ venueStatus' = IF venueStatus = "Open" THEN "Canceled" ELSE venueStatus
    /\ UNCHANGED <<orderVars, venueFilled, taskVars>>

VenueLoseCancel ==
    /\ cancelInFlight
    /\ cancelInFlight' = FALSE
    /\ UNCHANGED <<orderVars, venueStatus, venueFilled, taskVars>>

(* The WebSocket feed delivers the next fill (a fill may also never come). *)
WsFill ==
    /\ filled < venueFilled
    /\ ApplyFills(filled + 1)
    /\ UNCHANGED <<isCanceling, srcType, lastErr, filledAfterCancel,
                   canceledNotFromWait, venueVars, taskVars>>

(* The WebSocket feed confirms the cancellation, with or without the       *)
(* filled amount.                                                          *)
WsCancel ==
    /\ venueStatus = "Canceled"
    /\ \E amount \in {NoAmount, venueFilled} :
          HandleCancelSucceeded("WebSocket", amount)
    /\ UNCHANGED <<isCanceling, lastErr, filled, venueVars, taskVars>>

(* The caller cancels its cancellation_token.                              *)
CancelToken ==
    /\ ~tokenCancelled
    /\ tokenCancelled' = TRUE
    /\ UNCHANGED <<orderVars, venueVars, pc, attempt, polls, result,
                   policy, checkFills>>

Leader ==
    \/ Start \/ OrderCreated \/ CheckFinished \/ Latch
    \/ StartAttempt \/ LoopExit \/ CancelArm \/ TimerArm
    \/ PendingSleep \/ OrderFinishFuture \/ IterEnd
    \/ PollStart \/ PollAnswer
    \/ AfterLoop \/ FillCheck \/ FinalEvent

Environment ==
    \/ CreateAck \/ VenueFill \/ VenueCancel \/ VenueLoseCancel
    \/ WsFill \/ WsCancel \/ CancelToken

Next == Leader \/ Environment

Spec == Init /\ [][Next]_vars

(* The leader is one tokio task, polled again whenever a step of it is     *)
(* ready; the venue, the feed and the caller are not fair.                 *)
FairSpec == Spec /\ WF_vars(Leader)

-----------------------------------------------------------------------------
(* Type invariant.                                                          *)
TypeOK ==
    /\ status \in Statuses
    /\ isCanceling \in BOOLEAN
    /\ srcType \in Sources
    /\ lastErr \in ErrorTypes
    /\ filled \in 0..MaxFill
    /\ filledAfterCancel \in {NoAmount} \cup 0..MaxFill
    /\ canceledNotFromWait \in BOOLEAN
    /\ events \in Seq(EventTypes)
    /\ venueStatus \in {"Open", "Canceled", "Completed"}
    /\ venueFilled \in 0..MaxFill
    /\ cancelInFlight \in BOOLEAN
    /\ pc \in PcValues
    /\ attempt \in 0..MaxAttempts
    /\ polls \in 0..MaxPolls
    /\ result \in {"none", "ok", "err"}
    /\ tokenCancelled \in BOOLEAN
    /\ policy \in Policies
    /\ checkFills \in BOOLEAN

(* No missed fills (spec 1): when wait_cancel_order_work has ended its     *)
(* loop on a finished order and run the post-cancel fill check, the order  *)
(* holds every fill the venue made, however the cancellation was           *)
(* confirmed (WebSocket with or without an amount, REST OrderNotFound,     *)
(* polling) and whichever fills the WebSocket lost.                        *)
NoMissedFill ==
    (pc = "final_event" /\ ~tokenCancelled) => filled = venueFilled

(* The inductive invariant behind NoMissedFill.  The order never holds     *)
(* more fills than the venue made; a venue that stopped filling (Canceled *)
(* or Completed) can no longer fill, and a Completed order holds every    *)
(* unit.  A Canceled order carries the source that confirmed it, and a    *)
(* Rest confirmation is always OrderNotFound (line 133, then lines         *)
(* 231-257), after which the work only leaves the loop; so the condition  *)
(* of lines 182-191 selects the fill check for every Canceled order.  The *)
(* loop is left with the token intact only for a finished order (line     *)
(* 156).                                                                   *)
NoMissedFillInv ==
    /\ TypeOK
    /\ filled <= venueFilled
    /\ venueStatus = "Open" => venueFilled < MaxFill
    /\ status = "Completed" => filled = MaxFill
    /\ srcType # "None" => status = "Canceled"
    /\ status = "Canceled" => srcType # "None" /\ venueStatus # "Open"
    /\ srcType = "Rest" =>
          /\ lastErr = "OrderNotFound"
          /\ pc \in {"iter_end", "after_loop", "fill_check", "final_event", "done"}
    /\ pc \in {"after_loop", "fill_check", "final_event"} /\ ~tokenCancelled
          => IsFinished
    /\ NoMissedFill

IsCancelEvent(e) == e = "CancelOrderSucceeded"

(* CancelOrderSucceeded is published at most once per order, by the hook   *)
(* or by the end of wait_cancel_order_work (lines 202-211), and only for   *)
(* an order that is Canceled.                                              *)
CancelEventOnce ==
    /\ \A i, j \in DOMAIN events :
          IsCancelEvent(events[i]) /\ IsCancelEvent(events[j]) => i = j
    /\ (\E i \in DOMAIN events : IsCancelEvent(events[i])) => status = "Canceled"

(* A CancelOrderSucceeded event has been published.                       *)
HasCancelEvent == \E i \in DOMAIN events : IsCancelEvent(events[i])

(* The inductive invariant behind CancelEventOnce: an event deferred by the *)
(* hook (canceled_not_from_wait_cancel_order) belongs to a Canceled order  *)
(* and is not yet published while the work runs, so lines 202-211 publish *)
(* the only one.                                                           *)
CancelEventInv ==
    /\ TypeOK
    /\ CancelEventOnce
    /\ canceledNotFromWait => status = "Canceled"
    /\ canceledNotFromWait /\ pc # "done" => ~HasCancelEvent

(* Spec 5: cancelling the caller's token ends wait_cancel_order_work: the  *)
(* retry loop (line 108), the creation wait (line 78), the finish future   *)
(* (lines 246-253) and the polling loop (line 269) all watch the token, so *)
(* however the venue keeps answering -- errors, PendingError sleeps,       *)
(* timeouts -- the work returns.                                           *)
TokenEndsWork == tokenCancelled ~> pc = "done"

(* Spec 4.3 step 6 and scenario 1: the post-cancel fill check is selected  *)
(* only under the spec's condition (lines 182-191 decide it).              *)
FillCheckAsSpecified ==
    [][(pc = "after_loop" /\ pc' = "fill_check") => NeedsFillCheck_SpecGrouping]_vars

=============================================================================
