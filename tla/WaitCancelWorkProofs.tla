------------------------ MODULE WaitCancelWorkProofs ------------------------
(***************************************************************************)
(* Proofs about the leader's work of wait_cancel_order (wait_cancel.rs     *)
(* lines 70-406), for every order amount, retry bound and set of policies: *)
(* type correctness, and that CancelOrderSucceeded is published at most    *)
(* once and only for a Canceled order, whichever of the hook and lines     *)
(* 202-211 publishes it.                                                   *)
(***************************************************************************)
EXTENDS WaitCancelWork, SequenceTheorems, TLAPS

USE BoundsAssumption, PoliciesAssumption

(* Every value the work, the hooks and the venue take is of its type in    *)
(* the initial state.                                                      *)
LEMMA InitTypeOK == Init => TypeOK
<1> SUFFICES ASSUME Init PROVE TypeOK
  OBVIOUS
<1>1. events \in Seq(EventTypes)
  <2>1. <<"CreateOrderSucceeded">> \in Seq(EventTypes) /\ << >> \in Seq(EventTypes)
    BY DEF EventTypes
  <2>. QED
    BY <2>1 DEF Init
<1>2. /\ filled \in 0..MaxFill /\ venueFilled \in 0..MaxFill
      /\ filledAfterCancel \in {NoAmount} \cup 0..MaxFill
      /\ attempt \in 0..MaxAttempts /\ polls \in 0..MaxPolls
  BY BoundsAssumption DEF Init
<1>3. status \in Statuses /\ srcType \in Sources /\ lastErr \in ErrorTypes
      /\ pc \in PcValues
  BY DEF Init, Statuses, Sources, ErrorTypes, PcValues
<1>. QED
  BY <1>1, <1>2, <1>3 DEF Init, TypeOK

(* The hooks and the fill handler keep the order's fields in their types.  *)
LEMMA ApplyFillsType ==
    ASSUME TypeOK, NEW to \in 0..MaxFill, ApplyFills(to)
    PROVE  /\ filled' \in 0..MaxFill
           /\ status' \in Statuses
           /\ events' \in Seq(EventTypes)
BY DEF ApplyFills, TypeOK, Statuses, EventTypes, IsFinished

LEMMA HandleCancelSucceededType ==
    ASSUME TypeOK, NEW src \in Sources,
           NEW amount \in {NoAmount} \cup 0..MaxFill,
           HandleCancelSucceeded(src, amount)
    PROVE  /\ status' \in Statuses
           /\ srcType' \in Sources
           /\ filledAfterCancel' \in {NoAmount} \cup 0..MaxFill
           /\ canceledNotFromWait' \in BOOLEAN
           /\ events' \in Seq(EventTypes)
<1>1. CASE IsFinished
  BY <1>1 DEF HandleCancelSucceeded, TypeOK
<1>2. CASE ~IsFinished /\ isCanceling
  BY <1>2 DEF HandleCancelSucceeded, TypeOK, Statuses
<1>3. CASE ~IsFinished /\ ~isCanceling
  <2>1. events' = Append(events, "CancelOrderSucceeded")
    BY <1>3 DEF HandleCancelSucceeded
  <2>2. events' \in Seq(EventTypes)
    BY <2>1, AppendProperties DEF TypeOK, EventTypes
  <2>. QED
    BY <1>3, <2>2 DEF HandleCancelSucceeded, TypeOK, Statuses
<1>. QED
  BY <1>1, <1>2, <1>3

LEMMA HandleCancelFailedType ==
    ASSUME TypeOK, NEW err \in ErrorTypes, NEW src \in Sources,
           HandleCancelFailed(err, src)
    PROVE  /\ lastErr' \in ErrorTypes
           /\ status' \in Statuses
           /\ srcType' \in Sources
           /\ filledAfterCancel' \in {NoAmount} \cup 0..MaxFill
           /\ canceledNotFromWait' \in BOOLEAN
           /\ events' \in Seq(EventTypes)
<1>1. CASE err = "OrderNotFound"
  BY <1>1, HandleCancelSucceededType DEF HandleCancelFailed, NoAmount
<1>2. CASE err # "OrderNotFound"
  BY <1>2 DEF HandleCancelFailed, TypeOK
<1>. QED
  BY <1>1, <1>2

(* Every step of the leader and of its environment keeps every value in    *)
(* its type: the retry counters stay within their bounds, a fill never     *)
(* passes the order amount, and only order events are published.          *)
LEMMA NextTypeOK == TypeOK /\ [Next]_vars => TypeOK'
<1> SUFFICES ASSUME TypeOK, [Next]_vars PROVE TypeOK'
  OBVIOUS
<1>. USE DEF TypeOK, Goto, orderVars, venueVars, taskVars, PcValues
<1>1. CASE Start
  BY <1>1 DEF Start
<1>2. CASE OrderCreated
  BY <1>2 DEF OrderCreated
<1>3. CASE CheckFinished
  BY <1>3 DEF CheckFinished
<1>4. CASE Latch
  BY <1>4 DEF Latch
<1>5. CASE StartAttempt
  BY <1>5 DEF StartAttempt
<1>6. CASE LoopExit
  BY <1>6 DEF LoopExit
<1>7. CASE CancelArm
  <2>1. CASE /\ Goto("done") /\ result' = "err" /\ UNCHANGED <<orderVars, polls>>
             /\ UNCHANGED <<venueVars, attempt, tokenCancelled, policy, checkFills>>
    BY <2>1
  <2>2. CASE /\ Goto("iter_end") /\ UNCHANGED <<orderVars, polls, result>>
             /\ UNCHANGED <<venueVars, attempt, tokenCancelled, policy, checkFills>>
    BY <2>2
  <2>3. ASSUME NEW o \in CancelOutcomes \ {"Success", "TransportError"},
               HandleCancelFailed(o, "Rest"), Goto(AfterError[o]), polls' = 0,
               UNCHANGED <<isCanceling, filled, result>>,
               UNCHANGED <<venueVars, attempt, tokenCancelled, policy, checkFills>>
        PROVE TypeOK'
    <3>1. o \in ErrorTypes /\ AfterError[o] \in PcValues
      BY DEF CancelOutcomes, ErrorTypes, AfterError
    <3>2. "Rest" \in Sources
      BY DEF Sources
    <3>. QED
      BY <2>3, <3>1, <3>2, HandleCancelFailedType
  <2>. QED
    BY <1>7, <2>1, <2>2, <2>3 DEF CancelArm
<1>8. CASE TimerArm
  BY <1>8 DEF TimerArm
<1>9. CASE PendingSleep
  BY <1>9 DEF PendingSleep
<1>10. CASE OrderFinishFuture
  BY <1>10 DEF OrderFinishFuture
<1>11. CASE IterEnd
  BY <1>11 DEF IterEnd
<1>12. CASE PollStart
  BY <1>12 DEF PollStart
<1>13. CASE PollAnswer
  <2>. "ParsingError" \in ErrorTypes /\ "RestFallback" \in Sources
    BY DEF ErrorTypes, Sources
  <2>1. CASE IsFinished
    BY <1>13, <2>1 DEF PollAnswer
  <2>2. CASE ~IsFinished
    <3>1. CASE venueStatus # "Open" /\ HandleCancelFailed("ParsingError", "RestFallback")
               /\ Goto("iter_end") /\ UNCHANGED <<isCanceling, filled>>
      BY <1>13, <3>1, HandleCancelFailedType DEF PollAnswer
    <3>2. CASE Goto("poll_top") /\ UNCHANGED orderVars
      BY <1>13, <3>2 DEF PollAnswer
    <3>3. CASE venueStatus = "Canceled"
               /\ HandleCancelSucceeded("RestFallback", venueFilled)
               /\ Goto("iter_end") /\ UNCHANGED <<isCanceling, lastErr, filled>>
      BY <1>13, <3>3, HandleCancelSucceededType DEF PollAnswer
    <3>4. CASE venueStatus = "Completed" /\ CheckOrderFills /\ Goto("iter_end")
               /\ UNCHANGED <<isCanceling, srcType, lastErr,
                              filledAfterCancel, canceledNotFromWait>>
      <4>1. filled' \in 0..MaxFill /\ status' \in Statuses /\ events' \in Seq(EventTypes)
        BY <3>4, ApplyFillsType DEF CheckOrderFills
      <4>. QED
        BY <1>13, <3>4, <4>1 DEF PollAnswer
    <3>5. CASE venueStatus = "Open" /\ Goto("iter_end") /\ UNCHANGED orderVars
      BY <1>13, <3>5 DEF PollAnswer
    <3>. QED
      BY <1>13, <2>2, <3>1, <3>2, <3>3, <3>4, <3>5 DEF PollAnswer
  <2>. QED
    BY <2>1, <2>2
<1>14. CASE AfterLoop
  BY <1>14 DEF AfterLoop
<1>15. CASE FillCheck
  <2>1. filled' \in 0..MaxFill /\ status' \in Statuses /\ events' \in Seq(EventTypes)
    BY <1>15, ApplyFillsType DEF FillCheck, CheckOrderFills
  <2>. QED
    BY <1>15, <2>1 DEF FillCheck
<1>16. CASE FinalEvent
  <2>1. events' \in Seq(EventTypes)
    BY <1>16, AppendProperties DEF FinalEvent, EventTypes
  <2>. QED
    BY <1>16, <2>1 DEF FinalEvent
<1>17. CASE CreateAck
  <2>1. events' \in Seq(EventTypes)
    BY <1>17, AppendProperties DEF CreateAck, EventTypes
  <2>. QED
    BY <1>17, <2>1 DEF CreateAck, Statuses
<1>18. CASE VenueFill
  BY <1>18 DEF VenueFill
<1>19. CASE VenueCancel
  <2>1. UNCHANGED <<orderVars, venueFilled, taskVars>>
    BY <1>19 DEF VenueCancel
  <2>2. venueStatus' \in {"Open", "Canceled", "Completed"}
        /\ cancelInFlight' \in BOOLEAN
    BY <1>19 DEF VenueCancel
  <2>. QED
    BY <2>1, <2>2
<1>20. CASE VenueLoseCancel
  <2>1. UNCHANGED <<orderVars, venueStatus, venueFilled, taskVars>>
    BY <1>20 DEF VenueLoseCancel
  <2>2. cancelInFlight' \in BOOLEAN
    BY <1>20 DEF VenueLoseCancel
  <2>. QED
    BY <2>1, <2>2
<1>21. CASE WsFill
  <2>1. filled + 1 \in 0..MaxFill
    BY <1>21 DEF WsFill
  <2>2. filled' \in 0..MaxFill /\ status' \in Statuses /\ events' \in Seq(EventTypes)
    BY <1>21, <2>1, ApplyFillsType DEF WsFill
  <2>. QED
    BY <1>21, <2>2 DEF WsFill
<1>22. CASE WsCancel
  <2>1. PICK amount \in {NoAmount, venueFilled} : HandleCancelSucceeded("WebSocket", amount)
    BY <1>22 DEF WsCancel
  <2>2. "WebSocket" \in Sources /\ amount \in {NoAmount} \cup 0..MaxFill
    BY DEF Sources
  <2>. QED
    BY <1>22, <2>1, <2>2, HandleCancelSucceededType DEF WsCancel
<1>23. CASE CancelToken
  BY <1>23 DEF CancelToken
<1>24. CASE UNCHANGED vars
  BY <1>24 DEF vars
<1>. QED
  BY <1>1, <1>2, <1>3, <1>4, <1>5, <1>6, <1>7, <1>8, <1>9, <1>10, <1>11,
     <1>12, <1>13, <1>14, <1>15, <1>16, <1>17, <1>18, <1>19, <1>20, <1>21,
     <1>22, <1>23, <1>24 DEF Next, Leader, Environment

(* TypeOK holds in every reachable state of the work.                      *)
THEOREM TypeCorrect == Spec => []TypeOK
BY InitTypeOK, NextTypeOK, PTL DEF Spec

-----------------------------------------------------------------------------
(* The positions of the CancelOrderSucceeded events in a sequence.         *)
CancelAt(s) == {i \in DOMAIN s : IsCancelEvent(s[i])}

(* CancelEventInv without its typing part.                                 *)
EventPart ==
    /\ CancelEventOnce
    /\ canceledNotFromWait => status = "Canceled"
    /\ canceledNotFromWait /\ pc # "done" => ~HasCancelEvent

(* The three facts of EventPart in terms of CancelAt.                      *)
LEMMA EventPartCancelAt ==
    EventPart <=>
        /\ \A i, j \in CancelAt(events) : i = j
        /\ CancelAt(events) # {} => status = "Canceled"
        /\ canceledNotFromWait => status = "Canceled"
        /\ canceledNotFromWait /\ pc # "done" => CancelAt(events) = {}
BY DEF EventPart, CancelEventOnce, HasCancelEvent, CancelAt

(* Publishing an event other than CancelOrderSucceeded adds no position.   *)
LEMMA AppendOther ==
    ASSUME NEW s \in Seq(EventTypes), NEW e \in EventTypes, ~IsCancelEvent(e)
    PROVE  CancelAt(Append(s, e)) = CancelAt(s)
<1>1. /\ DOMAIN Append(s, e) = 1..Len(s) + 1
      /\ \A i \in 1..Len(s) : Append(s, e)[i] = s[i]
      /\ Append(s, e)[Len(s) + 1] = e
  BY AppendProperties
<1>. QED
  BY <1>1 DEF CancelAt

(* Publishing CancelOrderSucceeded adds the last position.                 *)
LEMMA AppendCancel ==
    ASSUME NEW s \in Seq(EventTypes)
    PROVE  CancelAt(Append(s, "CancelOrderSucceeded")) = CancelAt(s) \cup {Len(s) + 1}
<1>1. "CancelOrderSucceeded" \in EventTypes
  BY DEF EventTypes
<1>2. /\ DOMAIN Append(s, "CancelOrderSucceeded") = 1..Len(s) + 1
      /\ \A i \in 1..Len(s) : Append(s, "CancelOrderSucceeded")[i] = s[i]
      /\ Append(s, "CancelOrderSucceeded")[Len(s) + 1] = "CancelOrderSucceeded"
  BY <1>1, AppendProperties
<1>. QED
  BY <1>2 DEF CancelAt, IsCancelEvent

(* EventPart in terms of CancelAt: the form the step proofs work with.     *)
EvC ==
    /\ \A i, j \in CancelAt(events) : i = j
    /\ CancelAt(events) # {} => status = "Canceled"
    /\ canceledNotFromWait => status = "Canceled"
    /\ canceledNotFromWait /\ pc # "done" => CancelAt(events) = {}

(* An order that is not Canceled has no cancel event and no deferred one.  *)
LEMMA NotCanceled ==
    ASSUME EvC, status # "Canceled"
    PROVE  CancelAt(events) = {} /\ ~canceledNotFromWait
BY DEF EvC

(* Hypothesis shared by the step lemmas: a step that may end the leader    *)
(* (pc' = "done") starts from a leader label other than "done".           *)
PcStep == pc' = pc \/ pc # "done"

(* A step that leaves the events, the status and the flag alone.           *)
LEMMA KeepEvC ==
    ASSUME EvC, PcStep,
           UNCHANGED <<events, status, canceledNotFromWait>>
    PROVE  EvC'
BY DEF EvC, PcStep

(* The fill handler publishes no cancel event and completes only an order *)
(* that is not Canceled.                                                   *)
LEMMA FillsEvC ==
    ASSUME TypeOK, EvC, PcStep, NEW to, ApplyFills(to),
           UNCHANGED canceledNotFromWait
    PROVE  EvC'
<1>1. "OrderFilled" \in EventTypes /\ "OrderCompleted" \in EventTypes
      /\ ~IsCancelEvent("OrderFilled") /\ ~IsCancelEvent("OrderCompleted")
  BY DEF EventTypes, IsCancelEvent
<1>2. Append(events, "OrderFilled") \in Seq(EventTypes)
  BY <1>1, AppendProperties DEF TypeOK
<1>3. CancelAt(Append(events, "OrderFilled")) = CancelAt(events)
  BY <1>1, AppendOther DEF TypeOK
<1>4. CancelAt(Append(Append(events, "OrderFilled"), "OrderCompleted"))
        = CancelAt(events)
  BY <1>1, <1>2, <1>3, AppendOther
<1>5. CASE to = MaxFill /\ ~IsFinished
  <2>1. status # "Canceled"
    BY <1>5 DEF IsFinished, Finished
  <2>2. CancelAt(events) = {} /\ ~canceledNotFromWait
    BY <2>1, NotCanceled
  <2>3. CancelAt(events') = {}
    BY <1>5, <1>4, <2>2 DEF ApplyFills
  <2>. QED
    BY <2>2, <2>3 DEF EvC
<1>6. CASE ~(to = MaxFill /\ ~IsFinished)
  <2>1. status' = status /\ CancelAt(events') = CancelAt(events)
    BY <1>6, <1>3 DEF ApplyFills
  <2>. QED
    BY <2>1 DEF EvC, PcStep
<1>. QED
  BY <1>5, <1>6

(* check_order_fills either runs the fill handler or changes nothing.     *)
LEMMA CheckFillsEvC ==
    ASSUME TypeOK, EvC, PcStep, CheckOrderFills,
           UNCHANGED canceledNotFromWait
    PROVE  EvC'
<1>1. CASE filled < venueFilled
  BY <1>1, FillsEvC DEF CheckOrderFills
<1>2. CASE ~(filled < venueFilled)
  BY <1>2, KeepEvC DEF CheckOrderFills
<1>. QED
  BY <1>1, <1>2

(* handle_cancel_order_succeeded publishes the event only for an order    *)
(* that is not yet finished, so not yet Canceled, and otherwise defers it. *)
LEMMA SucceededEvC ==
    ASSUME TypeOK, EvC, PcStep, NEW src, NEW amount,
           HandleCancelSucceeded(src, amount)
    PROVE  EvC'
<1>1. CASE IsFinished
  BY <1>1, KeepEvC DEF HandleCancelSucceeded
<1>2. CASE ~IsFinished
  <2>1. CancelAt(events) = {} /\ ~canceledNotFromWait
    BY <1>2, NotCanceled DEF IsFinished, Finished
  <2>2. status' = "Canceled"
    BY <1>2 DEF HandleCancelSucceeded
  <2>3. CASE isCanceling
    <3>1. events' = events
      BY <1>2, <2>3 DEF HandleCancelSucceeded
    <3>. QED
      BY <2>1, <2>2, <3>1 DEF EvC
  <2>4. CASE ~isCanceling
    <3>1. events' = Append(events, "CancelOrderSucceeded")
          /\ canceledNotFromWait' = canceledNotFromWait
      BY <1>2, <2>4 DEF HandleCancelSucceeded
    <3>2. CancelAt(events') = {Len(events) + 1}
      BY <2>1, <3>1, AppendCancel DEF TypeOK
    <3>. QED
      BY <2>1, <2>2, <3>1, <3>2 DEF EvC
  <2>. QED
    BY <2>3, <2>4
<1>. QED
  BY <1>1, <1>2

LEMMA FailedEvC ==
    ASSUME TypeOK, EvC, PcStep, NEW err, NEW src, HandleCancelFailed(err, src)
    PROVE  EvC'
<1>1. CASE err = "OrderNotFound"
  BY <1>1, SucceededEvC DEF HandleCancelFailed
<1>2. CASE err # "OrderNotFound"
  BY <1>2, KeepEvC DEF HandleCancelFailed
<1>. QED
  BY <1>1, <1>2

LEMMA NextEvC == TypeOK /\ EvC /\ [Next]_vars => EvC'
<1> SUFFICES ASSUME TypeOK, EvC, [Next]_vars PROVE EvC'
  OBVIOUS
<1>. USE DEF Goto, orderVars, venueVars, taskVars
(* Steps that leave the order's events, status and flag alone.            *)
<1>1. CASE \/ Start \/ OrderCreated \/ CheckFinished \/ Latch
           \/ StartAttempt \/ LoopExit \/ TimerArm \/ PendingSleep
           \/ OrderFinishFuture \/ IterEnd \/ PollStart \/ AfterLoop
  <2>1. PcStep /\ UNCHANGED <<events, status, canceledNotFromWait>>
    BY <1>1 DEF Start, OrderCreated, CheckFinished, Latch, StartAttempt,
                LoopExit, TimerArm, PendingSleep, OrderFinishFuture, IterEnd,
                PollStart, AfterLoop, PcStep
  <2>. QED
    BY <2>1, KeepEvC
<1>2. CASE \/ VenueFill \/ VenueCancel \/ VenueLoseCancel \/ CancelToken
           \/ UNCHANGED vars
  <2>1. PcStep /\ UNCHANGED <<events, status, canceledNotFromWait>>
    BY <1>2 DEF VenueFill, VenueCancel, VenueLoseCancel, CancelToken, vars,
                PcStep
  <2>. QED
    BY <2>1, KeepEvC
<1>3. CASE CancelArm
  <2>1. PcStep
    BY <1>3 DEF CancelArm, PcStep
  <2>2. CASE UNCHANGED orderVars
    BY <2>1, <2>2, KeepEvC
  <2>3. CASE \E o \in CancelOutcomes \ {"Success", "TransportError"} :
               HandleCancelFailed(o, "Rest")
    BY <2>1, <2>3, FailedEvC
  <2>. QED
    BY <1>3, <2>2, <2>3 DEF CancelArm
<1>4. CASE PollAnswer
  <2>1. PcStep
    BY <1>4 DEF PollAnswer, PcStep
  <2>2. CASE UNCHANGED orderVars
    BY <2>1, <2>2, KeepEvC
  <2>3. CASE HandleCancelFailed("ParsingError", "RestFallback")
    BY <2>1, <2>3, FailedEvC
  <2>4. CASE HandleCancelSucceeded("RestFallback", venueFilled)
    BY <2>1, <2>4, SucceededEvC
  <2>5. CASE CheckOrderFills /\ UNCHANGED canceledNotFromWait
    BY <2>1, <2>5, CheckFillsEvC
  <2>. QED
    BY <1>4, <2>2, <2>3, <2>4, <2>5 DEF PollAnswer
<1>5. CASE FillCheck
  BY <1>5, CheckFillsEvC DEF FillCheck, PcStep
<1>6. CASE WsFill
  BY <1>6, FillsEvC DEF WsFill, PcStep
<1>7. CASE WsCancel
  BY <1>7, SucceededEvC DEF WsCancel, PcStep
(* The deferred event is published by the leader's last step only.        *)
<1>8. CASE FinalEvent
  <2>1. pc' = "done" /\ status' = status
        /\ canceledNotFromWait' = canceledNotFromWait
    BY <1>8 DEF FinalEvent
  <2>2. CASE canceledNotFromWait /\ status # "Completed"
    <3>1. CancelAt(events) = {} /\ status = "Canceled"
      BY <1>8, <2>2 DEF FinalEvent, EvC
    <3>2. CancelAt(events') = {Len(events) + 1}
      BY <1>8, <2>2, <3>1, AppendCancel DEF FinalEvent, TypeOK
    <3>. QED
      BY <2>1, <3>1, <3>2 DEF EvC
  <2>3. CASE ~(canceledNotFromWait /\ status # "Completed")
    BY <1>8, <2>1, <2>3 DEF FinalEvent, EvC
  <2>. QED
    BY <2>2, <2>3
(* An order being created is not Canceled, so carries no cancel event.    *)
<1>9. CASE CreateAck
  <2>1. CancelAt(events) = {} /\ ~canceledNotFromWait
    BY <1>9, NotCanceled DEF CreateAck
  <2>2. "CreateOrderSucceeded" \in EventTypes
        /\ ~IsCancelEvent("CreateOrderSucceeded")
    BY DEF EventTypes, IsCancelEvent
  <2>3. CancelAt(events') = {}
    BY <1>9, <2>1, <2>2, AppendOther DEF CreateAck, TypeOK
  <2>. QED
    BY <1>9, <2>1, <2>3 DEF CreateAck, EvC
<1>. QED
  BY <1>1, <1>2, <1>3, <1>4, <1>5, <1>6, <1>7, <1>8, <1>9
     DEF Next, Leader, Environment

(* CancelOrderSucceeded is published at most once, and only for a Canceled *)
(* order, whatever the order in which the hook (REST, polling, WebSocket)  *)
(* and the end of wait_cancel_order_work run (lines 202-211): the          *)
(* property CancelEventOnce for every MaxFill, MaxAttempts, MaxPolls and   *)
(* policy.                                                                 *)
THEOREM CancelEventOnceHolds == Spec => []CancelEventOnce
<1>1. Init => TypeOK /\ EvC
  <2> SUFFICES ASSUME Init PROVE TypeOK /\ EvC
    OBVIOUS
  <2>1. CancelAt(events) = {} /\ ~canceledNotFromWait
    BY DEF Init, CancelAt, IsCancelEvent
  <2>. QED
    BY <2>1, InitTypeOK DEF EvC
<1>2. TypeOK /\ EvC /\ [Next]_vars => (TypeOK /\ EvC)'
  BY NextTypeOK, NextEvC
<1>3. EvC => CancelEventOnce
  BY EventPartCancelAt DEF EventPart, EvC
<1>. QED
  BY <1>1, <1>2, <1>3, PTL DEF Spec

-----------------------------------------------------------------------------
(* NoMissedFillInv without its typing part.                                *)
MF ==
    /\ filled <= venueFilled
    /\ venueStatus = "Open" => venueFilled < MaxFill
    /\ status = "Completed" => filled = MaxFill
    /\ srcType # "None" => status = "Canceled"
    /\ status = "Canceled" => srcType # "None" /\ venueStatus # "Open"
    /\ srcType = "Rest" =>
          /\ lastErr = "OrderNotFound"
          /\ pc \in {"iter_end", "after_loop", "fill_check", "final_event", "done"}
    /\ pc \in {"after_loop", "fill_check", "final_event"} /\ ~tokenCancelled
          => IsFinished
    /\ NoMissedFill

LEMMA NextMF == TypeOK /\ MF /\ [Next]_vars => MF'
<1> SUFFICES ASSUME TypeOK, MF, [Next]_vars PROVE MF'
  OBVIOUS
<1>. USE DEF MF, NoMissedFill, IsFinished, Finished, TypeOK, Goto,
             orderVars, venueVars, taskVars
<1>1. CASE Start
  BY <1>1 DEF Start
<1>2. CASE OrderCreated
  BY <1>2 DEF OrderCreated
<1>3. CASE CheckFinished
  BY <1>3 DEF CheckFinished
<1>4. CASE Latch
  BY <1>4 DEF Latch
<1>5. CASE StartAttempt
  BY <1>5 DEF StartAttempt
<1>6. CASE LoopExit
  BY <1>6 DEF LoopExit
<1>7. CASE CancelArm
  BY <1>7 DEF CancelArm, HandleCancelFailed, HandleCancelSucceeded,
              CancelOutcomes, AfterError
<1>8. CASE TimerArm
  BY <1>8 DEF TimerArm
<1>9. CASE PendingSleep
  BY <1>9 DEF PendingSleep
<1>10. CASE OrderFinishFuture
  BY <1>10 DEF OrderFinishFuture
<1>11. CASE IterEnd
  BY <1>11 DEF IterEnd
<1>12. CASE PollStart
  BY <1>12 DEF PollStart
<1>13. CASE PollAnswer
  BY <1>13 DEF PollAnswer, HandleCancelFailed, HandleCancelSucceeded,
               CheckOrderFills, ApplyFills
(* Lines 182-191 skip the fill check only for a Completed order, which    *)
(* holds every unit; every source that confirms a cancellation selects it. *)
<1>14. CASE AfterLoop
  <2>1. UNCHANGED <<orderVars, venueVars, tokenCancelled>>
    BY <1>14 DEF AfterLoop
  <2>2. CASE NeedsFillCheck
    BY <1>14, <2>1, <2>2 DEF AfterLoop
  <2>3. CASE ~NeedsFillCheck /\ tokenCancelled
    BY <1>14, <2>1, <2>3 DEF AfterLoop
  <2>4. CASE ~NeedsFillCheck /\ ~tokenCancelled
    <3>1. pc' = "final_event" /\ pc = "after_loop"
      BY <1>14, <2>4 DEF AfterLoop
    <3>2. status \in {"Canceled", "Completed"}
      BY <2>4, <3>1
    <3>3. status # "Canceled"
      BY <2>4, <3>2 DEF NeedsFillCheck, Sources
    <3>4. filled = venueFilled
      BY <3>2, <3>3
    <3>. QED
      BY <2>1, <3>1, <3>4
  <2>. QED
    BY <2>2, <2>3, <2>4
<1>15. CASE FillCheck
  BY <1>15 DEF FillCheck, CheckOrderFills, ApplyFills
<1>16. CASE FinalEvent
  BY <1>16 DEF FinalEvent
<1>17. CASE CreateAck
  BY <1>17 DEF CreateAck
<1>18. CASE VenueFill
  BY <1>18 DEF VenueFill
<1>19. CASE VenueCancel
  BY <1>19 DEF VenueCancel
<1>20. CASE VenueLoseCancel
  BY <1>20 DEF VenueLoseCancel
<1>21. CASE WsFill
  BY <1>21 DEF WsFill, ApplyFills
<1>22. CASE WsCancel
  BY <1>22 DEF WsCancel, HandleCancelSucceeded
<1>23. CASE CancelToken
  BY <1>23 DEF CancelToken
<1>24. CASE UNCHANGED vars
  BY <1>24 DEF vars
<1>. QED
  BY <1>1, <1>2, <1>3, <1>4, <1>5, <1>6, <1>7, <1>8, <1>9, <1>10, <1>11,
     <1>12, <1>13, <1>14, <1>15, <1>16, <1>17, <1>18, <1>19, <1>20, <1>21,
     <1>22, <1>23, <1>24 DEF Next, Leader, Environment

(* No missed fills (spec 1), for every order amount, retry bound and set  *)
(* of policies: when wait_cancel_order_work reaches the final event with  *)
(* the token intact, the order holds every fill the venue made, whichever *)
(* of the WebSocket, REST and polling confirmed the cancellation and      *)
(* whichever fills the WebSocket lost (the property NoMissedFill).         *)
THEOREM NoMissedFillHolds == Spec => []NoMissedFill
<1>1. Init => TypeOK /\ MF
  <2> SUFFICES ASSUME Init PROVE TypeOK /\ MF
    OBVIOUS
  <2>1. MF
    BY DEF Init, MF, NoMissedFill
  <2>. QED
    BY <2>1, InitTypeOK
<1>2. TypeOK /\ MF /\ [Next]_vars => (TypeOK /\ MF)'
  BY NextTypeOK, NextMF
<1>3. MF => NoMissedFill
  BY DEF MF
<1>. QED
  BY <1>1, <1>2, <1>3, PTL DEF Spec

(* The strengthening TLC checks is the one proved inductive here.          *)
LEMMA NoMissedFillInvHolds == Spec => []NoMissedFillInv
<1>1. Init => TypeOK /\ MF
  BY InitTypeOK DEF Init, MF, NoMissedFill
<1>2. TypeOK /\ MF /\ [Next]_vars => (TypeOK /\ MF)'
  BY NextTypeOK, NextMF
<1>3. TypeOK /\ MF => NoMissedFillInv
  BY DEF MF, NoMissedFillInv
<1>. QED
  BY <1>1, <1>2, <1>3, PTL DEF Spec

-----------------------------------------------------------------------------
(* Published events are never withdrawn or rewritten: t extends s.         *)
Grows(s, t) ==
    /\ Len(s) <= Len(t)
    /\ \A i \in 1..Len(s) : t[i] = s[i]

LEMMA AppendGrows ==
    ASSUME NEW s \in Seq(EventTypes), NEW e \in EventTypes
    PROVE  /\ Append(s, e) \in Seq(EventTypes)
           /\ Grows(s, Append(s, e))
BY AppendProperties DEF Grows

LEMMA GrowsTrans ==
    ASSUME NEW s \in Seq(EventTypes), NEW t \in Seq(EventTypes),
           NEW u \in Seq(EventTypes), Grows(s, t), Grows(t, u)
    PROVE  Grows(s, u)
BY DEF Grows

(* An extension keeps the cancel events among the old positions.           *)
LEMMA GrowsCancelAt ==
    ASSUME NEW s \in Seq(EventTypes), NEW t \in Seq(EventTypes), Grows(s, t),
           NEW i \in 1..Len(s)
    PROVE  i \in CancelAt(t) <=> i \in CancelAt(s)
BY DEF Grows, CancelAt

LEMMA FillsGrow ==
    ASSUME TypeOK, NEW to, ApplyFills(to)
    PROVE  Grows(events, events')
<1>1. "OrderFilled" \in EventTypes /\ "OrderCompleted" \in EventTypes
  BY DEF EventTypes
<1>2. /\ Append(events, "OrderFilled") \in Seq(EventTypes)
      /\ Grows(events, Append(events, "OrderFilled"))
  BY <1>1, AppendGrows DEF TypeOK
<1>3. /\ Append(Append(events, "OrderFilled"), "OrderCompleted") \in Seq(EventTypes)
      /\ Grows(Append(events, "OrderFilled"),
               Append(Append(events, "OrderFilled"), "OrderCompleted"))
  BY <1>1, <1>2, AppendGrows
<1>4. Grows(events, Append(Append(events, "OrderFilled"), "OrderCompleted"))
  BY <1>2, <1>3, GrowsTrans DEF TypeOK
<1>. QED
  BY <1>2, <1>4 DEF ApplyFills

LEMMA KeepGrows ==
    ASSUME TypeOK, UNCHANGED events
    PROVE  Grows(events, events')
BY DEF Grows, TypeOK

LEMMA SucceededGrows ==
    ASSUME TypeOK, NEW src, NEW amount, HandleCancelSucceeded(src, amount)
    PROVE  Grows(events, events')
<1>1. "CancelOrderSucceeded" \in EventTypes
  BY DEF EventTypes
<1>2. Grows(events, Append(events, "CancelOrderSucceeded"))
  BY <1>1, AppendGrows DEF TypeOK
<1>. QED
  BY <1>2, KeepGrows DEF HandleCancelSucceeded

LEMMA FailedGrows ==
    ASSUME TypeOK, NEW err, NEW src, HandleCancelFailed(err, src)
    PROVE  Grows(events, events')
BY SucceededGrows, KeepGrows DEF HandleCancelFailed

LEMMA CheckFillsGrow ==
    ASSUME TypeOK, CheckOrderFills
    PROVE  Grows(events, events')
BY FillsGrow, KeepGrows DEF CheckOrderFills

(* Every step of the work, the hooks and the environment extends the       *)
(* published events.                                                       *)
LEMMA NextGrows == TypeOK /\ [Next]_vars => Grows(events, events')
<1> SUFFICES ASSUME TypeOK, [Next]_vars PROVE Grows(events, events')
  OBVIOUS
<1>. USE DEF orderVars
<1>1. CASE \/ Start \/ OrderCreated \/ CheckFinished \/ Latch
           \/ StartAttempt \/ LoopExit \/ TimerArm \/ PendingSleep
           \/ OrderFinishFuture \/ IterEnd \/ PollStart \/ AfterLoop
           \/ VenueFill \/ VenueCancel \/ VenueLoseCancel \/ CancelToken
           \/ UNCHANGED vars
  <2>1. UNCHANGED events
    BY <1>1 DEF Start, OrderCreated, CheckFinished, Latch, StartAttempt,
                LoopExit, TimerArm, PendingSleep, OrderFinishFuture, IterEnd,
                PollStart, AfterLoop, VenueFill, VenueCancel, VenueLoseCancel,
                CancelToken, vars
  <2>. QED
    BY <2>1, KeepGrows
<1>2. CASE CancelArm
  BY <1>2, KeepGrows, FailedGrows DEF CancelArm
<1>3. CASE PollAnswer
  BY <1>3, KeepGrows, FailedGrows, SucceededGrows, CheckFillsGrow DEF PollAnswer
<1>4. CASE FillCheck
  BY <1>4, CheckFillsGrow DEF FillCheck
<1>5. CASE FinalEvent
  <2>1. Grows(events, Append(events, "CancelOrderSucceeded"))
    BY AppendGrows DEF TypeOK, EventTypes
  <2>. QED
    BY <1>5, <2>1, KeepGrows DEF FinalEvent
<1>6. CASE CreateAck
  BY <1>6, AppendGrows DEF CreateAck, TypeOK, EventTypes
<1>7. CASE WsFill
  BY <1>7, FillsGrow DEF WsFill
<1>8. CASE WsCancel
  BY <1>8, SucceededGrows DEF WsCancel
<1>. QED
  BY <1>1, <1>2, <1>3, <1>4, <1>5, <1>6, <1>7, <1>8 DEF Next, Leader, Environment

(* The strengthening of CancelEventOnce that TLC checks, CancelEventInv,   *)
(* is the invariant proved inductive above.                                *)
LEMMA CancelEventInvHolds == Spec => []CancelEventInv
<1>1. Init => TypeOK /\ EvC
  <2> SUFFICES ASSUME Init PROVE TypeOK /\ EvC
    OBVIOUS
  <2>1. CancelAt(events) = {} /\ ~canceledNotFromWait
    BY DEF Init, CancelAt, IsCancelEvent
  <2>. QED
    BY <2>1, InitTypeOK DEF EvC
<1>2. TypeOK /\ EvC /\ [Next]_vars => (TypeOK /\ EvC)'
  BY NextTypeOK, NextEvC
<1>3. TypeOK /\ EvC => CancelEventInv
  BY EventPartCancelAt DEF EventPart, EvC, CancelEventInv
<1>. QED
  BY <1>1, <1>2, <1>3, PTL DEF Spec

=============================================================================
