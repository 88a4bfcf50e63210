------------------------------ MODULE WaitCancel ------------------------------
(***************************************************************************)
(* wait_cancel_order as a whole (wait_cancel.rs lines 22-214): the         *)
(* single-flight gate of WaitCancelGate, whose leader runs the             *)
(* wait_cancel_order_work of WaitCancelWork, for several calls on one      *)
(* order.  The order, its internal_props and the venue persist from one    *)
(* call to the next; each new leader starts the work afresh with its own   *)
(* cancellation token and check_order_fills argument.                      *)
(***************************************************************************)
EXTENDS Naturals

CONSTANTS
    Tasks, NoTask,                             \* as in WaitCancelGate
    MaxFill, MaxAttempts, MaxPolls, Policies   \* as in WaitCancelWork

VARIABLES
    \* the gate
    gpc, entry, shardLock, sent, closed, subscribedTo, late, cancelled,
    gresult,
    \* the order and the venue
    status, isCanceling, srcType, lastErr, filled, filledAfterCancel,
    canceledNotFromWait, events, venueStatus, venueFilled, cancelInFlight,
    \* the leader's wait_cancel_order_work
    wpc, attempt, polls, wresult, policy, checkFills

gateVars == <<gpc, entry, shardLock, sent, closed, subscribedTo, late,
              cancelled, gresult>>
orderVenueVars == <<status, isCanceling, srcType, lastErr, filled,
                    filledAfterCancel, canceledNotFromWait, events,
                    venueStatus, venueFilled, cancelInFlight>>
workVars == <<wpc, attempt, polls, wresult, policy, checkFills>>
vars == <<gateVars, orderVenueVars, workVars>>

G == INSTANCE WaitCancelGate WITH pc <- gpc, result <- gresult

(* The work runs with the leader's cancellation_token (line 59).           *)
LeaderToken == entry # NoTask /\ cancelled[entry]

K == INSTANCE WaitCancelWork
        WITH pc <- wpc, result <- wresult, tokenCancelled <- LeaderToken

(* No work runs before the first call; K's task part is reset by the      *)
(* first leader.                                                           *)
Init == G!Init /\ K!Init

(* Gate steps that do not touch the work.                                  *)
GateStep(t) ==
    /\ \/ G!Call(t) \/ G!EnterOccupied(t) \/ G!FollowerWake(t)
       \/ G!Send(t) \/ G!Cleanup(t) \/ G!CancelToken(t)
    /\ UNCHANGED <<orderVenueVars, workVars>>

(* The Vacant arm: t becomes the leader and calls wait_cancel_order_work   *)
(* with its own check_order_fills argument (lines 46-60).                  *)
EnterVacant(t) ==
    /\ G!EnterVacant(t)
    /\ wpc' = "start"
    /\ attempt' = 0
    /\ polls' = 0
    /\ wresult' = "none"
    /\ checkFills' \in BOOLEAN
    /\ UNCHANGED <<orderVenueVars, policy>>

(* A step of the leader's wait_cancel_order_work.                          *)
WorkStep ==
    /\ entry # NoTask
    /\ gpc[entry] = "work"
    /\ UNCHANGED gateVars
    /\ K!Leader

(* wait_cancel_order_work(...).await? returns to the gate (line 61).       *)
WorkReturns(t) ==
    /\ wpc = "done"
    /\ IF wresult = "ok" THEN G!WorkOk(t) ELSE G!WorkErr(t)
    /\ UNCHANGED <<orderVenueVars, workVars>>

(* The venue, the WebSocket feed and the order's creation.                 *)
Environment ==
    /\ UNCHANGED gateVars
    /\ \/ K!CreateAck \/ K!VenueFill \/ K!VenueCancel \/ K!VenueLoseCancel
       \/ K!WsFill \/ K!WsCancel

Next ==
    \/ \E t \in Tasks : GateStep(t) \/ EnterVacant(t) \/ WorkReturns(t)
    \/ WorkStep
    \/ Environment

Spec == Init /\ [][Next]_vars

-----------------------------------------------------------------------------
(* Spec 7: wait_cancel_order returns success only when the order was       *)
(* observed finished or the caller's token is cancelled.  Stated for the   *)
(* leaders (a leader's scope guard closes its channel): a leader whose     *)
(* token was never cancelled returns Ok only for a finished order.         *)
LeaderOkOnlyIfFinished ==
    \A t \in Tasks :
        (gpc[t] = "done" /\ closed[t] /\ gresult[t] = "ok" /\ ~cancelled[t])
            => status \in K!Finished

=============================================================================
