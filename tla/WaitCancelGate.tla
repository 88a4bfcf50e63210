--------------------------- MODULE WaitCancelGate ---------------------------
(***************************************************************************)
(* The single-flight gate of Exchange::wait_cancel_order                   *)
(* (src/src/core/exchanges/general/order/wait_cancel.rs, lines 22-68).    *)
(*                                                                         *)
(* Several tasks call wait_cancel_order for the same ClientOrderId.  The   *)
(* gate is a DashMap from ClientOrderId to a tokio broadcast Sender.       *)
(*   - entry() takes the write lock of the key's shard.  In the Vacant arm *)
(*     the caller inserts a fresh channel and the lock is released at the  *)
(*     end of that statement; the caller becomes the leader.               *)
(*   - In the Occupied arm the caller subscribes and then awaits           *)
(*     rx.recv() or its cancellation token INSIDE the match arm, so the    *)
(*     OccupiedEntry, and with it the shard write lock, is held across the *)
(*     await.                                                              *)
(*   - The leader runs wait_cancel_order_work (abstracted here as a step   *)
(*     that succeeds or fails), sends the outcome on success, and on every *)
(*     exit path its scope guard removes the map entry, which needs the    *)
(*     shard lock and blocks its thread until it gets it.  Removing the    *)
(*     entry drops the last Sender, which closes the channel.              *)
(* One order (one key) is modelled: keys are independent.                  *)
(***************************************************************************)
EXTENDS Naturals, FiniteSets

CONSTANTS
    Tasks,      \* the tasks that call wait_cancel_order for the order
    NoTask      \* no task: an empty map slot, a free lock, no subscription

ASSUME TasksAssumption == Tasks # {} /\ NoTask \notin Tasks

VARIABLES
    pc,           \* pc[t]: where task t is in wait_cancel_order
    entry,        \* the map value for the key: the leader whose Sender is
                  \* stored there, or NoTask when the key is Vacant
    shardLock,    \* the holder of the shard write lock, or NoTask
    sent,         \* sent[l]: leader l's tx.send(outcome) has happened
    closed,       \* closed[l]: every Sender of l's channel is dropped
    subscribedTo, \* subscribedTo[f]: the leader whose channel f subscribed to
    late,         \* late[f]: f subscribed after that channel's value was sent
    cancelled,    \* cancelled[t]: the caller's cancellation_token is cancelled
    result        \* result[t]: what wait_cancel_order returned to task t

vars == <<pc, entry, shardLock, sent, closed, subscribedTo, late,
          cancelled, result>>

PcValues == {"idle", "entry", "wait", "work", "send", "cleanup", "done"}

Results == {"none", "ok", "err"}

TaskOrNone == Tasks \cup {NoTask}

(* A task between the Vacant insert and the removal by its scope guard.    *)
InWork(t) == pc[t] \in {"work", "send", "cleanup"}

Init ==
    /\ pc = [t \in Tasks |-> "idle"]
    /\ entry = NoTask
    /\ shardLock = NoTask
    /\ sent = [t \in Tasks |-> FALSE]
    /\ closed = [t \in Tasks |-> FALSE]
    /\ subscribedTo = [t \in Tasks |-> NoTask]
    /\ late = [t \in Tasks |-> FALSE]
    /\ cancelled = [t \in Tasks |-> FALSE]
    /\ result = [t \in Tasks |-> "none"]

-----------------------------------------------------------------------------
(* The caller invokes wait_cancel_order (line 22).                         *)
Call(t) ==
    /\ pc[t] = "idle"
    /\ pc' = [pc EXCEPT ![t] = "entry"]
    /\ UNCHANGED <<entry, shardLock, sent, closed, subscribedTo, late,
                   cancelled, result>>

(* Mutant: the scope guard bound with `let _ = ...` is dropped at once,    *)
(* so the entry is removed as soon as it is inserted.                      *)
EnterVacant_GuardDropped(t) ==
    /\ pc[t] = "entry"
    /\ shardLock = NoTask
    /\ entry = NoTask
    /\ pc' = [pc EXCEPT ![t] = "work"]
    /\ UNCHANGED <<entry, shardLock, sent, closed, subscribedTo, late,
                   cancelled, result>>

(* Mutant: the Vacant test dropped -- a plain insert() that replaces the   *)
(* Sender of a running leader instead of entry().                          *)
EnterVacant_Overwrite(t) ==
    /\ pc[t] = "entry"
    /\ shardLock = NoTask
    /\ entry' = t
    /\ pc' = [pc EXCEPT ![t] = "work"]
    /\ UNCHANGED <<shardLock, sent, closed, subscribedTo, late,
                   cancelled, result>>

(* entry() finds the key Vacant: a channel is created and inserted, the    *)
(* RefMut returned by insert is dropped with the statement, and the task   *)
(* goes on to wait_cancel_order_work (lines 36, 46-53).                    *)
EnterVacant(t) ==
    /\ pc[t] = "entry"
    /\ shardLock = NoTask
    /\ entry = NoTask
    /\ entry' = t
    /\ pc' = [pc EXCEPT ![t] = "work"]
    /\ UNCHANGED <<shardLock, sent, closed, subscribedTo, late,
                   cancelled, result>>

(* entry() finds the key Occupied: the task subscribes to the stored       *)
(* Sender and keeps the OccupiedEntry, hence the shard lock, while it      *)
(* waits (lines 36-39).  A receiver only sees values sent after it         *)
(* subscribed.                                                             *)
EnterOccupied(t) ==
    /\ pc[t] = "entry"
    /\ shardLock = NoTask
    /\ entry # NoTask
    /\ shardLock' = t
    /\ subscribedTo' = [subscribedTo EXCEPT ![t] = entry]
    /\ late' = [late EXCEPT ![t] = sent[entry]]
    /\ pc' = [pc EXCEPT ![t] = "wait"]
    /\ UNCHANGED <<entry, sent, closed, cancelled, result>>

(* The select of lines 41-44 returns when rx.recv() yields (a value sent   *)
(* after subscribing, or the channel closed) or when the caller's token is *)
(* cancelled; the OccupiedEntry is dropped at the end of the arm and the   *)
(* function returns Ok (line 67).                                          *)
RecvReady(t) ==
    \/ closed[subscribedTo[t]]
    \/ sent[subscribedTo[t]] /\ ~late[t]

(* Mutant: the select without the when_cancelled() arm.                   *)
FollowerWake_NoCancelArm(t) ==
    /\ pc[t] = "wait"
    /\ RecvReady(t)
    /\ shardLock' = NoTask
    /\ pc' = [pc EXCEPT ![t] = "done"]
    /\ result' = [result EXCEPT ![t] = "ok"]
    /\ UNCHANGED <<entry, sent, closed, subscribedTo, late, cancelled>>

FollowerWake(t) ==
    /\ pc[t] = "wait"
    /\ RecvReady(t) \/ cancelled[t]
    /\ shardLock' = NoTask
    /\ pc' = [pc EXCEPT ![t] = "done"]
    /\ result' = [result EXCEPT ![t] = "ok"]
    /\ UNCHANGED <<entry, sent, closed, subscribedTo, late, cancelled>>

(* wait_cancel_order_work(...).await? finishes with Ok (lines 54-61).      *)
WorkOk(t) ==
    /\ pc[t] = "work"
    /\ pc' = [pc EXCEPT ![t] = "send"]
    /\ UNCHANGED <<entry, shardLock, sent, closed, subscribedTo, late,
                   cancelled, result>>

(* wait_cancel_order_work fails: the ? returns Err without sending, and    *)
(* the scope guard still runs (lines 48-50, 61).                           *)
WorkErr(t) ==
    /\ pc[t] = "work"
    /\ pc' = [pc EXCEPT ![t] = "cleanup"]
    /\ result' = [result EXCEPT ![t] = "err"]
    /\ UNCHANGED <<entry, shardLock, sent, closed, subscribedTo, late,
                   cancelled>>

(* tx.send(outcome) (line 63); the function will return Ok.                *)
Send(t) ==
    /\ pc[t] = "send"
    /\ sent' = [sent EXCEPT ![t] = TRUE]
    /\ pc' = [pc EXCEPT ![t] = "cleanup"]
    /\ result' = [result EXCEPT ![t] = "ok"]
    /\ UNCHANGED <<entry, shardLock, closed, subscribedTo, late, cancelled>>

(* Leaving the Vacant arm: the local tx is dropped, then the scope guard   *)
(* calls remove(), which blocks until it holds the shard lock, and drops   *)
(* the map's Sender, closing the channel (lines 48-50, 64).                *)
Cleanup(t) ==
    /\ pc[t] = "cleanup"
    /\ shardLock = NoTask
    /\ entry' = NoTask
    /\ closed' = [closed EXCEPT ![t] = TRUE]
    /\ pc' = [pc EXCEPT ![t] = "done"]
    /\ UNCHANGED <<shardLock, sent, subscribedTo, late, cancelled, result>>

(* The caller of wait_cancel_order cancels its token (environment).        *)
CancelToken(t) ==
    /\ pc[t] # "done"
    /\ ~cancelled[t]
    /\ cancelled' = [cancelled EXCEPT ![t] = TRUE]
    /\ UNCHANGED <<pc, entry, shardLock, sent, closed, subscribedTo, late,
                   result>>

Next ==
    \E t \in Tasks :
        \/ Call(t)
        \/ EnterVacant(t)
        \/ EnterOccupied(t)
        \/ FollowerWake(t)
        \/ WorkOk(t)
        \/ WorkErr(t)
        \/ Send(t)
        \/ Cleanup(t)
        \/ CancelToken(t)

(* tokio runs every ready task again eventually (weak fairness); a task    *)
(* blocked on the shard lock gets it if the lock is free infinitely often  *)
(* (strong fairness), which favours the code.  Calling and cancelling are  *)
(* the caller's choice and are not fair.                                   *)
Fairness ==
    \A t \in Tasks :
        /\ SF_vars(EnterVacant(t)) /\ SF_vars(EnterOccupied(t))
        /\ SF_vars(Cleanup(t))
        /\ WF_vars(FollowerWake(t))
        /\ WF_vars(WorkOk(t) \/ WorkErr(t)) /\ WF_vars(Send(t))

SafetySpec == Init /\ [][Next]_vars

Spec == SafetySpec /\ Fairness

-----------------------------------------------------------------------------
(* Type invariant.                                                          *)
TypeOK ==
    /\ pc \in [Tasks -> PcValues]
    /\ entry \in TaskOrNone
    /\ shardLock \in TaskOrNone
    /\ sent \in [Tasks -> BOOLEAN]
    /\ closed \in [Tasks -> BOOLEAN]
    /\ subscribedTo \in [Tasks -> TaskOrNone]
    /\ late \in [Tasks -> BOOLEAN]
    /\ cancelled \in [Tasks -> BOOLEAN]
    /\ result \in [Tasks -> Results]

(* The inductive invariant behind SingleFlight:                           *)
(* a task is between its Vacant insert and its guard's remove exactly when *)
(* the map holds its Sender, the shard lock is held exactly by a follower  *)
(* that waits, and a waiting follower is subscribed to the stored Sender.  *)
GateInv ==
    /\ TypeOK
    /\ \A t \in Tasks : InWork(t) <=> entry = t
    /\ \A t \in Tasks : pc[t] = "wait" <=> shardLock = t
    /\ \A t \in Tasks : pc[t] = "wait" => entry = subscribedTo[t] /\ entry # NoTask

(* What a task has returned: nothing until its work is decided or it wakes *)
(* as a follower; a closed channel belongs to a leader that has returned,  *)
(* and a sent value is the Ok of its leader.  With GateInv, the inductive  *)
(* invariant of the refinement proof.                                      *)
ResultInv ==
    \A t \in Tasks :
        /\ (pc[t] \in {"idle", "entry", "wait", "work", "send"}) = (result[t] = "none")
        /\ closed[t] => pc[t] = "done"
        /\ sent[t] => result[t] = "ok"

(* Single flight (spec 4.3 guarantee (a)): at no time do two tasks run     *)
(* wait_cancel_order_work, send, or clean up for the same ClientOrderId.   *)
SingleFlight ==
    \A t, u \in Tasks : InWork(t) /\ InWork(u) => t = u

(* Spec 8: once one call completes, every concurrent call for the same     *)
(* order returns -- even when no caller cancels its token.                 *)
CallersReturn ==
    \A t \in Tasks : pc[t] = "entry" ~> pc[t] = "done"

(* Cancellation is honoured (spec 5): if every caller eventually cancels   *)
(* its token, every call of wait_cancel_order returns, the leader's        *)
(* blocking remove() included.                                             *)
CancellationUnblocksAll ==
    (\A t \in Tasks : <>cancelled[t]) =>
        \A t \in Tasks : pc[t] = "entry" ~> pc[t] = "done"

(* Spec 8 and 9: once a leader has sent its outcome, it and every caller  *)
(* that subscribed to its channel return, whether or not a token is        *)
(* cancelled ("followers subscribe before the leader may publish").        *)
SentOutcomeReleasesAll ==
    \A l \in Tasks :
        sent[l] ~> /\ pc[l] = "done"
                  /\ \A f \in Tasks : subscribedTo[f] = l => pc[f] = "done"

-----------------------------------------------------------------------------
(* The refinement mapping to SingleFlightGate: a task is queued while it   *)
(* waits for entry(), leads from the Vacant insert until its guard's       *)
(* remove, follows while it awaits in the Occupied arm; the leader is the  *)
(* task whose Sender the map holds, and a follower's leader is the one it  *)
(* subscribed to.                                                          *)
AbsStateOfPc ==
    [idle |-> "idle", entry |-> "queued", wait |-> "following",
     work |-> "leading", send |-> "leading", cleanup |-> "leading",
     done |-> "done"]

AbsState == [t \in Tasks |-> AbsStateOfPc[pc[t]]]

AbsGate == INSTANCE SingleFlightGate
              WITH state <- AbsState, leader <- entry, joined <- subscribedTo,
                   outcome <- result

(* The DashMap, its shard lock and the broadcast channel implement the     *)
(* single-flight promise: one leader at a time, a follower returns only    *)
(* after its leader decided an outcome or its own token fired, and a new   *)
(* leader only after the previous one's scope guard removed the entry.     *)
ImplementsSingleFlightGate == AbsGate!Spec

=============================================================================
