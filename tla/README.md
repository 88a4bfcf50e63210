# TLA+ verification of the order cancellation coordinator and statistics

This directory holds TLA+ models of `src/src/core/exchanges/general/order/wait_cancel.rs`
(the Cancel Coordinator, `Exchange::wait_cancel_order`) and
`src/src/core/statistic_service.rs` (the Statistics Aggregator), separately and
composed. It has TLC
configurations that model-check them on small instances and TLAPS proofs of
the gate's safety and of its refinement of an abstract single-flight
specification for every number of callers, of the statistics counters, of
the leader work's typing, single cancel event, missed-fill check and
finished-status stability, and of the canceled count of the two composed. `PROJECT.json` lists the
components, runs, mutants, source map, findings, hazards and theorems.

## The system

- **Single-flight gate** (`wait_cancel_order`, lines 22-68). The gate is a
  `DashMap<ClientOrderId, broadcast::Sender>`, and `entry()` holds the key's
  shard write lock.
  - The first caller finds the key Vacant. It inserts a channel and becomes
    the *leader*.
  - The leader runs `wait_cancel_order_work` and sends the outcome if the work
    succeeds. A scope guard then removes the entry. That removal needs the
    shard lock and drops the last Sender, which closes the channel.
  - Later callers find the key Occupied and become *followers*. A follower
    subscribes, then awaits `rx.recv()` or its token's cancellation *inside
    the match arm*, so it keeps the OccupiedEntry and its lock while it waits.
- **Leader work** (`wait_cancel_order_work`, `order_cancelled`,
  `check_order_cancellation_status`, `has_missed_fill`, lines 70-406). The
  leader does the following in order:
  - waits for a Creating order to be created;
  - returns if the order is finished;
  - test-and-sets the `is_canceling_from_wait_cancel_order` latch;
  - loops while the caller's token is not cancelled. Each iteration races the
    cancel request, when the policy allows it, against a 10 s timer. It then
    dispatches on the REST error: ParsingError polls `get_order_info`,
    PendingError sleeps, and OrderCompleted waits for the order to finish;
  - after the loop, runs `check_order_fills` under the condition of lines
    182-191;
  - finally publishes the `CancelOrderSucceeded` event that the exchange hook
    deferred to it.
- **Environment** (not under `src/`, modelled from `spec.md` sections 3, 4.1
  and 6):
  - the order handle and its hooks (`handle_cancel_order_succeeded`,
    `handle_cancel_order_failed`, `check_order_fills`, the fill handler);
  - the venue;
  - a WebSocket feed that may lose fills;
  - the caller's cancellation token.
- **Statistics Aggregator** (`statistic_service.rs`). One task, spawned by
  `StatisticEventHandler::new`, receives the global event stream from a tokio
  broadcast receiver. For each order event it updates the per-account
  counters (`opened`, `canceled`, `partially`, `fully`) and the
  `partially_filled_orders` set. Each of those is behind its own lock.
- **How they interact.** The coordinator, the exchange hooks and the fill
  handler publish order events on the channel that the aggregator reads.

## Modules

| Module | Models | State | Actions |
|---|---|---|---|
| `WaitCancelGate` | lines 22-68, one order, a set `Tasks` of callers | `pc`, `entry` (which leader's Sender the map holds), `shardLock`, `sent`, `closed`, `subscribedTo`, `late` (subscribed after the send), `cancelled`, `result` | `Call`, `EnterVacant`, `EnterOccupied`, `FollowerWake` (the select of lines 41-44), `WorkOk`/`WorkErr` (line 61), `Send` (63), `Cleanup` (the guard, 48-50), `CancelToken` |
| `WaitCancelWork` | lines 70-406 for the leader of one order | order status, fills and internal_props, published `events`; venue status, venue fills, a cancel request in flight; leader `pc`, `attempt`, `polls`, `result`, token, policy, `check_order_fills` flag | one action per await-delimited step: `Start`, `OrderCreated`, `CheckFinished`, `Latch`, `StartAttempt`, `LoopExit`, `CancelArm`, `TimerArm`, `PendingSleep`, `OrderFinishFuture`, `IterEnd`, `PollStart`, `PollAnswer`, `AfterLoop`, `FillCheck`, `FinalEvent`; environment `CreateAck`, `VenueFill`, `VenueCancel`, `VenueLoseCancel`, `WsFill`, `WsCancel`, `CancelToken` |
| `Statistics` | `statistic_service.rs`: orders, accounts, a channel of `Capacity` | `stream` (every event published), `next` (the receiver's position), `handler` (running or stopped), `stats`, `partial`, `skipped` | `Receive` (one loop iteration with `handle_event` and the `StatisticService` method it calls), `RecvLagged` (the `?` of line 271), `RegisterSkippedEvent`, `Publish` (environment) |
| `CancelStats` | the two together, for one order; it EXTENDS `WaitCancelWork` (so its own initial predicate, next-state relation and specification are `CSInit`, `CSNext`, `CSSpec`) and instantiates `Statistics` | the variables of both | `WaitCancelWork`'s actions, and the handler's steps with the stream being the order's `events` |
| `WaitCancel` | `wait_cancel_order` as a whole: several calls on one order, successive and concurrent | the gate's variables (`gpc`, `gresult`, ...), the order's and the venue's, and the current leader's work (`wpc`, `wresult`, ...) | the gate's actions; `EnterVacant`, which starts the work afresh with its own `check_order_fills`; `WorkStep`, a step of `WaitCancelWork`'s leader run with the leader's token (`LeaderToken`); `WorkReturns` (line 61); the environment of `WaitCancelWork` |
| `SingleFlightGate` | what the gate promises (spec 4.3 (a), 7, 8), with no map, lock or channel | `state` (idle, queued, leading, following, done), `leader`, `joined`, `outcome`, `cancelled` | `Arrive`, `Lead`, `Follow`, `Decide`, `Finish`, `Release`, `Cancel` |
| `WaitCancelGateProofs` | TLAPS proofs about `WaitCancelGate`, including its refinement of `SingleFlightGate` | | |
| `WaitCancelWorkProofs` | TLAPS proofs about `WaitCancelWork` | | |
| `CancelStatsProofs` | TLAPS proof about `CancelStats`, reusing the lemmas of `WaitCancelWorkProofs` | | |
| `MCWaitCancelGate`, `MCWaitCancelWork`, `MCStatistics`, `MCCancelStats`, `MCWaitCancel` | TLC instances | | |

Modelling choices:

- Amounts are whole fill units from 0 to `MaxFill`.
- `None` of `filled_amount_after_cancellation` is `NoAmount` (-1).
- Timers and durations are nondeterministic steps.
- The leader's work is a single success-or-failure step in the gate model.
  It is modelled in full in `WaitCancelWork`.
- A cancel request whose future is built but not polled is never sent. This
  is the guarded select arm under `FallbackOnly`. A request that was sent
  may still reach the venue after the timer arm dropped its future
  (`cancelInFlight`).

## Runs

| Run | Checks | Result |
|---|---|---|
| `gate_safety` | `SingleFlight`, its inductive invariant `GateInv` (which also ties the shard lock to the waiting follower, the fact the deadlock runs rest on), and `ImplementsSingleFlightGate`: the gate implements `SingleFlightGate` under the refinement mapping `AbsState` (entry/wait/work... mapped to queued/following/leading), `entry` as the leader, `subscribedTo` as the joined leader. Three callers, every interleaving, tokens cancelled at any time, task symmetry. | passes |
| `gate_cancel` | `CancellationUnblocksAll`: if every caller eventually cancels, every call returns. Two callers, under fairness. | passes |
| `gate_hang` | `CallersReturn`: once one call completes, all return (spec 8). | **violated**: the leader fails, so nothing is sent. The follower keeps the shard lock, and the leader's `remove()` blocks on it. |
| `gate_late` | `SentOutcomeReleasesAll`: after a send, the leader and its subscribers return (spec 9). | **violated**: a follower subscribes between `send` and `remove`, misses the value and holds the lock forever. |
| `work` | `NoMissedFill`, `CancelEventOnce`, its inductive strengthening `CancelEventInv`, and `TokenEndsWork`: once the caller's token is cancelled, the work ends (through the `while` test at line 108, the poll loop's test at line 269 and the finish future at lines 246-253), under weak fairness of the leader. `MaxFill = 2`, two attempts, two polls, all three policies. | passes (about 29,000 states) |
| `work_fillcheck` | `FillCheckAsSpecified`: the fill check is selected only under spec 4.3 step 6's grouping. | **violated**: Rust's precedence differs from that grouping (open question (b) in spec 9). |
| `stats` | `PartialCountsMatch`: each account's `partially` counter equals the number of its orders in `partially_filled_orders`. Three orders over two accounts, any stream of up to three events. | passes (70,324 states) |
| `stats_lag` | `EveryEventHandled`: every published event is eventually handled (spec 4.4). | **violated**: a receiver more than `Capacity` behind gets `Lagged`, and the `?` ends the loop for good. |
| `cancelstats` | `CanceledCountedOnlyIfCanceled`: with the coordinator's events as the stream, the order is counted canceled at most once, and only when it is Canceled. | passes (80,858 states) |
| `cancelstats_roundtrip` | `CanceledOrderCounted`: a Canceled order is eventually counted (spec 8 round trip), unless the leader is only stopped by the model's `MaxAttempts` bound at line 108 (`AttemptBoundHit`), where the code would go on. | **violated**: the hook defers the event because the latch is set. The cancel request then fails (line 134), so lines 202-211 never run and no event is published. |
| `waitcancel_latch` | `LeaderOkOnlyIfFinished`: a leader whose token was never cancelled returns Ok only for a finished order (spec 7). | **violated**: the first call's cancel request fails with a transport error after the latch (line 88) is set. The order is still Created. A second call reads the latch, returns at line 99 with Ok, and nothing cancels the order. |

Why these bounds are enough:

- Three callers give a leader, a follower that subscribes in time and a
  follower that subscribes late, in either order. The two liveness runs use
  two callers, which is enough for the deadlock.
- `MaxFill = 2` gives a partial fill followed by completion.
- Two attempts give a retry after a timeout or an error.
- Two polls give a repeated poll.
- `MCWaitCancel` uses two callers, one fill unit, one attempt and one poll.
  That is enough for one call to end and a second to start on the same
  order, or for the two to overlap.
- In `MCStatistics`, capacity 2 with three events lets the receiver lag by
  one.
- `MCCancelStats` uses capacity 8, more than one order's events, so its
  findings are not the lag.

Every mutant in `PROJECT.json` (a dropped guard, a missing select arm, an overwriting
insert, the spec's grouping of the fill-check condition, the
final event published without the hook's flag) is caught by its run.

### Fairness

tokio eventually polls every ready task again, which justifies weak fairness
of `FollowerWake`, the work step and `Send`. A task blocked on the shard lock
gets it if the lock is free infinitely often, which is strong fairness of the
two `Enter` actions and `Cleanup`. This assumption favours the code, and the
violations happen under it anyway. Calling and cancelling are the caller's
choice and are not fair. In `WaitCancelWork` the leader (`FairSpec`, weak
fairness of `Leader`) is one tokio task that is polled again whenever one of
its steps is ready; the venue, the WebSocket feed and the caller are not fair.

Liveness runs use two further fairness conditions:

- In `Statistics`, the handler task is weakly fair. Its loop is always
  polled again while an event is ready.
- In `CancelStats`, both the leader's steps and the handler's steps are
  weakly fair.

The venue, the WebSocket feed and the publishers are never fair.

## Proofs (TLAPS)

The proofs hold for every set `Tasks` of callers, under `TasksAssumption`
(`Tasks` is non-empty and `NoTask` is not a task).

- `GateInvariant`: `SafetySpec => []GateInv`.
- `SingleFlightHolds`: `SafetySpec => []SingleFlight`.
- `SpecSingleFlight`: the same for the fair `Spec`.
- `GateRefinesSingleFlight`: `SafetySpec => ImplementsSingleFlightGate`,
  i.e. every behaviour of the gate is a behaviour of `SingleFlightGate`
  under the mapping `AbsState`, `entry`, `subscribedTo`, `result`.

`GateInv` is the inductive strengthening. It combines three facts with the
type invariant:

- a task is in work, send or cleanup exactly when the map holds its Sender;
- the shard lock is held exactly by the waiting follower;
- a waiting follower is subscribed to the stored Sender.

`SingleFlight` alone is not inductive. The first fact is what stops a second
Vacant insert. The second and third are what stop the guard's removal while a
follower waits. `NextGateInv` has one step per action. TLC also checks
`GateInv` as an invariant in `gate_safety`.

The refinement proof uses `RefInv == GateInv /\ ResultInv`. `ResultInv`
says a task has no result exactly while it has not passed its work, and that
a closed or sent channel belongs to a task that is done or succeeded. It is
what makes the abstract `Decide` guard (no outcome yet) and `Release` guard
(the joined leader has decided) true when the concrete leader sends and the
follower wakes. `NextRefines` shows that every step maps to an abstract step
or a stutter, one case per action; the lemma `AbsStateUpdate` rewrites the
mapped `state` after a change of `pc`.

`WaitCancelWorkProofs` proves, for every `MaxFill`, `MaxAttempts`,
`MaxPolls` and set of policies (`BoundsAssumption`, `PoliciesAssumption`):

- `TypeCorrect`: `Spec => []TypeOK`, one case per action and per branch of
  the hooks.
- `CancelEventOnceHolds`: `Spec => []CancelEventOnce`. `CancelEventOnce` is
  not inductive: the end of the work publishes the deferred event when
  `canceled_not_from_wait_cancel_order` is set, so the invariant must say
  that the flag is only set on a Canceled order with no event yet while the
  leader runs (`CancelEventInv`, stated over `CancelAt`, the positions of
  cancel events). The lemmas `AppendCancel` and `AppendOther` give those
  positions after a publication; `SucceededEvC`, `FailedEvC`, `FillsEvC`
  cover the hooks, which every step that changes the order goes through.
  `CancelEventInvHolds` states the strengthening itself.
- `NoMissedFillHolds`: `Spec => []NoMissedFill`, through the inductive
  invariant `NoMissedFillInv` (the lemma `NoMissedFillInvHolds`). `NoMissedFill` only
  speaks of the final event, so it needs the facts that make the fill check
  of lines 182-191 sufficient: the order never holds more fills than the
  venue made; an Open venue has not filled the whole order, so a finished
  order's venue fills no more; a Completed order holds every unit; a
  Canceled order carries its source, and a Rest source is always
  OrderNotFound with the work past the loop; and the loop is left with the
  token intact only for a finished order. With these, the step from
  `after_loop` that skips the fill check only does so for a Completed order
  (every source that confirms a cancellation selects the check), and the
  fill check brings `filled` up to `venueFilled`.
- `NextGrows`: every step extends the published events (`Grows`), the fact
  the statistics proof needs.

`CancelStatsProofs` proves `CanceledCountedOnlyIfCanceledHolds`:
`CSSpec => []CanceledCountedOnlyIfCanceled`, for every instance including
every channel capacity. The inductive invariant `CSInv` says that the
canceled counter is 1 exactly when the receiver has passed a
`CancelOrderSucceeded` position of the events (`CancelHandled`), and adds
the coordinator's invariant `EvC`. A step of the coordinator keeps the
passed positions because the events only grow (`NextGrows`,
`GrowsCancelAt`); a step of the handler on a cancel event raises the
counter from 0 because `EvC` allows one cancel position only. `EvC` then
gives both conjuncts of the property. `CancelStats` extends
`WaitCancelWork` rather than instantiating it, because tlapm cannot use a
theorem through `INSTANCE`; the lemmas of `WaitCancelWorkProofs` are cited
directly. TLC also checked `CSInv` on the `cancelstats` instance.

`StatisticsProofs` proves `PartialCountsMatchHolds`:
`Spec => []PartialCountsMatch` in `Statistics`. The assumption is
`StatisticsAssumption`: the set of orders is finite, and every order has an
account. The proof covers every channel capacity and every event stream.

- The inductive invariant is `TypeOK /\ PartialCountsMatch`.
- `ReceiveIInv` takes one case per event type. In each case, the event's
  account has its counter and its number of orders in the set changed by the
  same amount: +1, -1 or 0.
- `OfAccountCard` gives those set sizes from the `FS_AddElement`,
  `FS_RemoveElement` and `FS_Subset` lemmas of FiniteSetTheorems.
- The underflow branch of `decrement_partially_filled_orders` (lines 48-49)
  is shown unreachable along the way. A decrement happens only when the order
  is in the set, so the counter is at least 1.

Only TLC checks the following:

- liveness (`CancellationUnblocksAll`), because it needs fairness and ENABLED,
  which are beyond the prover;
- liveness of `WaitCancelWork` (`TokenEndsWork`) and of `CancelStats`
  (`CanceledOrderCounted`), for the same reason;
- the properties of the violation runs, which are counterexamples, and
  `WaitCancel`'s `LeaderOkOnlyIfFinished`, also violated.

## Not modelled

- `summary_filled_amount` and `summary_commission` are sums that no property
  tells apart, so they are left out.
- The channel closing (`RecvError::Closed`) is left out, because the
  exchanges keep their Senders for the process's lifetime.
- Logging, the `trace!` and `info!` text, `Utc::now()` stamps (line 277) and
  `pre_reservation_group_id`, which is only passed through, are left out.
- Multiple orders are left out because keys of the map are independent.

## Plan

1. Done: `Statistics` and `CancelStats`.
2. Done: `WaitCancel`, the gate and the work composed.
3. Done: the TLAPS proof of `PartialCountsMatch`.
4. Done: `SingleFlightGate`, refined by `WaitCancelGate`, checked and proved.
5. Done: proofs for `WaitCancelWork` (type correctness, `CancelEventOnce`).
6. Done: proofs of `NoMissedFill` and `CanceledCountedOnlyIfCanceled`.
