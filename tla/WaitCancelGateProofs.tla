------------------------ MODULE WaitCancelGateProofs ------------------------
(***************************************************************************)
(* Proofs, for every set of callers, that the gate of wait_cancel_order    *)
(* (wait_cancel.rs lines 22-68) is single-flight and that a waiting        *)
(* follower's channel stays in the map.  The argument is the inductive     *)
(* invariant GateInv of WaitCancelGate: the map entry names exactly the    *)
(* task between its Vacant insert and its guard's remove, and the shard    *)
(* lock is held exactly by the waiting follower, which is subscribed to    *)
(* the stored Sender.                                                      *)
(***************************************************************************)
EXTENDS WaitCancelGate, TLAPS

(* The initial state of the gate (an empty map, a free lock, every task    *)
(* idle) satisfies the inductive invariant.                                *)
LEMMA InitGateInv == Init => GateInv
BY TasksAssumption DEF Init, GateInv, TypeOK, PcValues, TaskOrNone, Results,
                       InWork

(* Every step of a caller -- entering the gate, waking, working, sending,  *)
(* removing the entry, cancelling its token -- preserves the invariant.    *)
LEMMA NextGateInv == GateInv /\ [Next]_vars => GateInv'
<1> SUFFICES ASSUME GateInv, [Next]_vars PROVE GateInv'
  OBVIOUS
<1>. USE TasksAssumption DEF GateInv, TypeOK, PcValues, TaskOrNone, Results,
                             InWork
<1>1. ASSUME NEW t \in Tasks, Call(t) PROVE GateInv'
  BY <1>1 DEF Call
<1>2. ASSUME NEW t \in Tasks, EnterVacant(t) PROVE GateInv'
  \* entry = NoTask: no task works and, by the last conjunct, none waits.
  <2>1. \A u \in Tasks : ~InWork(u) /\ pc[u] # "wait"
    BY <1>2 DEF EnterVacant
  <2>. QED
    BY <1>2, <2>1 DEF EnterVacant
<1>3. ASSUME NEW t \in Tasks, EnterOccupied(t) PROVE GateInv'
  <2>1. entry \in Tasks
    BY <1>3 DEF EnterOccupied
  <2>2. \A u \in Tasks : pc[u] # "wait"
    BY <1>3 DEF EnterOccupied
  <2>. QED
    BY <1>3, <2>1, <2>2 DEF EnterOccupied
<1>4. ASSUME NEW t \in Tasks, FollowerWake(t) PROVE GateInv'
  <2>1. shardLock = t
    BY <1>4 DEF FollowerWake
  <2>. QED
    BY <1>4, <2>1 DEF FollowerWake
<1>5. ASSUME NEW t \in Tasks, WorkOk(t) PROVE GateInv'
  BY <1>5 DEF WorkOk
<1>6. ASSUME NEW t \in Tasks, WorkErr(t) PROVE GateInv'
  BY <1>6 DEF WorkErr
<1>7. ASSUME NEW t \in Tasks, Send(t) PROVE GateInv'
  BY <1>7 DEF Send
<1>8. ASSUME NEW t \in Tasks, Cleanup(t) PROVE GateInv'
  \* The guard holds the entry, and with the lock free nobody waits.
  <2>1. entry = t /\ \A u \in Tasks : pc[u] # "wait"
    BY <1>8 DEF Cleanup
  <2>. QED
    BY <1>8, <2>1 DEF Cleanup
<1>9. ASSUME NEW t \in Tasks, CancelToken(t) PROVE GateInv'
  BY <1>9 DEF CancelToken
<1>10. CASE UNCHANGED vars
  BY <1>10 DEF vars
<1>. QED
  BY <1>1, <1>2, <1>3, <1>4, <1>5, <1>6, <1>7, <1>8, <1>9, <1>10 DEF Next

(* GateInv holds in every reachable state of the gate, for any callers.    *)
THEOREM GateInvariant == SafetySpec => []GateInv
BY InitGateInv, NextGateInv, PTL DEF SafetySpec

(* Single flight of wait_cancel_order_work (spec 4.3 (a)), for any number  *)
(* of callers: the Vacant arm of entry() admits one leader at a time, and  *)
(* a new one only after the previous one's scope guard removed the entry.  *)
THEOREM SingleFlightHolds == SafetySpec => []SingleFlight
<1>1. GateInv => SingleFlight
  BY DEF GateInv, SingleFlight
<1>. QED
  BY <1>1, GateInvariant, PTL

(* The fair specification has the same safety properties.                  *)
THEOREM SpecSingleFlight == Spec => []SingleFlight
BY SingleFlightHolds DEF Spec

-----------------------------------------------------------------------------
(* The refinement of SingleFlightGate.  Its argument: GateInv says the map *)
(* entry names the one task between its insert and its remove, and         *)
(* ResultInv that a task's result is set exactly when it has decided or    *)
(* woken, so a follower woken by a sent value or a closed channel finds    *)
(* its leader's outcome decided.                                           *)
RefInv == GateInv /\ ResultInv

(* Nothing has been returned in the initial state.                         *)
LEMMA InitResultInv == Init => ResultInv
BY DEF Init, ResultInv

(* Results are set once, by the step that decides or wakes, and only a     *)
(* returned leader's channel is closed.                                    *)
LEMMA NextRefInv == RefInv /\ [Next]_vars => RefInv'
<1> SUFFICES ASSUME RefInv, [Next]_vars PROVE RefInv'
  OBVIOUS
<1>1. GateInv'
  BY NextGateInv DEF RefInv
<1>2. ResultInv'
  <2>. USE DEF RefInv, GateInv, TypeOK, ResultInv, PcValues, Results
  <2>1. ASSUME NEW t \in Tasks, Call(t) PROVE ResultInv'
    BY <2>1 DEF Call
  <2>2. ASSUME NEW t \in Tasks, EnterVacant(t) PROVE ResultInv'
    BY <2>2 DEF EnterVacant
  <2>3. ASSUME NEW t \in Tasks, EnterOccupied(t) PROVE ResultInv'
    BY <2>3 DEF EnterOccupied
  <2>4. ASSUME NEW t \in Tasks, FollowerWake(t) PROVE ResultInv'
    BY <2>4 DEF FollowerWake
  <2>5. ASSUME NEW t \in Tasks, WorkOk(t) PROVE ResultInv'
    BY <2>5 DEF WorkOk
  <2>6. ASSUME NEW t \in Tasks, WorkErr(t) PROVE ResultInv'
    BY <2>6 DEF WorkErr
  <2>7. ASSUME NEW t \in Tasks, Send(t) PROVE ResultInv'
    BY <2>7 DEF Send
  <2>8. ASSUME NEW t \in Tasks, Cleanup(t) PROVE ResultInv'
    BY <2>8 DEF Cleanup
  <2>9. ASSUME NEW t \in Tasks, CancelToken(t) PROVE ResultInv'
    BY <2>9 DEF CancelToken
  <2>10. CASE UNCHANGED vars
    BY <2>10 DEF vars
  <2>. QED
    BY <2>1, <2>2, <2>3, <2>4, <2>5, <2>6, <2>7, <2>8, <2>9, <2>10 DEF Next
<1>. QED
  BY <1>1, <1>2 DEF RefInv

(* A step that moves one task's pc moves that task's abstract state alone.  *)
LEMMA AbsStateUpdate ==
    ASSUME TypeOK, NEW t \in Tasks, NEW v \in PcValues,
           pc' = [pc EXCEPT ![t] = v]
    PROVE  AbsState' = [AbsState EXCEPT ![t] = AbsStateOfPc[v]]
<1>1. \A u \in Tasks : AbsState'[u] = IF u = t THEN AbsStateOfPc[v] ELSE AbsState[u]
  BY DEF AbsState, TypeOK
<1>. QED
  BY <1>1 DEF AbsState

(* Each step of the gate is a step of SingleFlightGate under the mapping,   *)
(* or leaves the mapped state unchanged (WorkOk: work and send both lead). *)
LEMMA NextRefines == RefInv /\ [Next]_vars => [AbsGate!Next]_AbsGate!vars
<1> SUFFICES ASSUME RefInv, [Next]_vars PROVE [AbsGate!Next]_AbsGate!vars
  OBVIOUS
<1>. USE DEF RefInv, GateInv, TypeOK, ResultInv, PcValues, Results, TaskOrNone
<1>1. ASSUME NEW t \in Tasks, Call(t) PROVE [AbsGate!Next]_AbsGate!vars
  <2>1. AbsState' = [AbsState EXCEPT ![t] = AbsStateOfPc["entry"]]
    BY <1>1, AbsStateUpdate DEF Call, PcValues
  <2>2. AbsState' = [AbsState EXCEPT ![t] = "queued"] /\ AbsState[t] = "idle"
    BY <1>1, <2>1 DEF Call, AbsState, AbsStateOfPc
  <2>. QED
    BY <1>1, <2>2 DEF Call, AbsGate!Next, AbsGate!Arrive
<1>2. ASSUME NEW t \in Tasks, EnterVacant(t) PROVE [AbsGate!Next]_AbsGate!vars
  <2>1. AbsState' = [AbsState EXCEPT ![t] = AbsStateOfPc["work"]]
    BY <1>2, AbsStateUpdate DEF EnterVacant, PcValues
  <2>2. AbsState' = [AbsState EXCEPT ![t] = "leading"] /\ AbsState[t] = "queued"
    BY <1>2, <2>1 DEF EnterVacant, AbsState, AbsStateOfPc
  <2>. QED
    BY <1>2, <2>2 DEF EnterVacant, AbsGate!Next, AbsGate!Lead
<1>3. ASSUME NEW t \in Tasks, EnterOccupied(t) PROVE [AbsGate!Next]_AbsGate!vars
  <2>1. AbsState' = [AbsState EXCEPT ![t] = AbsStateOfPc["wait"]]
    BY <1>3, AbsStateUpdate DEF EnterOccupied, PcValues
  <2>2. AbsState' = [AbsState EXCEPT ![t] = "following"] /\ AbsState[t] = "queued"
    BY <1>3, <2>1 DEF EnterOccupied, AbsState, AbsStateOfPc
  <2>. QED
    BY <1>3, <2>2 DEF EnterOccupied, AbsGate!Next, AbsGate!Follow
<1>4. ASSUME NEW t \in Tasks, FollowerWake(t) PROVE [AbsGate!Next]_AbsGate!vars
  <2>1. AbsState' = [AbsState EXCEPT ![t] = AbsStateOfPc["done"]]
    BY <1>4, AbsStateUpdate DEF FollowerWake, PcValues
  <2>2. AbsState' = [AbsState EXCEPT ![t] = "done"] /\ AbsState[t] = "following"
    BY <1>4, <2>1 DEF FollowerWake, AbsState, AbsStateOfPc
  \* The follower's leader has decided: its value was sent or its channel
  \* closed after it returned.
  <2>3. result[subscribedTo[t]] # "none" \/ cancelled[t]
    <3>1. subscribedTo[t] \in Tasks
      BY <1>4 DEF FollowerWake
    <3>. QED
      BY <1>4, <3>1 DEF FollowerWake, RecvReady
  <2>. QED
    BY <1>4, <2>2, <2>3 DEF FollowerWake, AbsGate!Next, AbsGate!Release
<1>5. ASSUME NEW t \in Tasks, WorkOk(t) PROVE [AbsGate!Next]_AbsGate!vars
  <2>1. AbsState' = [AbsState EXCEPT ![t] = AbsStateOfPc["send"]]
    BY <1>5, AbsStateUpdate DEF WorkOk, PcValues
  <2>2. AbsState' = AbsState /\ AbsState[t] = "leading"
    BY <1>5, <2>1 DEF WorkOk, AbsState, AbsStateOfPc
  <2>. QED
    BY <1>5, <2>2 DEF WorkOk, AbsGate!vars
<1>6. ASSUME NEW t \in Tasks, WorkErr(t) PROVE [AbsGate!Next]_AbsGate!vars
  <2>1. AbsState' = [AbsState EXCEPT ![t] = AbsStateOfPc["cleanup"]]
    BY <1>6, AbsStateUpdate DEF WorkErr, PcValues
  <2>2. AbsState' = AbsState /\ AbsState[t] = "leading"
    BY <1>6, <2>1 DEF WorkErr, AbsState, AbsStateOfPc
  <2>. QED
    BY <1>6, <2>2 DEF WorkErr, AbsGate!Next, AbsGate!Decide
<1>7. ASSUME NEW t \in Tasks, Send(t) PROVE [AbsGate!Next]_AbsGate!vars
  <2>1. AbsState' = [AbsState EXCEPT ![t] = AbsStateOfPc["cleanup"]]
    BY <1>7, AbsStateUpdate DEF Send, PcValues
  <2>2. AbsState' = AbsState /\ AbsState[t] = "leading"
    BY <1>7, <2>1 DEF Send, AbsState, AbsStateOfPc
  <2>. QED
    BY <1>7, <2>2 DEF Send, AbsGate!Next, AbsGate!Decide
<1>8. ASSUME NEW t \in Tasks, Cleanup(t) PROVE [AbsGate!Next]_AbsGate!vars
  <2>1. AbsState' = [AbsState EXCEPT ![t] = AbsStateOfPc["done"]]
    BY <1>8, AbsStateUpdate DEF Cleanup, PcValues
  <2>2. AbsState' = [AbsState EXCEPT ![t] = "done"] /\ AbsState[t] = "leading"
    BY <1>8, <2>1 DEF Cleanup, AbsState, AbsStateOfPc
  <2>. QED
    BY <1>8, <2>2 DEF Cleanup, AbsGate!Next, AbsGate!Finish
<1>9. ASSUME NEW t \in Tasks, CancelToken(t) PROVE [AbsGate!Next]_AbsGate!vars
  <2>1. AbsState' = AbsState /\ AbsState[t] # "done"
    BY <1>9 DEF CancelToken, AbsState, AbsStateOfPc
  <2>. QED
    BY <1>9, <2>1 DEF CancelToken, AbsGate!Next, AbsGate!Cancel
<1>10. CASE UNCHANGED vars
  BY <1>10 DEF vars, AbsGate!vars, AbsState
<1>. QED
  BY <1>1, <1>2, <1>3, <1>4, <1>5, <1>6, <1>7, <1>8, <1>9, <1>10 DEF Next

(* The gate of wait_cancel_order implements SingleFlightGate for any set   *)
(* of callers: the DashMap entry, its shard lock and the broadcast channel *)
(* admit one leader at a time and release a follower only after its       *)
(* leader decided or its own token fired.                                  *)
THEOREM GateRefinesSingleFlight == SafetySpec => ImplementsSingleFlightGate
<1>1. SafetySpec => []RefInv
  BY InitGateInv, InitResultInv, NextRefInv, PTL DEF SafetySpec, RefInv
<1>2. Init => AbsGate!Init
  BY DEF Init, AbsGate!Init, AbsState, AbsStateOfPc
<1>. QED
  BY <1>1, <1>2, NextRefines, PTL
     DEF SafetySpec, ImplementsSingleFlightGate, AbsGate!Spec

=============================================================================
