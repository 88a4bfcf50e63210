--------------------------- MODULE SingleFlightGate ---------------------------
(***************************************************************************)
(* What the gate of wait_cancel_order promises (spec 4.3 (a), 7, 8), with  *)
(* no map, lock or channel: callers for one order queue up; one of them    *)
(* at a time leads (runs the work and decides an outcome, Ok or Err); a    *)
(* caller that arrives while a leader is active follows it and returns Ok  *)
(* once that leader has decided, or earlier if its own token is cancelled. *)
(* A leader's turn ends when it finishes; only then can another lead.      *)
(* WaitCancelGate implements this specification (its property             *)
(* ImplementsSingleFlightGate).                                            *)
(***************************************************************************)
CONSTANTS Tasks, NoTask

VARIABLES
    state,      \* state[t]: "idle", "queued", "leading", "following", "done"
    leader,     \* the task whose turn it is, or NoTask
    joined,     \* joined[f]: the leader follower f waits on
    outcome,    \* outcome[t]: "none", or what the call returned
    cancelled   \* cancelled[t]: the caller's token is cancelled

vars == <<state, leader, joined, outcome, cancelled>>

Init ==
    /\ state = [t \in Tasks |-> "idle"]
    /\ leader = NoTask
    /\ joined = [t \in Tasks |-> NoTask]
    /\ outcome = [t \in Tasks |-> "none"]
    /\ cancelled = [t \in Tasks |-> FALSE]

Arrive(t) ==
    /\ state[t] = "idle"
    /\ state' = [state EXCEPT ![t] = "queued"]
    /\ UNCHANGED <<leader, joined, outcome, cancelled>>

(* No turn is active: t takes it.                                          *)
Lead(t) ==
    /\ state[t] = "queued"
    /\ leader = NoTask
    /\ leader' = t
    /\ state' = [state EXCEPT ![t] = "leading"]
    /\ UNCHANGED <<joined, outcome, cancelled>>

(* A turn is active: t waits on its leader.                                *)
Follow(t) ==
    /\ state[t] = "queued"
    /\ leader # NoTask
    /\ joined' = [joined EXCEPT ![t] = leader]
    /\ state' = [state EXCEPT ![t] = "following"]
    /\ UNCHANGED <<leader, outcome, cancelled>>

(* The leader's work ends with an outcome.                                 *)
Decide(t) ==
    /\ state[t] = "leading"
    /\ outcome[t] = "none"
    /\ \E o \in {"ok", "err"} : outcome' = [outcome EXCEPT ![t] = o]
    /\ UNCHANGED <<state, leader, joined, cancelled>>

(* The leader returns its outcome and its turn ends.                       *)
Finish(t) ==
    /\ state[t] = "leading"
    /\ outcome[t] # "none"
    /\ leader' = NoTask
    /\ state' = [state EXCEPT ![t] = "done"]
    /\ UNCHANGED <<joined, outcome, cancelled>>

(* A follower returns Ok once its leader has decided or its token fires.   *)
Release(t) ==
    /\ state[t] = "following"
    /\ outcome[joined[t]] # "none" \/ cancelled[t]
    /\ state' = [state EXCEPT ![t] = "done"]
    /\ outcome' = [outcome EXCEPT ![t] = "ok"]
    /\ UNCHANGED <<leader, joined, cancelled>>

Cancel(t) ==
    /\ state[t] # "done"
    /\ ~cancelled[t]
    /\ cancelled' = [cancelled EXCEPT ![t] = TRUE]
    /\ UNCHANGED <<state, leader, joined, outcome>>

Next ==
    \E t \in Tasks :
        Arrive(t) \/ Lead(t) \/ Follow(t) \/ Decide(t) \/ Finish(t)
        \/ Release(t) \/ Cancel(t)

Spec == Init /\ [][Next]_vars

=============================================================================
