------------------------- MODULE MCWaitCancelGate -------------------------
(* Model-checking instance of WaitCancelGate: three tasks call             *)
(* wait_cancel_order for one order, enough for a leader, a follower that   *)
(* subscribes in time and one that subscribes late.                        *)
EXTENDS WaitCancelGate, TLC

CONSTANTS t1, t2, t3

MCTasks == {t1, t2, t3}

(* Liveness runs use two tasks: a leader and one follower.                 *)
MCTaskPair == {t1, t2}

(* Tasks are interchangeable: only safety runs use the symmetry.           *)
TaskSymmetry == Permutations(MCTasks)

=============================================================================
