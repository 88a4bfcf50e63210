-------------------------- MODULE MCWaitCancel --------------------------
(* Model-checking instance of WaitCancel: two calls on one order, one fill *)
(* unit, one attempt and one poll -- enough for a first call that ends and *)
(* a second call that starts on the same order.                            *)
EXTENDS WaitCancel, TLC

CONSTANTS t1, t2

MCTasks == {t1, t2}
MCMaxFill == 1
MCMaxAttempts == 1
MCMaxPolls == 1
MCPolicies == {"All", "NonFallback"}

=============================================================================
