------------------------- MODULE MCWaitCancelWork -------------------------
(* Model-checking instance of WaitCancelWork.                              *)
EXTENDS WaitCancelWork

(* Two fill units give a partial fill and a completion; two attempts and   *)
(* two polls give a retry after a timeout or an error and a repeated poll. *)
MCMaxFill == 2
MCMaxAttempts == 2
MCMaxPolls == 2
MCPolicies == {"All", "FallbackOnly", "NonFallback"}

=============================================================================
