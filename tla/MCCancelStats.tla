-------------------------- MODULE MCCancelStats --------------------------
(* Model-checking instance of CancelStats.  The channel holds every event *)
(* of the order, so the receiver never lags (the lag is Statistics' run). *)
EXTENDS CancelStats

MCMaxAttempts == 2
MCMaxPolls == 2
MCPolicies == {"All", "FallbackOnly", "NonFallback"}
MCCapacity == 8
(* Two fill units: a partial fill and a completion.                        *)
MCMaxFill == 2

=============================================================================
