--------------------------- MODULE MCTenantCommit ---------------------------
(* Instances of TenantCommit for TLC: one or two events on one or two       *)
(* streams, with the recovery loop and a request as possible recoverers.    *)
EXTENDS TenantCommit

CONSTANTS loop, request

MCOneStream == [e \in Events |-> 1]
MCTwoStreams == [e \in Events |-> IF e = 2 THEN 2 ELSE 1]
=============================================================================
