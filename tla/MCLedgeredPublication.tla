---------------------- MODULE MCLedgeredPublication ----------------------
(* A small instance: two events of one tenant, whose ledger is read one record *)
(* at a time.                                                                  *)
EXTENDS LedgeredPublication

MCTenantOf == [e \in 1..2 |-> 1]
=============================================================================
