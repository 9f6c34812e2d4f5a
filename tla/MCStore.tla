------------------------------ MODULE MCStore ------------------------------
(* Store under arbitrary clients, on one cycle.  Cycles share no row, so a *)
(* second one adds interleavings but no new behaviour of either.           *)
EXTENDS Store
=============================================================================
