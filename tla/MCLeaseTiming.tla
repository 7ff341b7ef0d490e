--------------------------- MODULE MCLeaseTiming ---------------------------
(* Half a second is a tick and a duration has 32 values: leases of two and *)
(* three seconds fit, products of 16, 32 and 34 ticks do not.              *)
EXTENDS LeaseTiming

MCLeases == {2, 3, 8, 16, 17}
=============================================================================
