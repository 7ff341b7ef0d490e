---------------------------- MODULE MCTransmit ----------------------------
(* Values for the constants of Transmit: a clock of two ticks a second, so *)
(* that an expiry can carry a fraction, and leases of one second.          *)
EXTENDS Transmit

\* 3 is one and a half seconds; 0 is the zero time, replaced by Now.
MCClaimExpiries == {0, 3}
MCNow == 1
MCSecond == 2
MCHalf == 16
MCLeaseSeconds == 1
===========================================================================
