------------------------------ MODULE Durations ------------------------------
(***************************************************************************)
(* Time as the driver computes with it.  A time.Duration is a 64-bit count *)
(* of nanoseconds; here it is one of 2 * Half values of a clock that ticks *)
(* Second times a second.                                                  *)
(***************************************************************************)
EXTENDS Integers

CONSTANTS
    Second,  \* ticks of the clock in one second
    Half     \* a time.Duration is in -Half .. Half - 1: 2^63 nanoseconds, in ticks

ASSUME RangeAssumption ==
    /\ Second \in Nat \ {0}
    /\ Half \in Nat \ {0}

Wrapped(ticks) ==
    LET rest == ticks % (2 * Half)
    IN IF rest >= Half THEN rest - 2 * Half ELSE rest

\* leaseDuration: a signed product that may overflow.
LeaseDuration(seconds) == Wrapped(seconds * Second)

\* The product did not overflow.  config.Validate sets no such limit.
Fits(seconds) == LeaseDuration(seconds) = seconds * Second

\* A time as time.RFC3339 carries it: the fraction of the second is cut off.
WholeSeconds(t) == t - (t % Second)
=============================================================================
