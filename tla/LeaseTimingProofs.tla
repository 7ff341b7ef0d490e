------------------------- MODULE LeaseTimingProofs -------------------------
(***************************************************************************)
(* Proofs about LeaseTiming: for every lease, every resolution of the      *)
(* clock and every duration the assumption allows.  The invariant ties     *)
(* each point of the step to how late it can be, and to the expiry that    *)
(* has been asked for by then; between two ticks it measures both from the *)
(* tick that is due.                                                       *)
(***************************************************************************)
EXTENDS LeaseTiming, TLAPS

\* To what LeaseDuration wraps does not matter below, only that it is an integer.
LEMMA WrappedIsInteger == \A s \in Nat : LeaseDuration(s) \in Int
  <1> TAKE s \in Nat
  <1>1. 2 * Half \in Nat \ {0}
    BY DurationsAssumption, RangeAssumption
  <1>2. s * Second \in Nat
    BY DurationsAssumption, RangeAssumption
  <1>3. (s * Second) % (2 * Half) \in Nat
    BY <1>1, <1>2
  <1> QED BY <1>1, <1>3, DurationsAssumption, RangeAssumption DEF LeaseDuration, Wrapped

\* The ticker of renewUntilDone is given a positive interval whatever the product of
\* seconds wraps to, where time.NewTicker would panic (renewalInterval).
THEOREM IntervalIsPositive == \A s \in Nat : RenewalInterval(s) > 0
  <1> TAKE s \in Nat
  <1>1. LeaseDuration(s) \div 2 \in Int
    BY WrappedIsInteger
  <1> QED BY <1>1, DurationsAssumption, RangeAssumption DEF RenewalInterval

\* What RFC 3339 takes away is less than a second.
LEMMA WholeBelow ==
    \A t \in Int : WholeSeconds(t) \in Int /\ t - Second < WholeSeconds(t) /\ WholeSeconds(t) <= t
  <1> TAKE t \in Int
  <1>1. t % Second \in 0..(Second - 1)
    BY DurationsAssumption, RangeAssumption
  <1> QED BY <1>1, DurationsAssumption, RangeAssumption DEF WholeSeconds

\* All that the proofs use of the durations, for a lease a time.Duration holds: its
\* interval is half of it, and there is time for every call.
LEMMA LeaseDurations ==
    ASSUME NEW s \in Leases, Fits(s)
    PROVE  /\ LeaseDuration(s) \in Nat
           /\ RenewalInterval(s) \in Nat
           /\ LeaseDuration(s) = 2 * RenewalInterval(s)
           /\ MaxCall < RenewalInterval(s)
           /\ MaxCall + MaxStart + MaxCall < LeaseDuration(s)
           /\ MaxCall + MaxStart + MaxCall + RenewalInterval(s) + MaxCall + Second
                <= 2 * LeaseDuration(s)
  <1> DEFINE lease == s * Second
  <1>1. InTime(s) /\ LeaseDuration(s) = lease
    BY DurationsAssumption, RangeAssumption DEF Fits
  <1>2. PICK k \in Nat : Second = 2 * k
    <2>1. Second \div 2 \in Nat /\ Second = 2 * (Second \div 2)
      BY DurationsAssumption, RangeAssumption
    <2> QED BY <2>1
  <1>3. lease = 2 * (s * k)
    BY <1>2, DurationsAssumption, RangeAssumption
  <1>4. s * k \in Nat
    BY <1>2, DurationsAssumption, RangeAssumption
  <1> HIDE DEF lease
  <1>5. lease \in Nat /\ lease \div 2 = s * k
    BY <1>3, <1>4
  <1>6. lease \div 2 > 0
    BY <1>1, <1>5, DurationsAssumption, RangeAssumption DEF InTime, lease
  <1>7. RenewalInterval(s) = lease \div 2
    BY <1>1, <1>5, <1>6 DEF RenewalInterval
  <1> QED BY <1>1, <1>3, <1>4, <1>5, <1>7, DurationsAssumption, RangeAssumption DEF InTime, lease

-----------------------------------------------------------------------------
(* The invariant.                                                          *)

TimesOK ==
    /\ seconds \in Leases
    /\ now \in Nat /\ granted \in Nat /\ since \in Nat
    /\ expiry \in Int /\ expiresAt \in Int /\ tickAt \in Int
    /\ sent \in BOOLEAN /\ ticked \in BOOLEAN
    /\ at \in {"claim", "start", "first", "turn", "tick", "over"}
    /\ granted <= since /\ since <= now

\* The latest expiry a driver may have asked for by a time.
Horizon(time) == 2 * Lease + 2 * time - granted

\* Nothing has been extended yet.
AtClaim ==
    at \in {"claim", "start"} =>
        /\ ~sent /\ ~ticked
        /\ expiry = granted + Lease /\ expiresAt = granted + Lease
        /\ at = "claim" => since = granted /\ now <= granted + MaxCall
        /\ at = "start" => since <= granted + MaxCall /\ now <= since + MaxStart

AtFirst ==
    at = "first" =>
        /\ ~ticked
        /\ since <= granted + MaxCall + MaxStart /\ now <= since + MaxCall
        /\ expiresAt = granted + Lease
        /\ expiry = IF sent THEN granted + Lease ELSE WholeSeconds(expiresAt + Lease)

\* Between two ticks there is time for the call of the next one.
AtTurn ==
    at = "turn" =>
        /\ ~sent
        /\ expiry = WholeSeconds(expiresAt)
        /\ tickAt - Interval <= now /\ now <= tickAt
        /\ ~ticked => /\ tickAt + MaxCall + Second <= expiresAt
                      /\ expiresAt <= Horizon(tickAt - Interval)
        /\ ticked => /\ now = tickAt - Interval
                     /\ now + MaxCall + Second <= expiresAt
                     /\ expiresAt + Lease <= Horizon(now)

AtTick ==
    at = "tick" =>
        /\ ~ticked
        /\ since = tickAt - Interval /\ now <= since + MaxCall
        /\ since + MaxCall + Second <= expiresAt
        /\ expiresAt + Lease <= Horizon(since)
        /\ expiry = WholeSeconds(IF sent THEN expiresAt ELSE expiresAt + Lease)

\* What is still on its way to the service does not pass the horizon either.
AtOver ==
    at = "over" =>
        /\ expiry <= Horizon(now)
        /\ sent => expiresAt + Lease <= Horizon(now)

Points == AtClaim /\ AtFirst /\ AtTurn /\ AtTick /\ AtOver

IInv == TimesOK /\ (Fits(seconds) => Points)

LEMMA Start == Init => IInv
  <1> SUFFICES ASSUME Init PROVE IInv
    OBVIOUS
  <1>1. seconds * Second \in Nat /\ granted \in Nat
    BY DurationsAssumption, RangeAssumption DEF Init
  <1>2. TimesOK
    <2>1. expiry \in Int /\ expiresAt \in Int
      BY <1>1 DEF Init
    <2>2. sent \in BOOLEAN /\ ticked \in BOOLEAN
      BY Zenon DEF Init
    <2> QED BY <1>1, <2>1, <2>2 DEF Init, TimesOK
  <1>3. ASSUME Fits(seconds) PROVE Points
    <2>1. Lease = seconds * Second
      BY <1>3 DEF Fits, Lease
    <2> QED BY <2>1, <1>2, DurationsAssumption, RangeAssumption
         DEF Init, TimesOK, Points, AtClaim, AtFirst, AtTurn, AtTick, AtOver
  <1> QED BY <1>2, <1>3 DEF IInv

LEMMA TimesStep == TimesOK /\ [Next]_vars => TimesOK'
  <1> SUFFICES ASSUME TimesOK, [Next]_vars PROVE TimesOK'
    OBVIOUS
  <1> USE DurationsAssumption, RangeAssumption DEF TimesOK
  <1>1. Lease \in Int /\ Interval \in Int
    <2>1. LeaseDuration(seconds) \in Int
      BY WrappedIsInteger
    <2> QED BY <2>1 DEF Lease, Interval, RenewalInterval
  <1>2. WholeSeconds(expiresAt + Lease) \in Int
    BY <1>1, WholeBelow
  <1>3. CASE Claimed
    BY <1>3 DEF Claimed, Go
  <1>9. CASE Started \/ Tick
    <2>1. sent' \in BOOLEAN /\ ticked' \in BOOLEAN
      BY <1>9, Zenon DEF Started, Tick
    <2> QED BY <1>9, <2>1 DEF Started, Tick, Go
  <1>10. CASE Over
    BY <1>10 DEF Over, Go
  <1>4. CASE Serve
    BY <1>2, <1>4 DEF Serve
  <1>5. CASE Extended
    BY <1>1, <1>5 DEF Extended, Go
  <1>6. CASE Fire
    BY <1>1, <1>6 DEF Fire
  <1>7. CASE Pass
    BY <1>7 DEF Pass
  <1>8. CASE UNCHANGED vars
    BY <1>8 DEF vars
  <1> QED BY <1>3, <1>4, <1>5, <1>6, <1>7, <1>8, <1>9, <1>10 DEF Next

\* Of a lease a time.Duration holds, every step keeps to the times of each point.
LEMMA PointsStep ==
    ASSUME TimesOK, Points, Fits(seconds), [Next]_vars
    PROVE  Points'
  <1> DEFINE L == Lease
             I == Interval
  <1>1. /\ L \in Nat /\ I \in Nat /\ L = 2 * I /\ MaxCall < I
        /\ MaxCall + MaxStart + MaxCall < L
        /\ MaxCall + MaxStart + MaxCall + I + MaxCall + Second <= 2 * L
    BY LeaseDurations DEF TimesOK, Lease, Interval
  <1>2. seconds' = seconds /\ granted' = granted
    BY DEF Next, vars, Claimed, Started, Serve, Extended, Fire, Tick, Over, Pass
  <1>3. Lease' = L /\ Interval' = I
    BY <1>2 DEF Lease, Interval
  <1>4. \A t \in Int :
           WholeSeconds(t) \in Int /\ t - Second < WholeSeconds(t) /\ WholeSeconds(t) <= t
    BY WholeBelow
  <1>5. Lease = L /\ Interval = I
    OBVIOUS
  <1> HIDE DEF L, I
  <1> USE <1>1, <1>2, <1>3, <1>5, DurationsAssumption, RangeAssumption DEF TimesOK, Horizon
  <1>6. CASE Claimed
    BY <1>6 DEF Claimed, Go, Points, AtClaim, AtFirst, AtTurn, AtTick, AtOver
  <1>7. CASE Started
    BY <1>7 DEF Started, Go, Points, AtClaim, AtFirst, AtTurn, AtTick, AtOver
  <1>8. CASE Serve
    BY <1>4, <1>8 DEF Serve, Points, AtClaim, AtFirst, AtTurn, AtTick, AtOver
  <1>9. CASE Extended
    BY <1>4, <1>9 DEF Extended, Go, Points, AtClaim, AtFirst, AtTurn, AtTick, AtOver
  <1>10. CASE Fire
    BY <1>10 DEF Fire, Points, AtClaim, AtFirst, AtTurn, AtTick, AtOver
  <1>11. CASE Tick
    BY <1>11 DEF Tick, Go, Points, AtClaim, AtFirst, AtTurn, AtTick, AtOver
  <1>12. CASE Over
    BY <1>4, <1>12 DEF Over, Go, Points, AtClaim, AtFirst, AtTurn, AtTick, AtOver
  <1>13. CASE Pass
    BY <1>13 DEF Pass, Points, AtClaim, AtFirst, AtTurn, AtTick, AtOver
  <1>14. CASE UNCHANGED vars
    BY <1>14 DEF vars, Points, AtClaim, AtFirst, AtTurn, AtTick, AtOver
  <1> QED BY <1>6, <1>7, <1>8, <1>9, <1>10, <1>11, <1>12, <1>13, <1>14 DEF Next

\* The times of each point hold at every moment.
THEOREM Invariance == Spec => []IInv
  <1>1. Init => IInv
    BY Start
  <1>2. IInv /\ [Next]_vars => IInv'
    <2> SUFFICES ASSUME IInv, [Next]_vars PROVE IInv'
      OBVIOUS
    <2>1. TimesOK'
      BY TimesStep DEF IInv
    <2>2. seconds' = seconds
      BY DEF Next, vars, Claimed, Started, Serve, Extended, Fire, Tick, Over, Pass
    <2>3. Fits(seconds)' => Points'
      BY <2>2, PointsStep DEF IInv
    <2> QED BY <2>1, <2>3 DEF IInv
  <1> QED BY <1>1, <1>2, PTL DEF Spec

-----------------------------------------------------------------------------
(* What follows from it.                                                   *)

LEMMA InvKept == IInv => LeaseKept
  <1> SUFFICES ASSUME IInv, Fits(seconds), at # "over" PROVE now < expiry
    BY DEF LeaseKept
  <1>1. /\ Lease \in Nat /\ Interval \in Nat /\ Lease = 2 * Interval /\ MaxCall < Interval
        /\ MaxCall + MaxStart + MaxCall < Lease
        /\ MaxCall + MaxStart + MaxCall + Interval + MaxCall + Second <= 2 * Lease
    BY LeaseDurations DEF IInv, TimesOK, Lease, Interval
  <1>2. WholeSeconds(expiresAt) > expiresAt - Second
    BY WholeBelow DEF IInv, TimesOK
  <1>3. /\ WholeSeconds(expiresAt + Lease) \in Int
        /\ (expiresAt + Lease) - Second < WholeSeconds(expiresAt + Lease)
    <2>1. expiresAt + Lease \in Int
      BY <1>1 DEF IInv, TimesOK
    <2> QED BY <2>1, WholeBelow, Zenon
  <1> USE <1>1, DurationsAssumption, RangeAssumption DEF IInv, TimesOK, Points
  <1>4. CASE at \in {"claim", "start"}
    BY <1>4 DEF AtClaim
  <1>5. CASE at = "first"
    BY <1>3, <1>5 DEF AtFirst
  <1>6. CASE at = "turn"
    BY <1>2, <1>6 DEF AtTurn
  <1>7. CASE at = "tick"
    BY <1>2, <1>3, <1>7 DEF AtTick
  <1> QED BY <1>4, <1>5, <1>6, <1>7

LEMMA InvBounded == IInv => LeadBounded
  <1> SUFFICES ASSUME IInv, Fits(seconds) PROVE expiry - now <= 2 * Lease + (now - granted)
    BY DEF LeadBounded
  <1>1. Lease \in Nat /\ Interval \in Nat /\ Lease = 2 * Interval
    BY LeaseDurations DEF IInv, TimesOK, Lease, Interval
  <1>2. /\ WholeSeconds(expiresAt) \in Int /\ WholeSeconds(expiresAt) <= expiresAt
        /\ WholeSeconds(expiresAt + Lease) \in Int
        /\ WholeSeconds(expiresAt + Lease) <= expiresAt + Lease
    BY <1>1, WholeBelow DEF IInv, TimesOK
  <1> USE <1>1, <1>2, DurationsAssumption, RangeAssumption DEF IInv, TimesOK, Points, Horizon
  <1>3. CASE at \in {"claim", "start", "first"}
    BY <1>3 DEF AtClaim, AtFirst
  <1>4. CASE at = "turn"
    BY <1>4 DEF AtTurn
  <1>5. CASE at = "tick"
    BY <1>5 DEF AtTick
  <1>6. CASE at = "over"
    BY <1>6 DEF AtOver
  <1> QED BY <1>3, <1>4, <1>5, <1>6

\* A driver whose calls take no longer than assumed never loses its lease.
THEOREM LeaseIsKept == Spec => []LeaseKept
  BY Invariance, InvKept, PTL

\* The lease of a driver that dies outlives it by two leases and as long as it worked.
THEOREM LeadIsBounded == Spec => []LeadBounded
  BY Invariance, InvBounded, PTL
=============================================================================
