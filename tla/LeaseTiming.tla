---------------------------- MODULE LeaseTiming ----------------------------
(***************************************************************************)
(* One lease of the driver in time (internal/transmit: Extend,             *)
(* renewalInterval, leaseDuration).  A lease is granted for lease_seconds; *)
(* it is extended once when the turn has started, and then at every tick   *)
(* of a ticker of half a lease.  Each extension asks for a whole lease     *)
(* more than the one before, counted from the expiry of the claim and not  *)
(* from the clock.                                                         *)
(*                                                                         *)
(* Transmit has every order of these events and no durations; here are the *)
(* durations, of a step whose claim carries its expiry and whose calls all *)
(* succeed.  Time passes in ticks, of which time.Duration holds as many as *)
(* its range allows.                                                       *)
(***************************************************************************)
EXTENDS Durations

CONSTANTS
    Leases,    \* the values of Config.LeaseSeconds
    MaxCall,   \* a call of the invocation service takes at most so long
    MaxStart,  \* StartThread and the start of the turn, together, as well
    MaxTime    \* bound: time ends here

\* Seeded faults: another share of the lease.
RenewalIntervalWhole(seconds) == LeaseDuration(seconds)
RenewalIntervalThird(seconds) == LeaseDuration(seconds) \div 3

RenewalInterval(seconds) ==
    LET half == LeaseDuration(seconds) \div 2
    IN IF half <= 0 THEN Second ELSE half

\* Under these durations the lease is renewed in time: the first extension arrives
\* before the claim's expiry, and the first tick's before that of the first extension,
\* which loses the fraction of its second on the way.
InTime(seconds) ==
    LET first == MaxCall + MaxStart + MaxCall
        lease == seconds * Second
    IN /\ first < lease
       /\ first + lease \div 2 + MaxCall + Second <= 2 * lease
       /\ MaxCall < lease \div 2

ASSUME DurationsAssumption ==
    /\ Second % 2 = 0
    /\ Leases \subseteq Nat \ {0}
    /\ MaxCall \in Nat /\ MaxStart \in Nat /\ MaxTime \in Nat
    /\ \A s \in Leases : Fits(s) => InTime(s)

VARIABLES
    seconds,    \* Config.LeaseSeconds
    now,        \* the clock
    granted,    \* when the lease was granted
    at,         \* where the step is
    since,      \* since when it waits there
    expiry,     \* the expiry the service keeps
    expiresAt,  \* leaseRenewal.expiresAt
    sent,       \* the extension is on its way to the service
    tickAt,     \* when the ticker fires next
    ticked      \* it has fired, and nobody has looked

vars == <<seconds, now, granted, at, since, expiry, expiresAt, sent, tickAt, ticked>>

Lease == LeaseDuration(seconds)
Interval == RenewalInterval(seconds)

\* The lease was granted, for the seconds asked for; the answer is under way.
Init ==
    /\ seconds \in Leases
    /\ granted \in 0..(Second - 1)
    /\ now = granted
    /\ at = "claim"
    /\ since = now
    /\ expiry = granted + seconds * Second
    /\ expiresAt = expiry
    /\ sent = FALSE
    /\ tickAt = 0
    /\ ticked = FALSE

Go(point) == at' = point /\ since' = now

Claimed ==
    /\ at = "claim"
    /\ Go("start")
    /\ UNCHANGED <<seconds, now, granted, expiry, expiresAt, sent, tickAt, ticked>>

\* OnStarted extends for the first time.
Started ==
    /\ at = "start"
    /\ Go("first")
    /\ sent' = TRUE
    /\ UNCHANGED <<seconds, now, granted, expiry, expiresAt, tickAt, ticked>>

\* Only a lease that is still held can be extended.
Serve ==
    /\ sent
    /\ now < expiry
    /\ expiry' = WholeSeconds(expiresAt + Lease)
    /\ sent' = FALSE
    /\ UNCHANGED <<seconds, now, granted, at, since, expiresAt, tickAt, ticked>>

\* Extend returns.  After the first one the ticker is made.
Extended ==
    /\ at \in {"first", "tick"}
    /\ ~sent
    /\ expiresAt' = expiresAt + Lease
    /\ Go("turn")
    /\ tickAt' = IF at = "first" THEN now + Interval ELSE tickAt
    /\ UNCHANGED <<seconds, now, granted, expiry, sent, ticked>>

\* The ticker's channel keeps one tick.
Fire ==
    /\ at \in {"turn", "tick"}
    /\ now = tickAt
    /\ tickAt' = tickAt + Interval
    /\ ticked' = TRUE
    /\ UNCHANGED <<seconds, now, granted, at, since, expiry, expiresAt, sent>>

Tick ==
    /\ at = "turn"
    /\ ticked
    /\ Go("tick")
    /\ ticked' = FALSE
    /\ sent' = TRUE
    /\ UNCHANGED <<seconds, now, granted, expiry, expiresAt, tickAt>>

\* The turn ends, an extension is refused, or the driver dies; what was sent may arrive.
Over ==
    /\ at # "over"
    /\ Go("over")
    /\ UNCHANGED <<seconds, now, granted, expiry, expiresAt, sent, tickAt, ticked>>

\* Time passes unless something is due.
Pass ==
    /\ now < MaxTime
    /\ at \in {"claim", "first", "tick"} => now < since + MaxCall
    /\ at = "start" => now < since + MaxStart
    /\ at \in {"turn", "tick"} => now < tickAt
    /\ at = "turn" => ~ticked
    /\ now' = now + 1
    /\ UNCHANGED <<seconds, granted, at, since, expiry, expiresAt, sent, tickAt, ticked>>

Next == Claimed \/ Started \/ Serve \/ Extended \/ Fire \/ Tick \/ Over \/ Pass

Spec == Init /\ [][Next]_vars

-----------------------------------------------------------------------------
(* Properties.                                                             *)

\* The lease does not run out under the step, up to its first extension and between any
\* two, fractions of seconds included (startTurn, renewUntilDone).
LeaseKept == Fits(seconds) /\ at # "over" => now < expiry

\* A driver that dies leaves its lease behind for two leases and as long as it has
\* worked: each tick of half a lease adds a whole one (leaseRenewal.Extend).
LeadBounded == Fits(seconds) => expiry - now <= 2 * Lease + (now - granted)

\* The ticker is given a positive interval whatever the product of seconds wraps to;
\* time.NewTicker would panic (renewalInterval).
IntervalPositive == Interval > 0
=============================================================================
