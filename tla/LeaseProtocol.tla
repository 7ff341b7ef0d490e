--------------------------- MODULE LeaseProtocol ---------------------------
(***************************************************************************)
(* What the invocation service and the app server may rely on when they    *)
(* deal with a driver: which leases it takes, when it asks for a turn, and *)
(* what it tells of it.  Nothing is said of goroutines, calls or renewals; *)
(* Transmit implements this protocol.                                      *)
(***************************************************************************)
EXTENDS Naturals

CONSTANT MaxSteps  \* bound: so many leases are asked for

VARIABLES
    lease,   \* the invocation service's record of each lease
    turn,    \* the app server's record of the turn of each lease
    driver   \* "working"; "unrenewed": it could not extend a lease; "ended"

vars == <<lease, turn, driver>>

Steps == 1..MaxSteps
NackCodes == {"invalid_payload", "app_unreachable", "app_error", "turn_failed"}
Settlements == {"ack"} \cup NackCodes
TurnStatuses == {"completed", "failed", "interrupted"}

Init ==
    /\ lease = [s \in Steps |-> "none"]
    /\ turn = [s \in Steps |-> "none"]
    /\ driver = "working"

\* A lease is granted only to a driver that has none: each earlier one was settled, or
\* never granted.  The grant may come after the driver is gone.
Grant(s) ==
    /\ driver # "unrenewed"
    /\ lease[s] = "none"
    /\ turn[s] = "none"
    /\ \A t \in Steps : t < s => lease[t] \in {"none"} \cup Settlements
    /\ \A t \in Steps : t > s => lease[t] = "none"
    /\ lease' = [lease EXCEPT ![s] = "held"]
    /\ UNCHANGED <<turn, driver>>

\* One turn at most is asked for under a lease, before it is settled.
AskTurn(s) ==
    /\ driver = "working"
    /\ turn[s] = "none"
    /\ lease[s] \in {"held", "expired"}
    /\ \A t \in Steps : t > s => lease[t] = "none"
    /\ turn' = [turn EXCEPT ![s] = "requested"]
    /\ UNCHANGED <<lease, driver>>

RunTurn(s) ==
    /\ turn[s] = "requested"
    /\ turn' = [turn EXCEPT ![s] = "running"]
    /\ UNCHANGED <<lease, driver>>

EndTurn(s) ==
    /\ turn[s] = "running"
    /\ \E status \in TurnStatuses : turn' = [turn EXCEPT ![s] = status]
    /\ UNCHANGED <<lease, driver>>

\* What a settlement says of the turn.
Truthful(op, s) ==
    /\ op = "ack" => turn[s] = "completed"
    /\ op = "turn_failed" => turn[s] \in {"failed", "interrupted"}
    /\ op \in {"invalid_payload", "app_unreachable"} => turn[s] = "none"

\* The service records a settlement, perhaps after the driver is gone; never that of a
\* driver that could not extend the lease.
Settle(s) ==
    /\ driver # "unrenewed"
    /\ lease[s] = "held"
    /\ \E op \in Settlements : Truthful(op, s) /\ lease' = [lease EXCEPT ![s] = op]
    /\ UNCHANGED <<turn, driver>>

Expire(s) ==
    /\ lease[s] = "held"
    /\ lease' = [lease EXCEPT ![s] = "expired"]
    /\ UNCHANGED <<turn, driver>>

\* The lease of an unfinished step cannot be extended.
Unrenew ==
    /\ driver = "working"
    /\ \E s \in Steps : lease[s] \in {"held", "expired"} /\ turn[s] # "none"
    /\ driver' = "unrenewed"
    /\ UNCHANGED <<lease, turn>>

\* The driver ends, and may interrupt the turn of an unsettled lease as it goes.
End ==
    /\ driver \in {"working", "unrenewed"}
    /\ driver' = "ended"
    /\ \/ UNCHANGED turn
       \/ \E s \in Steps :
             /\ turn[s] = "running" /\ lease[s] \in {"held", "expired"}
             /\ turn' = [turn EXCEPT ![s] = "interrupted"]
    /\ UNCHANGED lease

Next ==
    \/ Unrenew \/ End
    \/ \E s \in Steps :
          Grant(s) \/ AskTurn(s) \/ RunTurn(s) \/ EndTurn(s) \/ Settle(s) \/ Expire(s)

Spec == Init /\ [][Next]_vars
=============================================================================
