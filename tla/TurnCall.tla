------------------------------ MODULE TurnCall ------------------------------
(***************************************************************************)
(* One call of UnixClient.RunTurn, as its caller and the app server may    *)
(* rely on it: the turn is asked for once, the caller's OnStarted hears of *)
(* it once the app server has it, and the call returns how that turn       *)
(* ended, or an error.                                                     *)
(*                                                                         *)
(* AppConnection implements it with messages; Transmit uses it, and is     *)
(* shown to use it as it is.                                               *)
(***************************************************************************)

VARIABLES
    phase,   \* how far the call has come
    turn,    \* the app server's record of the turn
    result   \* what the call returned

vars == <<phase, turn, result>>

Ended == {"completed", "failed", "interrupted"}

Init == phase = "begun" /\ turn = "none" /\ result = "none"

Ask ==
    /\ phase = "begun" /\ phase' = "asked"
    /\ turn = "none" /\ turn' = "requested"
    /\ UNCHANGED result

\* OnStarted is called.
Hear ==
    /\ phase = "asked" /\ phase' = "started"
    /\ turn \in {"running"} \cup Ended
    /\ UNCHANGED <<turn, result>>

\* OnStarted has returned without an error.
Proceed ==
    /\ phase = "started" /\ phase' = "waiting"
    /\ UNCHANGED <<turn, result>>

Return ==
    /\ phase \in {"started", "waiting"} /\ phase' = "over"
    /\ turn \in Ended
    /\ result' = turn
    /\ UNCHANGED turn

Fail ==
    /\ phase # "over" /\ phase' = "over"
    /\ result' = "error"
    /\ UNCHANGED turn

\* The app server starts and ends the turn, whether or not the call still waits.
Progress ==
    /\ \/ turn = "requested" /\ turn' \in {"running"} \cup Ended
       \/ turn = "running" /\ turn' \in Ended
    /\ UNCHANGED <<phase, result>>

Next == Ask \/ Hear \/ Proceed \/ Return \/ Fail \/ Progress

Spec == Init /\ [][Next]_vars
=============================================================================
