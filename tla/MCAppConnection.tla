-------------------------- MODULE MCAppConnection --------------------------
(* Two calls at a time: a turn and its interruption, as the driver makes   *)
(* them, or the two other methods.                                         *)
EXTENDS AppConnection

CONSTANTS c1, c2

MCConnections == {c1, c2}
MCMethods ==
    {[c \in MCConnections |-> IF c = c1 THEN "RunTurn" ELSE "InterruptTurn"],
     [c \in MCConnections |-> IF c = c1 THEN "StartThread" ELSE "Ready"]}
=============================================================================
