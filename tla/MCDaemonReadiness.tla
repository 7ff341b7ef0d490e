------------------------- MODULE MCDaemonReadiness -------------------------
\* Constants for TLC.  The daemon may be seen as the binary or not; its number may go to
\* a program of no concern, to the user's own daemon of the same binary, or to a program
\* that runs in the session's environment.
EXTENDS DaemonReadiness, TLC

CONSTANTS daemon, stranger, namesake, helper

MCLooks ==
    (daemon   :> [command |-> FALSE, executable |-> TRUE,  home |-> TRUE]) @@
    (stranger :> [command |-> FALSE, executable |-> FALSE, home |-> FALSE]) @@
    (namesake :> [command |-> TRUE,  executable |-> TRUE,  home |-> FALSE]) @@
    (helper   :> [command |-> FALSE, executable |-> FALSE, home |-> TRUE])
=============================================================================
