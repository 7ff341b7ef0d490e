-------------------------- MODULE DaemonReadiness --------------------------
(***************************************************************************)
(* The readiness gate (internal/status/daemon.go): CheckDaemon makes a     *)
(* temporary root, starts a daemon of its own in it, starts a thread, and  *)
(* cleans up: it stops the daemon, kills it if it is still there, and      *)
(* removes the root.                                                       *)
(*                                                                         *)
(* The gate is one goroutine.  What it races with is the machine: the      *)
(* daemon comes up late, goes away by itself, and its process number is    *)
(* given to another process, between any two system calls of the gate.     *)
(* Every command and system call may fail; a cancelled context is one of   *)
(* the reasons.                                                            *)
(***************************************************************************)
EXTENDS Naturals

CONSTANTS
    Daemon,   \* the process that the start command leaves behind
    Others,   \* processes that may be given its number after it
    Looks     \* what /proc shows of each of these

\* command, executable: processPathAllowed accepts the path; home: the environment has
\* the CODEX_HOME of the session.  The daemon inherits that environment.
Evidence == [command : BOOLEAN, executable : BOOLEAN, home : BOOLEAN]

ASSUME ProcessAssumption ==
    /\ Daemon \notin Others
    /\ {"unborn", "free"} \cap (Others \cup {Daemon}) = {}
    /\ Looks \in [Others \cup {Daemon} -> Evidence]
    /\ Looks[Daemon].home

VARIABLES
    pc,         \* where the gate is
    commands,   \* the daemon commands it issued
    known,      \* fields of the session it learned from responses
    evidence,   \* what it has read of the process so far
    thread,     \* it has a thread id
    failed,     \* it returns an error
    cleanup,    \* DaemonResult.Cleanup
    root,       \* the temporary root
    holder,     \* who has the daemon's process number
    socketFile, \* the control socket exists
    pidFile,    \* the pid file exists
    steady,     \* the number has not changed hands since the gate read of its process
    killed      \* whom the gate sent SIGKILL, "nobody" if none

gateVars == <<commands, known, evidence, thread, failed, cleanup, root, killed>>
machineVars == <<holder, socketFile, pidFile, steady>>
vars == <<pc, gateVars, machineVars>>

Fields == {"socket", "pidFile", "pid"}
Cleanups ==
    {"not_started", "stopped", "stop_failed", "socket_still_present", "pid_missing",
     "process_unowned", "process_ambiguous", "process_still_alive", "read_failed",
     "kill_failed"}
Points ==
    {"session", "root", "dirs", "seed", "start", "discover", "version", "thread", "stop",
     "socket", "pid", "command", "executable", "home", "kill", "after", "remove", "done"}

NoEvidence == [command |-> FALSE, executable |-> FALSE, home |-> FALSE]

Alive == holder \in Others \cup {Daemon}

\* Processes of the session, as cleanupProcess tells them.
Session ==
    {p \in Others \cup {Daemon} : (Looks[p].command \/ Looks[p].executable) /\ Looks[p].home}

Init ==
    /\ pc = "session"
    /\ commands = {} /\ known = {} /\ evidence = NoEvidence
    /\ thread = FALSE /\ failed = FALSE
    /\ cleanup = "not_started" /\ root = "none" /\ killed = "nobody"
    /\ holder = "unborn" /\ socketFile = FALSE /\ pidFile = FALSE /\ steady = FALSE

-----------------------------------------------------------------------------
(* The gate, up to the cleanup. *)

\* CheckDaemon has the result of cleanupDaemon: the deferred removal follows only if the
\* daemon is known to be gone.
Finish(result) ==
    /\ cleanup' = result
    /\ failed' = (failed \/ result # "stopped")
    /\ pc' = IF result = "stopped" THEN "remove" ELSE "done"

\* The error ends the check before there is anything to stop.
Fail(next) == failed' = TRUE /\ pc' = next

NewSession ==
    /\ pc = "session"
    /\ \/ pc' = "root" /\ UNCHANGED failed
       \/ Fail("done")
    /\ UNCHANGED <<commands, known, evidence, thread, cleanup, root, killed, machineVars>>

MakeRoot ==
    /\ pc = "root"
    /\ \/ root' = "present" /\ pc' = "dirs" /\ UNCHANGED failed
       \/ Fail("done") /\ UNCHANGED root
    /\ UNCHANGED <<commands, known, evidence, thread, cleanup, killed, machineVars>>

\* createDirs and seedManagedPath fill the root; on an error it is removed again.
Prepare(here, next) ==
    /\ pc = here
    /\ \/ pc' = next /\ UNCHANGED failed
       \/ Fail("remove")
    /\ UNCHANGED <<commands, known, evidence, thread, cleanup, root, killed, machineVars>>

\* An accepted response tells any of the fields, but a pid only of a daemon that is up.
Learned(fields) ==
    /\ "pid" \in fields => holder # "unborn"
    /\ known' = known \cup fields

\* The command fails, its output is no JSON, or a path in it escapes: then the fields
\* read before it, in the order of the map, are kept.
LearnedInVain == \E fields \in SUBSET {"socket", "pidFile"} : known' = known \cup fields

StartIssued ==
    /\ pc = "start"
    /\ "start" \notin commands
    /\ commands' = commands \cup {"start"}
    /\ UNCHANGED <<pc, known, evidence, thread, failed, cleanup, root, killed, machineVars>>

\* Seeded fault: a start that failed is not cleaned up.
StartAnsweredNoCleanup ==
    /\ pc = "start"
    /\ "start" \in commands
    /\ \/ \E fields \in SUBSET Fields : Learned(fields) /\ pc' = "discover" /\ UNCHANGED failed
       \/ LearnedInVain /\ Fail("remove")
    /\ UNCHANGED <<commands, evidence, thread, cleanup, root, killed, machineVars>>

StartAnswered ==
    /\ pc = "start"
    /\ "start" \in commands
    /\ \/ \E fields \in SUBSET Fields : Learned(fields) /\ pc' = "discover" /\ UNCHANGED failed
       \/ LearnedInVain /\ Fail("stop")
    /\ UNCHANGED <<commands, evidence, thread, cleanup, root, killed, machineVars>>

\* discoverPidFile: the walk finds the pid file if the daemon has written it by now.
Discover ==
    /\ pc = "discover"
    /\ \/ /\ known' = IF pidFile THEN known \cup {"pidFile"} ELSE known
          /\ pc' = "version"
          /\ UNCHANGED failed
       \/ "pidFile" \notin known /\ Fail("stop") /\ UNCHANGED known
    /\ UNCHANGED <<commands, evidence, thread, cleanup, root, killed, machineVars>>

\* Seeded fault: a version that could not be read does not fail the gate.
CheckVersionIgnored ==
    /\ pc = "version"
    /\ commands' = commands \cup {"version"}
    /\ \/ \E fields \in SUBSET Fields : Learned(fields) /\ pc' = "thread" /\ UNCHANGED failed
       \/ LearnedInVain /\ pc' = "stop" /\ UNCHANGED failed
    /\ UNCHANGED <<evidence, thread, cleanup, root, killed, machineVars>>

CheckVersion ==
    /\ pc = "version"
    /\ commands' = commands \cup {"version"}
    /\ \/ \E fields \in SUBSET Fields : Learned(fields) /\ pc' = "thread" /\ UNCHANGED failed
       \/ LearnedInVain /\ Fail("stop")
    /\ UNCHANGED <<evidence, thread, cleanup, root, killed, machineVars>>

StartThread ==
    /\ pc = "thread"
    /\ \/ "socket" \in known /\ thread' = TRUE /\ pc' = "stop" /\ UNCHANGED failed
       \/ Fail("stop") /\ UNCHANGED thread
    /\ UNCHANGED <<commands, known, evidence, cleanup, root, killed, machineVars>>

-----------------------------------------------------------------------------
(* cleanupDaemon. *)

Stop ==
    /\ pc = "stop"
    /\ commands' = commands \cup {"stop"}
    /\ \/ Finish("stop_failed")
       \/ pc' = "socket" /\ UNCHANGED <<failed, cleanup>>
    /\ UNCHANGED <<known, evidence, thread, root, killed, machineVars>>

CheckSocket ==
    /\ pc = "socket"
    /\ IF "socket" \in known /\ socketFile
       THEN Finish("socket_still_present")
       ELSE pc' = "pid" /\ UNCHANGED <<failed, cleanup>>
    /\ UNCHANGED <<commands, known, evidence, thread, root, killed, machineVars>>

\* Seeded fault: without a process number the daemon counts as stopped.
DaemonPidMissingIsStopped ==
    /\ pc = "pid"
    /\ \/ /\ "pid" \in known \/ ("pidFile" \in known /\ pidFile)
          /\ pc' = "command" /\ UNCHANGED <<failed, cleanup>>
       \/ "pid" \notin known /\ Finish("stopped")
    /\ UNCHANGED <<commands, known, evidence, thread, root, killed, machineVars>>

\* daemonPid: a number from a response, else from the pid file, which may be unreadable.
DaemonPid ==
    /\ pc = "pid"
    /\ \/ /\ "pid" \in known \/ ("pidFile" \in known /\ pidFile)
          /\ pc' = "command" /\ UNCHANGED <<failed, cleanup>>
       \/ "pid" \notin known /\ Finish("pid_missing")
    /\ UNCHANGED <<commands, known, evidence, thread, root, killed, machineVars>>

\* One read of processEvidence.  No such file means no such process.
ReadGone(here) ==
    /\ pc = here
    /\ ~Alive
    /\ Finish("stopped")
    /\ UNCHANGED <<commands, known, evidence, thread, root, killed, machineVars>>

ReadFailed ==
    /\ pc \in {"command", "executable", "home", "after"}
    /\ Finish("read_failed")
    /\ UNCHANGED <<commands, known, evidence, thread, root, killed, machineVars>>

ReadCommand ==
    /\ pc = "command"
    /\ Alive
    /\ evidence' = [evidence EXCEPT !.command = Looks[holder].command]
    /\ steady' = TRUE
    /\ pc' = "executable"
    /\ UNCHANGED <<commands, known, thread, failed, cleanup, root, killed, holder,
                   socketFile, pidFile>>

ReadExecutable ==
    /\ pc = "executable"
    /\ Alive
    /\ evidence' = [evidence EXCEPT !.executable = Looks[holder].executable]
    /\ pc' = "home"
    /\ UNCHANGED <<commands, known, thread, failed, cleanup, root, killed, machineVars>>

\* Seeded fault: processHasTempHome is not asked.
ReadHomeUnasked ==
    /\ pc = "home"
    /\ Alive
    /\ evidence' = [evidence EXCEPT !.home = Looks[holder].home]
    /\ IF ~(evidence.command \/ evidence.executable) THEN Finish("process_unowned")
       ELSE pc' = "kill" /\ UNCHANGED <<failed, cleanup>>
    /\ UNCHANGED <<commands, known, thread, root, killed, machineVars>>

\* The environment is read last; then the process is judged by the three reads.
ReadHome ==
    /\ pc = "home"
    /\ Alive
    /\ evidence' = [evidence EXCEPT !.home = Looks[holder].home]
    /\ IF ~(evidence.command \/ evidence.executable) THEN Finish("process_unowned")
       ELSE IF ~evidence'.home THEN Finish("process_ambiguous")
       ELSE pc' = "kill" /\ UNCHANGED <<failed, cleanup>>
    /\ UNCHANGED <<commands, known, thread, root, killed, machineVars>>

\* Seeded fault: the error of the signal is dropped.
KillErrorDropped ==
    /\ pc = "kill"
    /\ killed' = holder /\ pc' = "after"
    /\ UNCHANGED <<commands, known, evidence, thread, failed, cleanup, root, machineVars>>

\* The signal reaches whoever has the number now; a process that is gone is an error.
Kill ==
    /\ pc = "kill"
    /\ \/ Alive /\ killed' = holder /\ pc' = "after" /\ UNCHANGED <<failed, cleanup>>
       \/ Finish("kill_failed") /\ UNCHANGED killed
    /\ UNCHANGED <<commands, known, evidence, thread, root, machineVars>>

\* The second processEvidence is asked whether the process is there, nothing else.
ReadAfter ==
    /\ pc = "after"
    /\ Alive
    /\ Finish("process_still_alive")
    /\ UNCHANGED <<commands, known, evidence, thread, root, killed, machineVars>>

\* The deferred removal; its error is dropped.
RemoveRoot ==
    /\ pc = "remove"
    /\ root' \in {"removed", "partly"}
    /\ pc' = "done"
    /\ UNCHANGED <<commands, known, evidence, thread, failed, cleanup, killed, machineVars>>

-----------------------------------------------------------------------------
(* The machine. *)

\* What the start command launched comes up, perhaps after the command was given up.
Boot ==
    /\ "start" \in commands
    /\ holder = "unborn"
    /\ holder' = Daemon
    /\ socketFile' \in BOOLEAN /\ pidFile' \in BOOLEAN
    /\ steady' = FALSE
    /\ UNCHANGED <<pc, gateVars>>

\* The daemon, while it is up, makes and removes its files.
Files ==
    /\ holder = Daemon
    /\ socketFile' \in BOOLEAN /\ pidFile' \in BOOLEAN
    /\ UNCHANGED <<pc, gateVars, holder, steady>>

\* A process ends; its files may stay behind.
Exit ==
    /\ Alive
    /\ holder' = "free"
    /\ steady' = FALSE
    /\ UNCHANGED <<pc, gateVars, socketFile, pidFile>>

\* The number is given to another process.
Takeover ==
    /\ holder = "free"
    /\ holder' \in Others
    /\ steady' = FALSE
    /\ UNCHANGED <<pc, gateVars, socketFile, pidFile>>

Terminated == pc = "done" /\ UNCHANGED vars

Gate ==
    \/ NewSession \/ MakeRoot
    \/ Prepare("dirs", "seed") \/ Prepare("seed", "start")
    \/ StartIssued \/ StartAnswered \/ Discover \/ CheckVersion \/ StartThread
    \/ Stop \/ CheckSocket \/ DaemonPid
    \/ \E here \in {"command", "executable", "home", "after"} : ReadGone(here)
    \/ ReadFailed \/ ReadCommand \/ ReadExecutable \/ ReadHome
    \/ Kill \/ ReadAfter \/ RemoveRoot

Machine == Boot \/ Files \/ Exit \/ Takeover

Next == Gate \/ Machine \/ Terminated

Spec == Init /\ [][Next]_vars

-----------------------------------------------------------------------------
(* Properties. *)

TypeOK ==
    /\ pc \in Points
    /\ commands \subseteq {"start", "version", "stop"}
    /\ known \subseteq Fields
    /\ evidence \in Evidence
    /\ thread \in BOOLEAN /\ failed \in BOOLEAN /\ steady \in BOOLEAN
    /\ cleanup \in Cleanups
    /\ root \in {"none", "present", "removed", "partly"}
    /\ holder \in {"unborn", "free", Daemon} \cup Others
    /\ socketFile \in BOOLEAN /\ pidFile \in BOOLEAN
    /\ killed \in {"nobody", Daemon} \cup Others

\* The root is removed only when no daemon runs in it, nor one that was asked for may
\* still come up (removeRoot in CheckDaemon, "pid_missing" in cleanupProcess).
RootOutlivesDaemon ==
    root \in {"removed", "partly"} =>
        holder # Daemon /\ (holder = "unborn" => "start" \notin commands)

\* A gate that ends with its daemon still there says so and keeps the root
\* (daemonStarted, cleanupDaemon).
LeftRunningReported ==
    pc = "done" /\ holder = Daemon =>
        failed /\ root = "present" /\ cleanup \notin {"not_started", "stopped"}

\* A gate that reports success has started a thread, asked the daemon to stop, found it
\* gone, and gone on to remove the root (the last lines of CheckDaemon).
SuccessMeansDone ==
    pc = "done" /\ ~failed =>
        /\ thread
        /\ commands = {"start", "version", "stop"}
        /\ holder \notin {"unborn", Daemon}
        /\ root \in {"removed", "partly"}

\* Unless the number changed hands between the reads and the signal, only a process of
\* the session is killed (processHasKnownSource, processHasTempHome).
OnlyOwnedKilled ==
    [][killed' # killed /\ steady => killed' \in Session]_vars

\* A daemon the gate has killed is cleaned up after
\* (TestRunKillsOwnedLiveProcessBeforeRemovingTempRoot).
KilledThenRemoved ==
    pc = "done" /\ killed = Daemon /\ cleanup # "read_failed" => root # "present"

-----------------------------------------------------------------------------
(* The inductive invariant behind the properties. *)

\* No daemon runs, and none is still to come.
NoDaemon == holder # Daemon /\ (holder = "unborn" => "start" \notin commands)

BeforeStart == {"session", "root", "dirs", "seed"}
AfterStop == {"socket", "pid", "command", "executable", "home", "kill", "after"}
HasNumber == {"command", "executable", "home", "kill", "after"}

\* Only the start command brings a daemon up, and only a daemon that came up leaves a
\* number to know it by.
LaunchInv ==
    /\ pc \in BeforeStart => commands = {}
    /\ "start" \notin commands => holder = "unborn"
    /\ "pid" \in known \/ pidFile \/ pc \in HasNumber => holder # "unborn"
    /\ pc \notin BeforeStart \cup {"start", "remove", "done"} => "start" \in commands

\* The root is there until it is removed, and goes only without a daemon.
RootInv ==
    /\ pc \notin {"session", "root", "done"} => root = "present"
    /\ root \in {"removed", "partly"} => pc = "done" /\ NoDaemon
    /\ pc = "remove" => NoDaemon
    /\ pc = "done" =>
          NoDaemon \/ (failed /\ root = "present" /\ cleanup \notin {"not_started", "stopped"})

\* Without an error the gate has done everything up to where it is.
ProgressInv ==
    ~failed =>
        /\ pc \in {"thread", "stop", "remove", "done"} \cup AfterStop => "version" \in commands
        /\ pc \in {"stop", "remove", "done"} \cup AfterStop => thread
        /\ pc \in {"remove", "done"} \cup AfterStop => "stop" \in commands /\ "start" \in commands
        /\ pc = "done" => root \in {"removed", "partly"}

\* While the number keeps its holder, the evidence is about the holder.
EvidenceInv ==
    steady =>
        /\ pc \in {"executable", "home", "kill"} =>
              Alive /\ evidence.command = Looks[holder].command
        /\ pc \in {"home", "kill"} => evidence.executable = Looks[holder].executable
        /\ pc = "kill" => Looks[holder].home /\ (evidence.command \/ evidence.executable)

IInv == TypeOK /\ LaunchInv /\ RootInv /\ ProgressInv /\ EvidenceInv
=============================================================================
