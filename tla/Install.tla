------------------------------ MODULE Install ------------------------------
(***************************************************************************)
(* The driver home (internal/install) and the commands that work on it:    *)
(* install, upgrade and remove, and run, which starts the transmit loop    *)
(* with the configuration the install record holds.                        *)
(*                                                                         *)
(* Each command is a process of its own.  A file is written in two steps,  *)
(* as os.WriteFile does it: opening it truncates it, writing fills it.     *)
(* Between any two steps another command may work on the same home, the    *)
(* process may be killed, and every system call may fail.                  *)
(***************************************************************************)
EXTENDS Integers, FiniteSets

CONSTANTS
    Processes,        \* bound: each runs one command
    Configs,          \* configurations, told apart by their digest
    Outdated,         \* those config.Validate of this driver rejects
    NoConfig,         \* not a configuration
    CurrentVersion,   \* driver_manifest.json: install_record.current_version
    MinimumReadable,  \* and minimum_readable_version
    InitialRecords,   \* what earlier drivers may have left as install.json
    Serial            \* a command begins only when no other one is under way

ASSUME ConfigAssumption == Outdated \subseteq Configs /\ NoConfig \notin Configs

\* requirements_validation.go requires no less of the manifest.
ASSUME VersionAssumption ==
    /\ CurrentVersion \in Nat \ {0}
    /\ MinimumReadable \in 1..CurrentVersion

Absent == [state |-> "absent", config |-> NoConfig, version |-> 0]
Torn == [state |-> "torn", config |-> NoConfig, version |-> 0]
Written(config, version) == [state |-> "written", config |-> config, version |-> version]

Records ==
    {Absent, Torn} \cup [state : {"written"}, config : Configs, version : Nat]
Extras == {Absent, Torn, Written(NoConfig, 0)}

ASSUME RecordAssumption == InitialRecords \subseteq Records

\* ownedPaths, numbered in their order: install.json, protocol, runner.  The owned
\* files are written and removed in this order.
RecordPath == 1
Paths == 1..3

VARIABLES
    disk,      \* what the home holds at each owned path
    command,   \* the command of each process
    config,    \* the configuration it works with
    pc,        \* where it is
    at,        \* the path it writes or removes next
    linked,    \* the file it has open is still the one at that path
    verified   \* configurations Verify accepted

vars == <<disk, command, config, pc, at, linked, verified>>

Ended == {"ok", "failed", "killed"}

Init ==
    /\ \E r \in InitialRecords, e \in {Absent, Written(NoConfig, 0)} :
          disk = [path \in Paths |-> IF path = RecordPath THEN r ELSE e]
    /\ command = [p \in Processes |-> "none"]
    /\ config = [p \in Processes |-> NoConfig]
    /\ pc = [p \in Processes |-> "idle"]
    /\ at = [p \in Processes |-> RecordPath]
    /\ linked = [p \in Processes |-> FALSE]
    /\ verified = {}

\* Record.StoredVersion: the first records carry no version.
StoredVersion(r) == IF r.version = 0 THEN 1 ELSE r.version

\* Load finds a complete record; one that is absent or torn is an error.
Loaded == disk[RecordPath].state = "written"

\* Seeded fault: a record of a newer driver is taken for a readable one.
CheckRecordVersionFromBelow(version) == version >= MinimumReadable

CheckRecordVersion(version) == version \in MinimumReadable..CurrentVersion

Goto(p, point) == pc' = [pc EXCEPT ![p] = point]

\* Any step of a command may fail, and ends it.
Fail(p) == Goto(p, "failed") /\ UNCHANGED <<disk, command, config, at, linked, verified>>

-----------------------------------------------------------------------------
(* The commands.                                                           *)

FirstPoint(cmd) ==
    CASE cmd = "install" -> "verify"
      [] cmd = "remove"  -> "remove"
      [] OTHER           -> "load"

\* install reads its configuration at once: one that is not valid ends it.
Begin(p) ==
    /\ pc[p] = "idle"
    /\ Serial => \A q \in Processes : pc[q] \in {"idle"} \cup Ended
    /\ \E cmd \in {"install", "upgrade", "remove", "run"} :
        /\ command' = [command EXCEPT ![p] = cmd]
        /\ \E c \in Configs \ Outdated :
              config' = [config EXCEPT ![p] = IF cmd = "install" THEN c ELSE NoConfig]
        /\ Goto(p, FirstPoint(cmd))
    /\ UNCHANGED <<disk, at, linked, verified>>

\* Seeded fault: a failed verification is overlooked.
VerifyUnread(p) ==
    /\ pc[p] = "verify"
    /\ Goto(p, IF command[p] = "install" THEN "load" ELSE "open")
    /\ UNCHANGED <<disk, command, config, at, linked, verified>>

\* Verify accepts what the service and the app server answer for the configuration;
\* an upgrade goes on to write, an install looks for a record first.
Verify(p) ==
    /\ pc[p] = "verify"
    /\ verified' = verified \cup {config[p]}
    /\ Goto(p, IF command[p] = "install" THEN "load" ELSE "open")
    /\ UNCHANGED <<disk, command, config, at, linked>>

\* Seeded fault: another configuration is overwritten.
LoadForInstallOverwriting(p) ==
    /\ pc[p] = "load" /\ command[p] = "install"
    /\ \/ disk[RecordPath] = Absent /\ Goto(p, "open")
       \/ Loaded /\ Goto(p, IF disk[RecordPath].config = config[p] THEN "ok" ELSE "open")
    /\ UNCHANGED <<disk, command, config, at, linked, verified>>

\* Seeded fault: a record that cannot be read is taken for none.
LoadForInstallOverTorn(p) ==
    /\ pc[p] = "load" /\ command[p] = "install"
    /\ \/ ~Loaded /\ Goto(p, "open")
       \/ Loaded /\ disk[RecordPath].config = config[p] /\ Goto(p, "ok")
    /\ UNCHANGED <<disk, command, config, at, linked, verified>>

\* Apply: an existing record of the same digest is the answer, as it is; another one
\* is a conflict, and a torn one an error.
LoadForInstall(p) ==
    /\ pc[p] = "load" /\ command[p] = "install"
    /\ \/ disk[RecordPath] = Absent /\ Goto(p, "open")
       \/ Loaded /\ disk[RecordPath].config = config[p] /\ Goto(p, "ok")
    /\ UNCHANGED <<disk, command, config, at, linked, verified>>

\* Upgrade: a record this driver reads, whose configuration it still accepts.
LoadForUpgrade(p) ==
    /\ pc[p] = "load" /\ command[p] = "upgrade"
    /\ Loaded
    /\ CheckRecordVersion(StoredVersion(disk[RecordPath]))
    /\ disk[RecordPath].config \notin Outdated
    /\ config' = [config EXCEPT ![p] = disk[RecordPath].config]
    /\ Goto(p, "verify")
    /\ UNCHANGED <<disk, command, at, linked, verified>>

\* runCommand: only a record of the current version is run.
LoadForRun(p) ==
    /\ pc[p] = "load" /\ command[p] = "run"
    /\ Loaded
    /\ StoredVersion(disk[RecordPath]) = CurrentVersion
    /\ config' = [config EXCEPT ![p] = disk[RecordPath].config]
    /\ Goto(p, "running")
    /\ UNCHANGED <<disk, command, at, linked, verified>>

\* os.WriteFile, first half: the file is created, or cut to nothing.
Open(p) ==
    /\ pc[p] = "open"
    /\ disk' = [disk EXCEPT ![at[p]] = Torn]
    /\ linked' = [linked EXCEPT ![p] = TRUE]
    /\ Goto(p, "write")
    /\ UNCHANGED <<command, config, at, verified>>

\* What the command writes: writeRecord, writeManifestFiles or writeConfigFiles.
Content(p) ==
    IF at[p] = RecordPath THEN Written(config[p], CurrentVersion) ELSE Written(NoConfig, 0)

\* Seeded fault: there is always one more file.
AdvancePastTheEnd(p, point) ==
    /\ at' = [at EXCEPT ![p] = @ + 1]
    /\ Goto(p, IF at[p] <= 3 THEN point ELSE "ok")

\* On to the next path, or the command has succeeded.
Advance(p, point) ==
    IF at[p] + 1 \in Paths
    THEN at' = [at EXCEPT ![p] = @ + 1] /\ Goto(p, point)
    ELSE Goto(p, "ok") /\ UNCHANGED at

\* os.WriteFile, second half; a file that was removed meanwhile is gone.
Write(p) ==
    /\ pc[p] = "write"
    /\ disk' = IF linked[p] THEN [disk EXCEPT ![at[p]] = Content(p)] ELSE disk
    /\ linked' = [linked EXCEPT ![p] = FALSE]
    /\ Advance(p, "open")
    /\ UNCHANGED <<command, config, verified>>

\* Seeded fault: a file that could not be written does not end the command.
WriteFailedQuietly(p) ==
    /\ pc[p] = "write"
    /\ linked' = [linked EXCEPT ![p] = FALSE]
    /\ Advance(p, "open")
    /\ UNCHANGED <<disk, command, config, verified>>

\* The write is refused or cut short: what was there, if anything, may be torn.
WriteFailed(p) ==
    /\ pc[p] = "write"
    /\ \/ UNCHANGED disk
       \/ linked[p] /\ disk' = [disk EXCEPT ![at[p]] = Torn]
    /\ linked' = [linked EXCEPT ![p] = FALSE]
    /\ Goto(p, "failed")
    /\ UNCHANGED <<command, config, at, verified>>

\* Remove: os.RemoveAll of the next owned path; whoever has the file open loses it.
RemovePath(p) ==
    /\ pc[p] = "remove"
    /\ disk' = [disk EXCEPT ![at[p]] = Absent]
    /\ linked' = [q \in Processes |-> linked[q] /\ at[q] # at[p]]
    /\ Advance(p, "remove")
    /\ UNCHANGED <<command, config, verified>>

\* A system call, the verification or a check of the loaded record fails; for loads
\* this is the answer to every record no other action takes.
StepFailed(p) ==
    /\ pc[p] \in {"verify", "load", "open", "remove"}
    /\ Fail(p)

\* EnsureDaemon, or the transmit loop it is followed by, comes to its end.
RunEnded(p) ==
    /\ pc[p] = "running"
    /\ Goto(p, "ok")
    /\ UNCHANGED <<disk, command, config, at, linked, verified>>

Kill(p) ==
    /\ pc[p] \notin {"idle"} \cup Ended
    /\ Goto(p, "killed")
    /\ linked' = [linked EXCEPT ![p] = FALSE]
    /\ UNCHANGED <<disk, command, config, at, verified>>

Step(p) ==
    \/ Begin(p) \/ Verify(p)
    \/ LoadForInstall(p) \/ LoadForUpgrade(p) \/ LoadForRun(p)
    \/ Open(p) \/ Write(p) \/ WriteFailed(p) \/ RemovePath(p)
    \/ StepFailed(p) \/ RunEnded(p) \/ Kill(p)

AllEnded == (\A p \in Processes : pc[p] \in Ended) /\ UNCHANGED vars

Next == (\E p \in Processes : Step(p)) \/ AllEnded

Spec == Init /\ [][Next]_vars

-----------------------------------------------------------------------------
(* Properties.                                                             *)

Points == {"idle", "verify", "load", "open", "write", "remove", "running"} \cup Ended

TypeOK ==
    /\ DOMAIN disk = Paths
    /\ disk[RecordPath] \in Records
    /\ \A path \in Paths \ {RecordPath} : disk[path] \in Extras
    /\ command \in [Processes -> {"none", "install", "upgrade", "remove", "run"}]
    /\ config \in [Processes -> Configs \cup {NoConfig}]
    /\ pc \in [Processes -> Points]
    /\ at \in [Processes -> Paths]
    /\ linked \in [Processes -> BOOLEAN]
    /\ verified \subseteq Configs

\* Configurations a current-version record held from the start: the earlier command
\* that wrote it had verified them.
VerifiedBefore ==
    {r.config : r \in {i \in InitialRecords :
                          i.state = "written" /\ StoredVersion(i) = CurrentVersion}}

\* The driver only ever runs a configuration that passed the compatibility check of an
\* install or upgrade of its own version, however commands overlap, fail or are killed.
RunsVerified ==
    \A p \in Processes : pc[p] = "running" => config[p] \in verified \cup VerifiedBefore

Newer(r) == r.state = "written" /\ StoredVersion(r) > CurrentVersion
OutdatedConfig(r) == r.state = "written" /\ r.config \in Outdated

\* A record this driver cannot keep up - of a newer driver, or with a configuration it
\* no longer accepts - is never rewritten: only remove takes it away (upgrade_test.go).
ForeignKept ==
    [][LET r == disk[RecordPath] IN
       Newer(r) \/ OutdatedConfig(r) => disk'[RecordPath] \in {r, Absent}]_vars

\* With one command at a time, a torn record that nobody is writing stays as it is, and
\* nobody begins to write it, until it is removed: install and upgrade both stop at it
\* (Load, LoadReadable; upgrade_test.go,
\* TestInstallerUpgradePreservesMalformedRecordWithDiagnostic).
TornKept ==
    [][disk[RecordPath] = Torn /\ (\A p \in Processes : ~linked[p]) =>
          /\ disk'[RecordPath] \in {Torn, Absent}
          /\ \A p \in Processes : linked'[p] => at'[p] # RecordPath]_vars

\* With one command at a time, nobody is about to write over a complete record with
\* another configuration (existingOrConflict): what replaces it is an upgrade of it.
NoOverwrite ==
    \A p \in Processes :
        pc[p] = "open" /\ at[p] = RecordPath /\ Loaded => disk[RecordPath].config = config[p]

Complete == \A path \in Paths : disk[path].state = "written"
Cleared == \A path \in Paths : disk[path] = Absent

\* With one command at a time, an upgrade that reports success leaves every owned file
\* complete, and a remove that does leaves none, whatever was interrupted before.
SuccessMeansDone ==
    [][\A p \in Processes : pc[p] # "ok" /\ pc'[p] = "ok" =>
          /\ command[p] = "upgrade" => Complete'
          /\ command[p] = "remove" => Cleared']_vars

\* `driver install` writes the driver-owned configuration under the home (README.md): an
\* install that reports success leaves every owned file there (apply_test.go,
\* TestInstallerWritesOwnedFilesAfterCompatibilityCheck).
InstalledMeansComplete ==
    [][\A p \in Processes :
          command[p] = "install" /\ pc[p] # "ok" /\ pc'[p] = "ok" => Complete']_vars

-----------------------------------------------------------------------------
(* The inductive invariant behind RunsVerified.                            *)

\* Whoever writes has verified its configuration, and so has whoever wrote the record.
VerifiedInv ==
    /\ \A p \in Processes :
          /\ pc[p] = "verify" => config[p] \in Configs
          /\ command[p] = "install" /\ pc[p] = "load" => config[p] \in verified
          /\ pc[p] \in {"open", "write"} => config[p] \in verified
    /\ Loaded /\ StoredVersion(disk[RecordPath]) = CurrentVersion =>
          disk[RecordPath].config \in verified \cup VerifiedBefore

Foreign(r) == Newer(r) \/ OutdatedConfig(r)

\* What is written is never foreign, and while the record is, nobody is on the way to it:
\* it was there before every command, and no command that saw it goes on.
ForeignInv ==
    /\ \A p \in Processes :
          pc[p] \in {"verify", "open", "write"} \/ (pc[p] = "load" /\ command[p] = "install")
             => config[p] \notin Outdated
    /\ Foreign(disk[RecordPath]) => \A p \in Processes :
          /\ command[p] = "upgrade" => pc[p] # "verify"
          /\ at[p] = RecordPath => pc[p] \notin {"open", "write"}
    /\ \A p \in Processes : pc[p] = "verify" => command[p] \in {"install", "upgrade"}

\* Which command is where, and at which path.
PointsInv ==
    \A p \in Processes :
        /\ pc[p] \in {"idle", "verify", "load"} => at[p] = RecordPath
        /\ pc[p] \in {"open", "write"} => command[p] \in {"install", "upgrade"}
        /\ linked[p] => pc[p] = "write"

IInv == TypeOK /\ PointsInv /\ VerifiedInv /\ ForeignInv /\ RunsVerified
=============================================================================
