----------------------- MODULE DaemonReadinessProofs -----------------------
(***************************************************************************)
(* The safety of the readiness gate for every set of processes and every   *)
(* look of them.  IInv is inductive: InitIInv, and one lemma for each of   *)
(* its parts with one step per action.  The properties follow from it.     *)
(***************************************************************************)
EXTENDS DaemonReadiness, TLAPS

\* TypeOK in two parts, for provers that treat Boolean variables apart.
Flags ==
    /\ thread \in BOOLEAN /\ failed \in BOOLEAN /\ steady \in BOOLEAN
    /\ socketFile \in BOOLEAN /\ pidFile \in BOOLEAN

Kinds ==
    /\ pc \in Points
    /\ commands \subseteq {"start", "version", "stop"}
    /\ known \subseteq Fields
    /\ evidence \in Evidence
    /\ cleanup \in Cleanups
    /\ root \in {"none", "present", "removed", "partly"}
    /\ holder \in {"unborn", "free", Daemon} \cup Others
    /\ killed \in {"nobody", Daemon} \cup Others

\* Every step keeps the types: the Boolean variables ...
LEMMA FlagsPreserved ==
  ASSUME IInv, Next
  PROVE  Flags'
<1> USE DEF Flags, vars, gateVars, machineVars
<1>a. Flags BY DEF IInv, TypeOK, Flags, Kinds
<1>1. CASE NewSession BY <1>1, <1>a DEF NewSession, Fail
<1>2. CASE MakeRoot BY <1>2, <1>a DEF MakeRoot, Fail
<1>3. CASE StartIssued BY <1>3, <1>a DEF StartIssued
<1>4. CASE StartAnswered BY <1>4, <1>a DEF StartAnswered, Fail, Learned, LearnedInVain
<1>5. CASE Discover BY <1>5, <1>a DEF Discover, Fail
<1>6. CASE CheckVersion BY <1>6, <1>a DEF CheckVersion, Fail, Learned, LearnedInVain
<1>7. CASE StartThread BY <1>7, <1>a DEF StartThread, Fail
<1>8. CASE Stop BY <1>8, <1>a DEF Stop, Finish
<1>9. CASE CheckSocket BY <1>9, <1>a DEF CheckSocket, Finish
<1>10. CASE DaemonPid BY <1>10, <1>a DEF DaemonPid, Finish
<1>11. CASE ReadFailed BY <1>11, <1>a DEF ReadFailed, Finish
<1>12. CASE ReadCommand BY <1>12, <1>a DEF ReadCommand
<1>13. CASE ReadExecutable BY <1>13, <1>a DEF ReadExecutable
<1>14. CASE ReadHome BY <1>14, <1>a DEF ReadHome, Finish
<1>15. CASE Kill BY <1>15, <1>a DEF Kill, Finish
<1>16. CASE ReadAfter BY <1>16, <1>a DEF ReadAfter, Finish
<1>17. CASE RemoveRoot BY <1>17, <1>a DEF RemoveRoot
<1>18. CASE Boot BY <1>18, <1>a DEF Boot
<1>19. CASE Files BY <1>19, <1>a DEF Files
<1>20. CASE Exit BY <1>20, <1>a DEF Exit
<1>21. CASE Takeover BY <1>21, <1>a DEF Takeover
<1>22. CASE Prepare("dirs", "seed") BY <1>22, <1>a DEF Prepare, Fail
<1>23. CASE Prepare("seed", "start") BY <1>23, <1>a DEF Prepare, Fail
<1>24. ASSUME NEW here \in {"command", "executable", "home", "after"}, ReadGone(here)
      PROVE  Flags'
  BY <1>24, <1>a DEF ReadGone, Finish
<1>25. CASE UNCHANGED vars BY <1>25, <1>a
<1> QED BY <1>1, <1>2, <1>3, <1>4, <1>5, <1>6, <1>7, <1>8, <1>9, <1>10, <1>11, <1>12,
    <1>13, <1>14, <1>15, <1>16, <1>17, <1>18, <1>19, <1>20, <1>21, <1>22, <1>23, <1>24,
    <1>25 DEF Next, Gate, Machine, Terminated

\* ... and the others.
LEMMA KindsPreserved ==
  ASSUME IInv, Next
  PROVE  Kinds'
<1> USE DEF Kinds, Points, Cleanups, Fields, Alive, vars, gateVars, machineVars
<1>a. Kinds BY DEF IInv, TypeOK, Flags, Kinds
<1>1. CASE NewSession BY <1>1, <1>a DEF NewSession, Fail
<1>2. CASE MakeRoot BY <1>2, <1>a DEF MakeRoot, Fail
<1>3. CASE StartIssued BY <1>3, <1>a DEF StartIssued
<1>4. CASE StartAnswered
  <2>1. known' \subseteq Fields BY <1>4, <1>a DEF StartAnswered, Learned, LearnedInVain
  <2>2. pc' \in Points BY <1>4 DEF StartAnswered, Fail
  <2> QED BY <1>4, <1>a, <2>1, <2>2 DEF StartAnswered
<1>5. CASE Discover
  <2>1. known' \subseteq Fields BY <1>5, <1>a DEF Discover
  <2>2. pc' \in Points BY <1>5 DEF Discover, Fail
  <2> QED BY <1>5, <1>a, <2>1, <2>2 DEF Discover
<1>6. CASE CheckVersion
  <2>1. known' \subseteq Fields BY <1>6, <1>a DEF CheckVersion, Learned, LearnedInVain
  <2>2. pc' \in Points BY <1>6 DEF CheckVersion, Fail
  <2> QED BY <1>6, <1>a, <2>1, <2>2 DEF CheckVersion
<1>7. CASE StartThread BY <1>7, <1>a DEF StartThread, Fail
<1>8. CASE Stop BY <1>8, <1>a DEF Stop, Finish
<1>9. CASE CheckSocket BY <1>9, <1>a DEF CheckSocket, Finish
<1>10. CASE DaemonPid BY <1>10, <1>a DEF DaemonPid, Finish
<1>11. CASE ReadFailed BY <1>11, <1>a DEF ReadFailed, Finish
<1>12. CASE ReadCommand
  <2>1. evidence' \in Evidence
    BY <1>12, <1>a, ProcessAssumption DEF ReadCommand, Evidence
  <2> QED BY <1>12, <1>a, <2>1 DEF ReadCommand
<1>13. CASE ReadExecutable
  <2>1. evidence' \in Evidence
    BY <1>13, <1>a, ProcessAssumption DEF ReadExecutable, Evidence
  <2> QED BY <1>13, <1>a, <2>1 DEF ReadExecutable
<1>14. CASE ReadHome
  <2>1. evidence' \in Evidence
    BY <1>14, <1>a, ProcessAssumption DEF ReadHome, Evidence
  <2> QED BY <1>14, <1>a, <2>1 DEF ReadHome, Finish
<1>15. CASE Kill BY <1>15, <1>a DEF Kill, Finish
<1>16. CASE ReadAfter BY <1>16, <1>a DEF ReadAfter, Finish
<1>17. CASE RemoveRoot BY <1>17, <1>a DEF RemoveRoot
<1>18. CASE Boot BY <1>18, <1>a DEF Boot
<1>19. CASE Files BY <1>19, <1>a DEF Files
<1>20. CASE Exit BY <1>20, <1>a DEF Exit
<1>21. CASE Takeover BY <1>21, <1>a DEF Takeover
<1>22. CASE Prepare("dirs", "seed") BY <1>22, <1>a DEF Prepare, Fail
<1>23. CASE Prepare("seed", "start") BY <1>23, <1>a DEF Prepare, Fail
<1>24. ASSUME NEW here \in {"command", "executable", "home", "after"}, ReadGone(here)
      PROVE  Kinds'
  BY <1>24, <1>a DEF ReadGone, Finish
<1>25. CASE UNCHANGED vars BY <1>25, <1>a
<1> QED BY <1>1, <1>2, <1>3, <1>4, <1>5, <1>6, <1>7, <1>8, <1>9, <1>10, <1>11, <1>12,
    <1>13, <1>14, <1>15, <1>16, <1>17, <1>18, <1>19, <1>20, <1>21, <1>22, <1>23, <1>24,
    <1>25 DEF Next, Gate, Machine, Terminated

\* The start command stays the only source of a daemon and of its number.
LEMMA LaunchInvPreserved ==
  ASSUME IInv, Next
  PROVE  LaunchInv'
<1> USE ProcessAssumption DEF LaunchInv, TypeOK, BeforeStart, HasNumber, Alive, vars,
    gateVars, machineVars
<1>a. TypeOK /\ LaunchInv BY DEF IInv
<1>1. CASE NewSession BY <1>1, <1>a DEF NewSession, Fail
<1>2. CASE MakeRoot BY <1>2, <1>a DEF MakeRoot, Fail
<1>3. CASE StartIssued BY <1>3, <1>a DEF StartIssued
<1>4. CASE StartAnswered BY <1>4, <1>a DEF StartAnswered, Fail, Learned, LearnedInVain
<1>5. CASE Discover BY <1>5, <1>a DEF Discover, Fail
<1>6. CASE CheckVersion BY <1>6, <1>a DEF CheckVersion, Fail, Learned, LearnedInVain
<1>7. CASE StartThread BY <1>7, <1>a DEF StartThread, Fail
<1>8. CASE Stop BY <1>8, <1>a DEF Stop, Finish
<1>9. CASE CheckSocket BY <1>9, <1>a DEF CheckSocket, Finish
<1>10. CASE DaemonPid BY <1>10, <1>a DEF DaemonPid, Finish
<1>11. CASE ReadFailed BY <1>11, <1>a DEF ReadFailed, Finish
<1>12. CASE ReadCommand BY <1>12, <1>a DEF ReadCommand
<1>13. CASE ReadExecutable BY <1>13, <1>a DEF ReadExecutable
<1>14. CASE ReadHome BY <1>14, <1>a DEF ReadHome, Finish
<1>15. CASE Kill BY <1>15, <1>a DEF Kill, Finish
<1>16. CASE ReadAfter BY <1>16, <1>a DEF ReadAfter, Finish
<1>17. CASE RemoveRoot BY <1>17, <1>a DEF RemoveRoot
<1>18. CASE Boot BY <1>18, <1>a DEF Boot
<1>19. CASE Files BY <1>19, <1>a DEF Files
<1>20. CASE Exit BY <1>20, <1>a DEF Exit
<1>21. CASE Takeover BY <1>21, <1>a DEF Takeover
<1>22. CASE Prepare("dirs", "seed") BY <1>22, <1>a DEF Prepare, Fail
<1>23. CASE Prepare("seed", "start") BY <1>23, <1>a DEF Prepare, Fail
<1>24. ASSUME NEW here \in {"command", "executable", "home", "after"}, ReadGone(here)
      PROVE  LaunchInv'
  BY <1>24, <1>a DEF ReadGone, Finish
<1>25. CASE UNCHANGED vars BY <1>25, <1>a
<1> QED BY <1>1, <1>2, <1>3, <1>4, <1>5, <1>6, <1>7, <1>8, <1>9, <1>10, <1>11, <1>12,
    <1>13, <1>14, <1>15, <1>16, <1>17, <1>18, <1>19, <1>20, <1>21, <1>22, <1>23, <1>24,
    <1>25 DEF Next, Gate, Machine, Terminated

\* The root stays until no daemon runs in it.
LEMMA RootInvPreserved ==
  ASSUME IInv, Next
  PROVE  RootInv'
<1> USE ProcessAssumption DEF RootInv, LaunchInv, TypeOK, BeforeStart, HasNumber,
    NoDaemon, Alive, vars, gateVars, machineVars
<1>a. TypeOK /\ LaunchInv /\ RootInv BY DEF IInv
<1>1. CASE NewSession BY <1>1, <1>a DEF NewSession, Fail
<1>2. CASE MakeRoot BY <1>2, <1>a DEF MakeRoot, Fail
<1>3. CASE StartIssued BY <1>3, <1>a DEF StartIssued
<1>4. CASE StartAnswered BY <1>4, <1>a DEF StartAnswered, Fail, Learned, LearnedInVain
<1>5. CASE Discover BY <1>5, <1>a DEF Discover, Fail
<1>6. CASE CheckVersion BY <1>6, <1>a DEF CheckVersion, Fail, Learned, LearnedInVain
<1>7. CASE StartThread BY <1>7, <1>a DEF StartThread, Fail
<1>8. CASE Stop BY <1>8, <1>a DEF Stop, Finish
<1>9. CASE CheckSocket BY <1>9, <1>a DEF CheckSocket, Finish
<1>10. CASE DaemonPid BY <1>10, <1>a DEF DaemonPid, Finish
<1>11. CASE ReadFailed BY <1>11, <1>a DEF ReadFailed, Finish
<1>12. CASE ReadCommand BY <1>12, <1>a DEF ReadCommand
<1>13. CASE ReadExecutable BY <1>13, <1>a DEF ReadExecutable
<1>14. CASE ReadHome BY <1>14, <1>a DEF ReadHome, Finish
<1>15. CASE Kill BY <1>15, <1>a DEF Kill, Finish
<1>16. CASE ReadAfter BY <1>16, <1>a DEF ReadAfter, Finish
<1>17. CASE RemoveRoot BY <1>17, <1>a DEF RemoveRoot
<1>18. CASE Boot BY <1>18, <1>a DEF Boot
<1>19. CASE Files BY <1>19, <1>a DEF Files
<1>20. CASE Exit BY <1>20, <1>a DEF Exit
<1>21. CASE Takeover BY <1>21, <1>a DEF Takeover
<1>22. CASE Prepare("dirs", "seed") BY <1>22, <1>a DEF Prepare, Fail
<1>23. CASE Prepare("seed", "start") BY <1>23, <1>a DEF Prepare, Fail
<1>24. ASSUME NEW here \in {"command", "executable", "home", "after"}, ReadGone(here)
      PROVE  RootInv'
  BY <1>24, <1>a DEF ReadGone, Finish
<1>25. CASE UNCHANGED vars BY <1>25, <1>a
<1> QED BY <1>1, <1>2, <1>3, <1>4, <1>5, <1>6, <1>7, <1>8, <1>9, <1>10, <1>11, <1>12,
    <1>13, <1>14, <1>15, <1>16, <1>17, <1>18, <1>19, <1>20, <1>21, <1>22, <1>23, <1>24,
    <1>25 DEF Next, Gate, Machine, Terminated

\* Without an error nothing is left out.
LEMMA ProgressInvPreserved ==
  ASSUME IInv, Next
  PROVE  ProgressInv'
<1> USE ProcessAssumption DEF ProgressInv, LaunchInv, TypeOK, BeforeStart, AfterStop,
    vars, gateVars, machineVars
<1>a. TypeOK /\ LaunchInv /\ ProgressInv BY DEF IInv
<1>1. CASE NewSession BY <1>1, <1>a DEF NewSession, Fail
<1>2. CASE MakeRoot BY <1>2, <1>a DEF MakeRoot, Fail
<1>3. CASE StartIssued BY <1>3, <1>a DEF StartIssued
<1>4. CASE StartAnswered BY <1>4, <1>a DEF StartAnswered, Fail, Learned, LearnedInVain
<1>5. CASE Discover BY <1>5, <1>a DEF Discover, Fail
<1>6. CASE CheckVersion BY <1>6, <1>a DEF CheckVersion, Fail, Learned, LearnedInVain
<1>7. CASE StartThread BY <1>7, <1>a DEF StartThread, Fail
<1>8. CASE Stop BY <1>8, <1>a DEF Stop, Finish
<1>9. CASE CheckSocket BY <1>9, <1>a DEF CheckSocket, Finish
<1>10. CASE DaemonPid BY <1>10, <1>a DEF DaemonPid, Finish
<1>11. CASE ReadFailed BY <1>11, <1>a DEF ReadFailed, Finish
<1>12. CASE ReadCommand BY <1>12, <1>a DEF ReadCommand
<1>13. CASE ReadExecutable BY <1>13, <1>a DEF ReadExecutable
<1>14. CASE ReadHome BY <1>14, <1>a DEF ReadHome, Finish
<1>15. CASE Kill BY <1>15, <1>a DEF Kill, Finish
<1>16. CASE ReadAfter BY <1>16, <1>a DEF ReadAfter, Finish
<1>17. CASE RemoveRoot BY <1>17, <1>a DEF RemoveRoot
<1>18. CASE Boot BY <1>18, <1>a DEF Boot
<1>19. CASE Files BY <1>19, <1>a DEF Files
<1>20. CASE Exit BY <1>20, <1>a DEF Exit
<1>21. CASE Takeover BY <1>21, <1>a DEF Takeover
<1>22. CASE Prepare("dirs", "seed") BY <1>22, <1>a DEF Prepare, Fail
<1>23. CASE Prepare("seed", "start") BY <1>23, <1>a DEF Prepare, Fail
<1>24. ASSUME NEW here \in {"command", "executable", "home", "after"}, ReadGone(here)
      PROVE  ProgressInv'
  BY <1>24, <1>a DEF ReadGone, Finish
<1>25. CASE UNCHANGED vars BY <1>25, <1>a
<1> QED BY <1>1, <1>2, <1>3, <1>4, <1>5, <1>6, <1>7, <1>8, <1>9, <1>10, <1>11, <1>12,
    <1>13, <1>14, <1>15, <1>16, <1>17, <1>18, <1>19, <1>20, <1>21, <1>22, <1>23, <1>24,
    <1>25 DEF Next, Gate, Machine, Terminated

\* The evidence stays about the holder as long as the number does not change hands.
LEMMA EvidenceInvPreserved ==
  ASSUME IInv, Next
  PROVE  EvidenceInv'
<1> USE ProcessAssumption DEF EvidenceInv, TypeOK, Evidence, Alive, vars, gateVars,
    machineVars
<1>a. TypeOK /\ EvidenceInv BY DEF IInv
<1>1. CASE NewSession BY <1>1, <1>a DEF NewSession, Fail
<1>2. CASE MakeRoot BY <1>2, <1>a DEF MakeRoot, Fail
<1>3. CASE StartIssued BY <1>3, <1>a DEF StartIssued
<1>4. CASE StartAnswered BY <1>4, <1>a DEF StartAnswered, Fail, Learned, LearnedInVain
<1>5. CASE Discover BY <1>5, <1>a DEF Discover, Fail
<1>6. CASE CheckVersion BY <1>6, <1>a DEF CheckVersion, Fail, Learned, LearnedInVain
<1>7. CASE StartThread BY <1>7, <1>a DEF StartThread, Fail
<1>8. CASE Stop BY <1>8, <1>a DEF Stop, Finish
<1>9. CASE CheckSocket BY <1>9, <1>a DEF CheckSocket, Finish
<1>10. CASE DaemonPid BY <1>10, <1>a DEF DaemonPid, Finish
<1>11. CASE ReadFailed BY <1>11, <1>a DEF ReadFailed, Finish
<1>12. CASE ReadCommand BY <1>12, <1>a DEF ReadCommand
<1>13. CASE ReadExecutable BY <1>13, <1>a DEF ReadExecutable
<1>14. CASE ReadHome BY <1>14, <1>a DEF ReadHome, Finish
<1>15. CASE Kill BY <1>15, <1>a DEF Kill, Finish
<1>16. CASE ReadAfter BY <1>16, <1>a DEF ReadAfter, Finish
<1>17. CASE RemoveRoot BY <1>17, <1>a DEF RemoveRoot
<1>18. CASE Boot BY <1>18, <1>a DEF Boot
<1>19. CASE Files BY <1>19, <1>a DEF Files
<1>20. CASE Exit BY <1>20, <1>a DEF Exit
<1>21. CASE Takeover BY <1>21, <1>a DEF Takeover
<1>22. CASE Prepare("dirs", "seed") BY <1>22, <1>a DEF Prepare, Fail
<1>23. CASE Prepare("seed", "start") BY <1>23, <1>a DEF Prepare, Fail
<1>24. ASSUME NEW here \in {"command", "executable", "home", "after"}, ReadGone(here)
      PROVE  EvidenceInv'
  BY <1>24, <1>a DEF ReadGone, Finish
<1>25. CASE UNCHANGED vars BY <1>25, <1>a
<1> QED BY <1>1, <1>2, <1>3, <1>4, <1>5, <1>6, <1>7, <1>8, <1>9, <1>10, <1>11, <1>12,
    <1>13, <1>14, <1>15, <1>16, <1>17, <1>18, <1>19, <1>20, <1>21, <1>22, <1>23, <1>24,
    <1>25 DEF Next, Gate, Machine, Terminated

LEMMA InitIInv == Init => IInv
<1> SUFFICES ASSUME Init PROVE IInv OBVIOUS
<1> USE ProcessAssumption DEF Init
<1>1. TypeOK BY DEF TypeOK, Points, Cleanups, Evidence, NoEvidence
<1>2. LaunchInv BY DEF LaunchInv, BeforeStart, HasNumber
<1>3. RootInv BY DEF RootInv
<1>4. ProgressInv BY DEF ProgressInv, AfterStop
<1>5. EvidenceInv BY DEF EvidenceInv
<1> QED BY <1>1, <1>2, <1>3, <1>4, <1>5 DEF IInv

LEMMA StepIInv == IInv /\ [Next]_vars => IInv'
<1>1. ASSUME IInv, Next PROVE IInv'
  BY <1>1, FlagsPreserved, KindsPreserved, LaunchInvPreserved, RootInvPreserved,
      ProgressInvPreserved,
     EvidenceInvPreserved DEF IInv, TypeOK, Flags, Kinds
<1>2. ASSUME IInv, UNCHANGED vars PROVE IInv'
  BY <1>2 DEF IInv, TypeOK, LaunchInv, RootInv, ProgressInv, EvidenceInv, NoDaemon, Alive,
     vars, gateVars, machineVars
<1> QED BY <1>1, <1>2

\* The invariant holds in every reachable state of the gate and the machine.
THEOREM Invariance == Spec => []IInv
BY InitIInv, StepIInv, PTL DEF Spec

\* Type correctness.
THEOREM TypeCorrect == Spec => []TypeOK
<1>1. IInv => TypeOK BY DEF IInv
<1> QED BY <1>1, Invariance, PTL

\* The temporary root is never removed under a daemon (removeRoot in CheckDaemon).
THEOREM RootOutlives == Spec => []RootOutlivesDaemon
<1>1. IInv => RootOutlivesDaemon BY DEF IInv, RootInv, NoDaemon, RootOutlivesDaemon
<1> QED BY <1>1, Invariance, PTL

\* A daemon that is left running is reported, and its root is kept (cleanupDaemon).
THEOREM LeftRunning == Spec => []LeftRunningReported
<1>1. IInv => LeftRunningReported BY DEF IInv, RootInv, NoDaemon, LeftRunningReported
<1> QED BY <1>1, Invariance, PTL

\* A success stands for a thread, all three commands, a daemon that is gone and a root
\* that was removed (CheckDaemon).
THEOREM Success == Spec => []SuccessMeansDone
<1>1. IInv => SuccessMeansDone
  BY DEF IInv, TypeOK, RootInv, ProgressInv, NoDaemon, SuccessMeansDone
<1> QED BY <1>1, Invariance, PTL

\* Only the signal changes whom the gate killed, and it goes to a process of the session
\* if that is still the one whose evidence was read (cleanupProcess).
THEOREM OwnedKilled == Spec => OnlyOwnedKilled
<1> DEFINE Owned == killed' # killed /\ steady => killed' \in Session
<1>1. ASSUME IInv, Kill PROVE Owned
  BY <1>1 DEF IInv, EvidenceInv, Alive, Session, Kill, machineVars
<1>2. ASSUME Next, ~Kill PROVE killed' = killed
  BY <1>2 DEF Next, Gate, Machine, Terminated, NewSession, MakeRoot, Prepare, StartIssued,
     StartAnswered, Discover, CheckVersion, StartThread, Stop, CheckSocket, DaemonPid,
     ReadGone, ReadFailed, ReadCommand, ReadExecutable, ReadHome, ReadAfter, RemoveRoot,
     Boot, Files, Exit, Takeover, vars, gateVars
<1>3. ASSUME UNCHANGED vars PROVE killed' = killed BY <1>3 DEF vars, gateVars
<1>4. IInv /\ [Next]_vars => [Owned]_vars BY <1>1, <1>2, <1>3
<1>5. Spec => [][Owned]_vars BY <1>4, Invariance, PTL DEF Spec
<1> QED BY <1>5 DEF Owned, OnlyOwnedKilled
=============================================================================
