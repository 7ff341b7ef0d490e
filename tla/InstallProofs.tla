--------------------------- MODULE InstallProofs ---------------------------
(***************************************************************************)
(* What the commands on a driver home guarantee for any number of          *)
(* overlapping, failing and killed commands: only verified configurations  *)
(* are run, and records this driver cannot keep up are left alone.         *)
(***************************************************************************)
EXTENDS Install, TLAPS

\* Records, owned files and paths, as sets.
LEMMA RecordFacts ==
  /\ Absent \in Records \cap Extras /\ Torn \in Records \cap Extras
  /\ Absent.state # "written" /\ Torn.state # "written" /\ Absent # Torn
  /\ \A c \in Configs : Written(c, CurrentVersion) \in Records
  /\ \A c : /\ Written(c, CurrentVersion).state = "written"
            /\ Written(c, CurrentVersion).config = c
            /\ StoredVersion(Written(c, CurrentVersion)) = CurrentVersion
  /\ Written(NoConfig, 0) \in Extras
  /\ RecordPath \in Paths /\ RecordPath = 1
  /\ \A r \in Records : r.state = "written" => r.config \in Configs
BY VersionAssumption DEF Absent, Torn, Written, Records, Extras, RecordPath, Paths, StoredVersion

\* A record this driver wrote is not foreign, nor is one that is absent or torn.
LEMMA OwnRecords ==
  /\ ~Foreign(Absent) /\ ~Foreign(Torn)
  /\ \A c : c \notin Outdated => ~Foreign(Written(c, CurrentVersion))
BY RecordFacts, VersionAssumption DEF Foreign, Newer, OutdatedConfig

\* Advance leads to the next path, never back to the record, or to success.
LEMMA AdvanceForward ==
  ASSUME TypeOK, NEW p \in Processes, NEW point \in Points, Advance(p, point)
  PROVE  /\ pc' \in [Processes -> Points] /\ at' \in [Processes -> Paths]
         /\ \A q \in Processes : q # p => pc'[q] = pc[q] /\ at'[q] = at[q]
         /\ pc'[p] \in {point, "ok"}
         /\ at'[p] = RecordPath => pc'[p] = "ok"
BY DEF TypeOK, Advance, Goto, Points, Paths, RecordPath, Ended

\* Every step of a command keeps the types.
LEMMA TypePreserved ==
  ASSUME IInv, NEW p \in Processes, Step(p)
  PROVE  TypeOK'
<1> USE DEF TypeOK, Goto
<1>a. TypeOK /\ VerifiedInv /\ PointsInv BY DEF IInv
<1>b. {"verify", "load", "open", "write", "remove", "running", "ok", "failed", "killed"} \subseteq Points
  BY DEF Points, Ended
<1>1. CASE Begin(p) BY <1>1, <1>a, <1>b DEF Begin, FirstPoint
<1>2. CASE Verify(p) BY <1>2, <1>a, <1>b DEF Verify, VerifiedInv
<1>3. CASE LoadForInstall(p) BY <1>3, <1>a, <1>b DEF LoadForInstall
<1>4. CASE LoadForUpgrade(p) BY <1>4, <1>a, <1>b, RecordFacts DEF LoadForUpgrade, Loaded
<1>5. CASE LoadForRun(p) BY <1>5, <1>a, <1>b, RecordFacts DEF LoadForRun, Loaded
<1>6. CASE Open(p)
  <2>1. DOMAIN disk' = Paths /\ disk'[RecordPath] \in Records
        /\ \A path \in Paths \ {RecordPath} : disk'[path] \in Extras
    BY <1>6, <1>a, RecordFacts DEF Open
  <2> QED BY <1>6, <1>a, <1>b, <2>1 DEF Open
<1>7. CASE Write(p)
  <2>1. config[p] \in Configs BY <1>7, <1>a DEF Write, VerifiedInv
  <2>2. IF at[p] = RecordPath THEN Content(p) \in Records ELSE Content(p) \in Extras
    BY <2>1, RecordFacts DEF Content
  <2>3. DOMAIN disk' = Paths /\ disk'[RecordPath] \in Records
        /\ \A path \in Paths \ {RecordPath} : disk'[path] \in Extras
    BY <1>7, <1>a, <2>2 DEF Write
  <2>4. pc' \in [Processes -> Points] /\ at' \in [Processes -> Paths]
    BY <1>7, <1>a, <1>b, AdvanceForward DEF Write
  <2> QED BY <1>7, <1>a, <2>3, <2>4 DEF Write
<1>8. CASE WriteFailed(p)
  <2>1. DOMAIN disk' = Paths /\ disk'[RecordPath] \in Records
        /\ \A path \in Paths \ {RecordPath} : disk'[path] \in Extras
    BY <1>8, <1>a, RecordFacts DEF WriteFailed
  <2> QED BY <1>8, <1>a, <1>b, <2>1 DEF WriteFailed
<1>9. CASE RemovePath(p)
  <2>1. DOMAIN disk' = Paths /\ disk'[RecordPath] \in Records
        /\ \A path \in Paths \ {RecordPath} : disk'[path] \in Extras
    BY <1>9, <1>a, RecordFacts DEF RemovePath
  <2>2. pc' \in [Processes -> Points] /\ at' \in [Processes -> Paths]
    BY <1>9, <1>a, <1>b, AdvanceForward DEF RemovePath
  <2> QED BY <1>9, <1>a, <2>1, <2>2 DEF RemovePath
<1>10. CASE StepFailed(p) BY <1>10, <1>a, <1>b DEF StepFailed, Fail
<1>11. CASE RunEnded(p) BY <1>11, <1>a, <1>b DEF RunEnded
<1>12. CASE Kill(p) BY <1>12, <1>a, <1>b DEF Kill
<1> QED
  BY <1>1, <1>2, <1>3, <1>4, <1>5, <1>6, <1>7, <1>8, <1>9, <1>10, <1>11, <1>12 DEF Step

\* Commands stay on their way: the record is the first path, and only install and
\* upgrade write.
LEMMA PointsPreserved ==
  ASSUME IInv, NEW p \in Processes, Step(p)
  PROVE  PointsInv'
<1> USE DEF PointsInv, TypeOK, Goto
<1>a. TypeOK /\ PointsInv /\ ForeignInv BY DEF IInv
<1>1. CASE Begin(p) BY <1>1, <1>a DEF Begin, FirstPoint
<1>2. CASE Verify(p) BY <1>2, <1>a DEF Verify, ForeignInv
<1>3. CASE LoadForInstall(p) BY <1>3, <1>a DEF LoadForInstall
<1>4. CASE LoadForUpgrade(p) BY <1>4, <1>a DEF LoadForUpgrade
<1>5. CASE LoadForRun(p) BY <1>5, <1>a DEF LoadForRun
<1>6. CASE Open(p) BY <1>6, <1>a DEF Open
<1>7. CASE Write(p)
  <2>1. "open" \in Points BY DEF Points
  <2>2. pc'[p] \in {"open", "ok"} /\ \A q \in Processes : q # p => pc'[q] = pc[q] /\ at'[q] = at[q]
    BY <1>7, <1>a, <2>1, AdvanceForward DEF Write
  <2> QED BY <1>7, <1>a, <2>2 DEF Write
<1>8. CASE WriteFailed(p) BY <1>8, <1>a DEF WriteFailed
<1>9. CASE RemovePath(p)
  <2>1. "remove" \in Points BY DEF Points
  <2>2. pc'[p] \in {"remove", "ok"} /\ \A q \in Processes : q # p => pc'[q] = pc[q] /\ at'[q] = at[q]
    BY <1>9, <1>a, <2>1, AdvanceForward DEF RemovePath
  <2> QED BY <1>9, <1>a, <2>2 DEF RemovePath
<1>10. CASE StepFailed(p) BY <1>10, <1>a DEF StepFailed, Fail
<1>11. CASE RunEnded(p) BY <1>11, <1>a DEF RunEnded
<1>12. CASE Kill(p) BY <1>12, <1>a DEF Kill
<1> QED
  BY <1>1, <1>2, <1>3, <1>4, <1>5, <1>6, <1>7, <1>8, <1>9, <1>10, <1>11, <1>12 DEF Step

\* What a step does to the record: nothing, or it tears it, removes it, or completes it
\* with a configuration that was verified and is not outdated.
LEMMA RecordSteps ==
  ASSUME IInv, NEW p \in Processes, Step(p)
  PROVE  \/ disk'[RecordPath] = disk[RecordPath]
         \/ disk'[RecordPath] = Torn /\ at[p] = RecordPath /\ pc[p] \in {"open", "write"}
         \/ disk'[RecordPath] = Absent
         \/ /\ disk'[RecordPath] = Written(config[p], CurrentVersion)
            /\ config[p] \in verified /\ config[p] \notin Outdated
            /\ at[p] = RecordPath /\ pc[p] = "write"
<1>a. TypeOK /\ VerifiedInv /\ ForeignInv BY DEF IInv
<1>1. CASE Open(p) BY <1>1, <1>a DEF Open, TypeOK
<1>2. CASE Write(p)
  <2>1. config[p] \in verified /\ config[p] \notin Outdated
    BY <1>2, <1>a DEF Write, VerifiedInv, ForeignInv
  <2> QED BY <1>2, <1>a, <2>1 DEF Write, Content, TypeOK
<1>3. CASE WriteFailed(p)
  <2>1. pc[p] = "write" BY <1>3 DEF WriteFailed
  <2>2. CASE disk' = disk BY <2>2
  <2>3. CASE disk' = [disk EXCEPT ![at[p]] = Torn] BY <1>a, <2>1, <2>3 DEF TypeOK
  <2> QED BY <1>3, <2>2, <2>3 DEF WriteFailed
<1>4. CASE RemovePath(p) BY <1>4, <1>a DEF RemovePath, TypeOK
<1>5. CASE ~(Open(p) \/ Write(p) \/ WriteFailed(p) \/ RemovePath(p))
  <2>1. disk' = disk
    BY <1>5
    DEF Step, Begin, Verify, LoadForInstall, LoadForUpgrade, LoadForRun, StepFailed, Fail,
        RunEnded, Kill
  <2> QED BY <2>1
<1> QED BY <1>1, <1>2, <1>3, <1>4, <1>5

\* Whoever writes or runs keeps having its configuration verified.
LEMMA VerifiedPreserved ==
  ASSUME IInv, NEW p \in Processes, Step(p)
  PROVE  VerifiedInv' /\ RunsVerified'
<1>a. TypeOK /\ PointsInv /\ VerifiedInv /\ ForeignInv /\ RunsVerified BY DEF IInv
<1> DEFINE VerifiedAt(q) ==
      /\ pc[q] = "verify" => config[q] \in Configs
      /\ command[q] = "install" /\ pc[q] = "load" => config[q] \in verified
      /\ pc[q] \in {"open", "write"} => config[q] \in verified
      /\ pc[q] = "running" => config[q] \in verified \cup VerifiedBefore
<1>b. \A q \in Processes : VerifiedAt(q) BY <1>a DEF VerifiedInv, RunsVerified
<1>1. verified \subseteq verified'
  BY DEF Step, Begin, Verify, LoadForInstall, LoadForUpgrade, LoadForRun, Open, Write,
         WriteFailed, RemovePath, StepFailed, Fail, RunEnded, Kill
<1>2. \A q \in Processes : q # p =>
         pc'[q] = pc[q] /\ command'[q] = command[q] /\ config'[q] = config[q]
  <2>1. "open" \in Points /\ "remove" \in Points BY DEF Points
  <2>2. CASE Write(p) BY <1>a, <2>1, <2>2, AdvanceForward DEF Write
  <2>3. CASE RemovePath(p) BY <1>a, <2>1, <2>3, AdvanceForward DEF RemovePath
  <2>4. CASE ~(Write(p) \/ RemovePath(p))
    BY <1>a, <2>4
    DEF Step, Begin, Verify, LoadForInstall, LoadForUpgrade, LoadForRun, Open,
        WriteFailed, StepFailed, Fail, RunEnded, Kill, Goto, TypeOK
  <2> QED BY <2>2, <2>3, <2>4
<1>3. \A q \in Processes : q # p => VerifiedAt(q)'
  BY <1>1, <1>2, <1>b
<1>4. VerifiedAt(p)'
  <2> USE DEF TypeOK, Goto
  <2>1. CASE Begin(p) BY <2>1, <1>a DEF Begin, FirstPoint
  <2>2. CASE Verify(p) BY <2>2, <1>a, <1>b DEF Verify, ForeignInv
  <2>3. CASE LoadForInstall(p) BY <2>3, <1>a, <1>b DEF LoadForInstall
  <2>4. CASE LoadForUpgrade(p) BY <2>4, <1>a, RecordFacts DEF LoadForUpgrade, Loaded
  <2>5. CASE LoadForRun(p) BY <2>5, <1>a DEF LoadForRun, VerifiedInv
  <2>6. CASE Open(p) BY <2>6, <1>a, <1>b DEF Open
  <2>7. CASE Write(p)
    <3>1. "open" \in Points BY DEF Points
    <3>2. pc'[p] \in {"open", "ok"} BY <2>7, <3>1, <1>a, AdvanceForward DEF Write
    <3> QED BY <2>7, <3>2, <1>a, <1>b DEF Write
  <2>8. CASE WriteFailed(p) BY <2>8, <1>a DEF WriteFailed
  <2>9. CASE RemovePath(p)
    <3>1. "remove" \in Points BY DEF Points
    <3>2. pc'[p] \in {"remove", "ok"} BY <2>9, <3>1, <1>a, AdvanceForward DEF RemovePath
    <3> QED BY <3>2
  <2>10. CASE StepFailed(p) BY <2>10, <1>a DEF StepFailed, Fail
  <2>11. CASE RunEnded(p) BY <2>11, <1>a DEF RunEnded
  <2>12. CASE Kill(p) BY <2>12, <1>a DEF Kill
  <2> QED
    BY <2>1, <2>2, <2>3, <2>4, <2>5, <2>6, <2>7, <2>8, <2>9, <2>10, <2>11, <2>12 DEF Step
<1>5. Loaded' /\ StoredVersion(disk'[RecordPath]) = CurrentVersion =>
         disk'[RecordPath].config \in verified' \cup VerifiedBefore
  BY <1>1, <1>a, RecordSteps, RecordFacts DEF VerifiedInv, Loaded
<1> QED BY <1>3, <1>4, <1>5 DEF VerifiedInv, RunsVerified

\* A foreign record stays out of reach of the commands that write.
LEMMA ForeignPreserved ==
  ASSUME IInv, NEW p \in Processes, Step(p)
  PROVE  ForeignInv'
<1>a. TypeOK /\ PointsInv /\ ForeignInv BY DEF IInv
<1> DEFINE AcceptedAt(q) ==
             /\ pc[q] \in {"verify", "open", "write"}
                  \/ (pc[q] = "load" /\ command[q] = "install") => config[q] \notin Outdated
             /\ pc[q] = "verify" => command[q] \in {"install", "upgrade"}
           AwayAt(q) ==
             /\ command[q] = "upgrade" => pc[q] # "verify"
             /\ at[q] = RecordPath => pc[q] \notin {"open", "write"}
<1>b. \A q \in Processes : AcceptedAt(q) /\ (Foreign(disk[RecordPath]) => AwayAt(q))
  BY <1>a DEF ForeignInv
<1>1. Foreign(disk'[RecordPath]) => Foreign(disk[RecordPath])
  BY RecordSteps, OwnRecords
<1>2. \A q \in Processes : q # p =>
         pc'[q] = pc[q] /\ command'[q] = command[q] /\ config'[q] = config[q] /\ at'[q] = at[q]
  <2>1. "open" \in Points /\ "remove" \in Points BY DEF Points
  <2>2. CASE Write(p) BY <1>a, <2>1, <2>2, AdvanceForward DEF Write
  <2>3. CASE RemovePath(p) BY <1>a, <2>1, <2>3, AdvanceForward DEF RemovePath
  <2>4. CASE ~(Write(p) \/ RemovePath(p))
    BY <1>a, <2>4
    DEF Step, Begin, Verify, LoadForInstall, LoadForUpgrade, LoadForRun, Open,
        WriteFailed, StepFailed, Fail, RunEnded, Kill, Goto, TypeOK
  <2> QED BY <2>2, <2>3, <2>4
<1>3. \A q \in Processes : q # p => AcceptedAt(q)' /\ (AwayAt(q) => AwayAt(q)')
  BY <1>2, <1>b
<1>4. AcceptedAt(p)' /\ (Foreign(disk[RecordPath]) => AwayAt(p)')
  <2> USE DEF TypeOK, Goto
  <2>1. CASE Begin(p)
    <3>1. PICK cmd \in {"install", "upgrade", "remove", "run"} :
            /\ command' = [command EXCEPT ![p] = cmd]
            /\ \E c \in Configs \ Outdated :
                 config' = [config EXCEPT ![p] = IF cmd = "install" THEN c ELSE NoConfig]
            /\ pc' = [pc EXCEPT ![p] = FirstPoint(cmd)]
      BY <2>1 DEF Begin
    <3> QED BY <3>1, <1>a DEF FirstPoint
  <2>2. CASE Verify(p) BY <2>2, <1>a, <1>b DEF Verify
  <2>3. CASE LoadForInstall(p)
    <3>1. pc'[p] = "open" => disk[RecordPath] = Absent BY <2>3, <1>a DEF LoadForInstall
    <3> QED BY <2>3, <3>1, <1>a, <1>b, OwnRecords DEF LoadForInstall
  <2>4. CASE LoadForUpgrade(p)
    <3>1. ~Foreign(disk[RecordPath])
      BY <2>4, VersionAssumption, <1>a
      DEF LoadForUpgrade, Foreign, Newer, OutdatedConfig, CheckRecordVersion, StoredVersion, Records
    <3> QED BY <2>4, <3>1, <1>a DEF LoadForUpgrade
  <2>5. CASE LoadForRun(p) BY <2>5, <1>a DEF LoadForRun
  <2>6. CASE Open(p) BY <2>6, <1>a, <1>b DEF Open
  <2>7. CASE Write(p)
    <3>1. "open" \in Points BY DEF Points
    <3>2. pc'[p] \in {"open", "ok"} /\ (at'[p] = RecordPath => pc'[p] = "ok")
      BY <2>7, <3>1, <1>a, AdvanceForward DEF Write
    <3> QED BY <2>7, <3>2, <1>a, <1>b DEF Write
  <2>8. CASE WriteFailed(p) BY <2>8, <1>a DEF WriteFailed
  <2>9. CASE RemovePath(p)
    <3>1. "remove" \in Points BY DEF Points
    <3>2. pc'[p] \in {"remove", "ok"} BY <2>9, <3>1, <1>a, AdvanceForward DEF RemovePath
    <3> QED BY <3>2
  <2>10. CASE StepFailed(p) BY <2>10, <1>a DEF StepFailed, Fail
  <2>11. CASE RunEnded(p) BY <2>11, <1>a DEF RunEnded
  <2>12. CASE Kill(p) BY <2>12, <1>a DEF Kill
  <2> QED
    BY <2>1, <2>2, <2>3, <2>4, <2>5, <2>6, <2>7, <2>8, <2>9, <2>10, <2>11, <2>12 DEF Step
<1>5. \A q \in Processes : AcceptedAt(q)' /\ (Foreign(disk'[RecordPath]) => AwayAt(q)')
  BY <1>1, <1>3, <1>4, <1>b
<1> QED BY <1>5 DEF ForeignInv, Foreign, Newer, OutdatedConfig

\* Whatever earlier drivers left, nothing was verified and nobody writes yet.
LEMMA InitIInv == Init => IInv
<1> SUFFICES ASSUME Init PROVE IInv OBVIOUS
<1>1. PICK r \in InitialRecords, e \in {Absent, Written(NoConfig, 0)} :
        disk = [path \in Paths |-> IF path = RecordPath THEN r ELSE e]
  BY DEF Init
<1>2. TypeOK
  BY <1>1, RecordAssumption, RecordFacts DEF Init, TypeOK, Points
<1>3. PointsInv /\ ForeignInv /\ RunsVerified BY DEF Init, PointsInv, ForeignInv, RunsVerified
<1>4. VerifiedInv
  BY <1>1, RecordFacts DEF Init, VerifiedInv, VerifiedBefore, Loaded
<1> QED BY <1>2, <1>3, <1>4 DEF IInv

\* Every step keeps the invariant.
LEMMA StepIInv == IInv /\ [Next]_vars => IInv'
<1>1. ASSUME IInv, NEW p \in Processes, Step(p) PROVE IInv'
  BY <1>1, TypePreserved, PointsPreserved, VerifiedPreserved, ForeignPreserved DEF IInv
<1>2. ASSUME IInv, UNCHANGED vars PROVE IInv'
  BY <1>2
  DEF vars, IInv, TypeOK, PointsInv, VerifiedInv, ForeignInv, RunsVerified, Loaded, Foreign,
      Newer, OutdatedConfig
<1> QED BY <1>1, <1>2 DEF Next, AllEnded

\* IInv holds in every state the commands reach.
THEOREM Invariance == Spec => []IInv
BY InitIInv, StepIInv, PTL DEF Spec

\* Type correctness; the record file holds a whole record, a torn one or none.
THEOREM TypeCorrect == Spec => []TypeOK
<1>1. IInv => TypeOK BY DEF IInv
<1> QED BY <1>1, Invariance, PTL

\* Only a configuration that passed the compatibility check of an install or upgrade of
\* this driver's version is ever run.
THEOREM OnlyVerifiedRuns == Spec => []RunsVerified
<1>1. IInv => RunsVerified BY DEF IInv
<1> QED BY <1>1, Invariance, PTL

\* A record of a newer driver, or with a configuration this one rejects, is only ever
\* removed, never rewritten.
THEOREM ForeignRecordsKept == Spec => ForeignKept
<1> DEFINE Kept == LET r == disk[RecordPath] IN
                   Newer(r) \/ OutdatedConfig(r) => disk'[RecordPath] \in {r, Absent}
<1>1. ASSUME IInv, NEW p \in Processes, Step(p) PROVE Kept
  <2>1. Foreign(disk[RecordPath]) => ~(at[p] = RecordPath /\ pc[p] \in {"open", "write"})
    BY <1>1 DEF IInv, ForeignInv
  <2> QED BY <1>1, <2>1, RecordSteps DEF Foreign
<1>2. IInv /\ [Next]_vars => [Kept]_vars
  BY <1>1 DEF Next, AllEnded
<1> HIDE DEF Kept
<1>3. Spec => [][Kept]_vars BY <1>2, Invariance, PTL DEF Spec
<1> QED BY <1>3 DEF Kept, ForeignKept

-----------------------------------------------------------------------------
(* One command at a time.                                                  *)

\* A command that has not begun, or has ended.
Resting == {"idle"} \cup Ended

\* With one command at a time, nobody changes what the one under way has found or left:
\* an install writes where it found no record, an upgrade over the one it read; what is
\* behind them is complete, the file they have open is still the one at its path, and what
\* is behind a remove is gone.
SerialInv ==
    /\ \A p, q \in Processes : p # q => pc[p] \in Resting \/ pc[q] \in Resting
    /\ \A p \in Processes :
          /\ pc[p] = "running" => command[p] = "run"
          /\ pc[p] = "remove" => command[p] = "remove"
          /\ \/ command[p] = "upgrade" /\ pc[p] = "verify"
             \/ command[p] = "upgrade" /\ pc[p] = "open" /\ at[p] = RecordPath
             => Loaded /\ disk[RecordPath].config = config[p]
          /\ command[p] = "install" /\ pc[p] = "open" /\ at[p] = RecordPath
             => disk[RecordPath] = Absent
          /\ pc[p] \in {"open", "write"} =>
                \A path \in Paths : path < at[p] => disk[path].state = "written"
          /\ pc[p] = "write" => linked[p]
          /\ pc[p] = "remove" => \A path \in Paths : path < at[p] => disk[path] = Absent

\* The command that takes a step is the only one under way.
LEMMA OthersRest ==
  ASSUME Serial, IInv, SerialInv, NEW p \in Processes, Step(p), NEW q \in Processes, q # p
  PROVE  pc[q] \in Resting /\ pc'[q] = pc[q]
<1>1. TypeOK BY DEF IInv
<1>2. pc'[q] = pc[q]
  BY <1>1
  DEF TypeOK, Step, Begin, Verify, LoadForInstall, LoadForUpgrade, LoadForRun, Open, Write,
      WriteFailed, RemovePath, StepFailed, RunEnded, Kill, Fail, Advance, Goto
<1>3. CASE Begin(p) BY <1>2, <1>3 DEF Begin, Resting
<1>4. CASE ~Begin(p)
  <2>1. pc[p] \notin Resting
    BY <1>4
    DEF Step, Verify, LoadForInstall, LoadForUpgrade, LoadForRun, Open, Write, WriteFailed,
        RemovePath, StepFailed, RunEnded, Kill, Resting, Ended
  <2> QED BY <1>2, <2>1 DEF SerialInv
<1> QED BY <1>3, <1>4

\* What is behind a command that goes on to its next path.
LEMMA AdvanceBehind ==
  ASSUME TypeOK, NEW p \in Processes, NEW point \in Points, Advance(p, point)
  PROVE  \/ /\ pc'[p] = point /\ at'[p] # RecordPath
            /\ \A path \in Paths : path < at'[p] => path < at[p] \/ path = at[p]
         \/ pc'[p] = "ok" /\ \A path \in Paths : path < at[p] \/ path = at[p]
<1>1. at[p] \in 1 .. 3 /\ at \in [Processes -> 1 .. 3] /\ pc \in [Processes -> Points]
  BY DEF TypeOK, Paths
<1>2. CASE at[p] + 1 \in Paths
  <2>1. pc'[p] = point /\ at'[p] = at[p] + 1 BY <1>1, <1>2 DEF Advance, Goto
  <2> QED BY <1>1, <2>1 DEF Paths, RecordPath
<1>3. CASE at[p] + 1 \notin Paths
  <2>1. pc'[p] = "ok" BY <1>1, <1>3 DEF Advance, Goto
  <2> QED BY <1>1, <1>3, <2>1 DEF Paths
<1> QED BY <1>2, <1>3

\* A command that writes or removes leaves what it is behind of complete, or gone.
LEMMA SerialWrites ==
  ASSUME IInv, SerialInv, NEW p \in Processes
  PROVE  /\ Write(p) =>
               /\ \A path \in Paths :
                     path < at[p] \/ path = at[p] => disk'[path].state = "written"
               /\ command'[p] = command[p] /\ linked'[p] = FALSE
         /\ RemovePath(p) =>
               /\ \A path \in Paths : path < at[p] \/ path = at[p] => disk'[path] = Absent
               /\ command'[p] = command[p]
<1>1. TypeOK BY DEF IInv
<1>2. at[p] \in Nat BY <1>1 DEF TypeOK, Paths
<1>3. Content(p).state = "written" BY DEF Content, Written
<1>4. ASSUME Write(p), NEW path \in Paths, path < at[p] \/ path = at[p]
      PROVE  disk'[path].state = "written"
  <2>1. linked[p] /\ (path < at[p] => disk[path].state = "written")
    BY <1>4 DEF Write, SerialInv
  <2>2. disk' = [disk EXCEPT ![at[p]] = Content(p)] BY <1>4, <2>1 DEF Write
  <2> HIDE DEF Content
  <2> QED BY <1>1, <1>3, <1>4, <2>1, <2>2 DEF TypeOK
<1>5. ASSUME RemovePath(p), NEW path \in Paths, path < at[p] \/ path = at[p]
      PROVE  disk'[path] = Absent
  BY <1>1, <1>5 DEF RemovePath, SerialInv, TypeOK
<1> QED BY <1>1, <1>4, <1>5 DEF Write, RemovePath, TypeOK

\* Every step of a command that is alone keeps what it relies on.
LEMMA SerialPreserved ==
  ASSUME Serial, IInv, SerialInv, NEW p \in Processes, Step(p)
  PROVE  SerialInv'
<1> DEFINE Relies(q) ==
      /\ pc[q] = "running" => command[q] = "run"
      /\ pc[q] = "remove" => command[q] = "remove"
      /\ \/ command[q] = "upgrade" /\ pc[q] = "verify"
         \/ command[q] = "upgrade" /\ pc[q] = "open" /\ at[q] = RecordPath
         => Loaded /\ disk[RecordPath].config = config[q]
      /\ command[q] = "install" /\ pc[q] = "open" /\ at[q] = RecordPath
         => disk[RecordPath] = Absent
      /\ pc[q] \in {"open", "write"} =>
            \A path \in Paths : path < at[q] => disk[path].state = "written"
      /\ pc[q] = "write" => linked[q]
      /\ pc[q] = "remove" => \A path \in Paths : path < at[q] => disk[path] = Absent
<1>a. TypeOK /\ PointsInv /\ ForeignInv /\ Relies(p) BY DEF IInv, SerialInv
<1>b. \A q \in Processes : q # p => pc[q] \in Resting /\ pc'[q] = pc[q] BY OthersRest
<1>c. at[p] = RecordPath => \A path \in Paths : ~(path < at[p]) BY DEF RecordPath, Paths
<1> USE DEF Goto
<1>1. ASSUME Begin(p) PROVE Relies(p)'
  <2>1. /\ pc'[p] = FirstPoint(command'[p]) /\ at'[p] = RecordPath
        /\ command'[p] \in {"install", "upgrade", "remove", "run"}
    BY <1>1, <1>a DEF Begin, TypeOK, PointsInv
  <2> QED BY <1>c, <2>1, <1>1 DEF FirstPoint, Begin
<1>2. ASSUME Verify(p) PROVE Relies(p)'
  <2>1. /\ pc'[p] = IF command[p] = "install" THEN "load" ELSE "open"
        /\ UNCHANGED <<disk, command, config, at, linked>> /\ pc[p] = "verify"
    BY <1>2, <1>a DEF Verify, TypeOK
  <2>2. at[p] = RecordPath BY <1>a, <2>1 DEF PointsInv
  <2>3. command[p] = "install" \/ command[p] = "upgrade" BY <1>a, <2>1 DEF ForeignInv
  <2> QED BY <1>a, <1>c, <2>1, <2>2, <2>3 DEF Loaded
<1>3. ASSUME LoadForInstall(p) PROVE Relies(p)'
  <2>1. /\ pc'[p] \in {"open", "ok"} /\ UNCHANGED <<disk, command, config, at, linked>>
        /\ pc'[p] = "open" => disk[RecordPath] = Absent
        /\ pc[p] = "load" /\ command[p] = "install"
    BY <1>3, <1>a DEF LoadForInstall, TypeOK
  <2>2. at[p] = RecordPath BY <1>a, <2>1 DEF PointsInv
  <2> QED BY <1>c, <2>1, <2>2
<1>4. ASSUME LoadForUpgrade(p) \/ LoadForRun(p) PROVE Relies(p)'
  <2>1. \/ /\ pc'[p] = "verify" /\ command[p] = "upgrade" /\ Loaded
           /\ config'[p] = disk[RecordPath].config
        \/ pc'[p] = "running" /\ command[p] = "run"
    BY <1>4, <1>a DEF LoadForUpgrade, LoadForRun, TypeOK
  <2>2. UNCHANGED <<disk, command, at>> BY <1>4 DEF LoadForUpgrade, LoadForRun
  <2> QED BY <2>1, <2>2 DEF Loaded
<1>5. ASSUME Open(p) PROVE Relies(p)'
  <2>1. /\ pc[p] = "open" /\ pc'[p] = "write" /\ linked'[p] = TRUE
        /\ UNCHANGED <<command, at>>
        /\ \A path \in Paths : path # at[p] => disk'[path] = disk[path]
    BY <1>5, <1>a DEF Open, TypeOK
  <2>2. at[p] \in Nat BY <1>a DEF TypeOK, Paths
  <2> QED BY <1>a, <2>1, <2>2
<1>6. ASSUME Write(p) PROVE Relies(p)'
  <2>1. \/ /\ pc'[p] = "open" /\ at'[p] # RecordPath
           /\ \A path \in Paths : path < at'[p] => path < at[p] \/ path = at[p]
        \/ pc'[p] = "ok"
    <3>1. Advance(p, "open") /\ "open" \in Points BY <1>6 DEF Write, Points
    <3> QED BY <1>a, <3>1, AdvanceBehind
  <2>2. \A path \in Paths : path < at[p] \/ path = at[p] => disk'[path].state = "written"
    BY <1>6, SerialWrites
  <2> QED BY <2>1, <2>2
<1>7. ASSUME RemovePath(p) PROVE Relies(p)'
  <2>1. \/ /\ pc'[p] = "remove"
           /\ \A path \in Paths : path < at'[p] => path < at[p] \/ path = at[p]
        \/ pc'[p] = "ok"
    <3>1. Advance(p, "remove") /\ "remove" \in Points BY <1>7 DEF RemovePath, Points
    <3> QED BY <1>a, <3>1, AdvanceBehind
  <2>2. \A path \in Paths : path < at[p] \/ path = at[p] => disk'[path] = Absent
    BY <1>7, SerialWrites
  <2>3. command'[p] = "remove" BY <1>7, <1>a DEF RemovePath
  <2> QED BY <2>1, <2>2, <2>3
<1>8. ASSUME WriteFailed(p) \/ StepFailed(p) \/ RunEnded(p) \/ Kill(p) PROVE Relies(p)'
  <2>1. pc'[p] \in {"failed", "killed", "ok"}
    BY <1>8, <1>a DEF WriteFailed, StepFailed, Fail, RunEnded, Kill, TypeOK
  <2> QED BY <2>1
<1>9. Relies(p)'
  BY <1>1, <1>2, <1>3, <1>4, <1>5, <1>6, <1>7, <1>8 DEF Step
<1>10. ASSUME NEW q \in Processes, q # p PROVE Relies(q)'
  <2>1. pc'[q] \in {"idle", "ok", "failed", "killed"} BY <1>b, <1>10 DEF Resting, Ended
  <2> QED BY <2>1
<1>11. \A q \in Processes : Relies(q)' BY <1>9, <1>10
<1>12. \A q, r \in Processes : q # r => pc'[q] \in Resting \/ pc'[r] \in Resting
  BY <1>b
<1> QED BY <1>11, <1>12 DEF SerialInv

\* SerialInv holds in every state of commands that do not overlap.
THEOREM SerialInvariance == ASSUME Serial PROVE Spec => []SerialInv
<1>1. Init => SerialInv BY DEF Init, SerialInv, Resting
<1>2. ASSUME IInv, SerialInv, [Next]_vars PROVE SerialInv'
  <2>1. CASE UNCHANGED vars BY <1>2, <2>1 DEF vars, SerialInv, Loaded
  <2> QED BY <1>2, <2>1, SerialPreserved DEF Next, AllEnded
<1> QED BY <1>1, <1>2, Invariance, PTL DEF Spec

\* NoOverwrite: with one command at a time, no configuration is written over another one
\* (existingOrConflict), but by an upgrade over the record it has read.
THEOREM NothingOverwritten == ASSUME Serial PROVE Spec => []NoOverwrite
<1>1. IInv /\ SerialInv => NoOverwrite
  <2> SUFFICES ASSUME IInv, SerialInv, NEW p \in Processes,
                      pc[p] = "open", at[p] = RecordPath, Loaded
               PROVE  disk[RecordPath].config = config[p]
    BY DEF NoOverwrite
  <2>1. command[p] \in {"install", "upgrade"} BY DEF IInv, PointsInv
  <2>2. command[p] # "install" BY RecordFacts DEF SerialInv, Loaded
  <2> QED BY <2>1, <2>2 DEF SerialInv
<1> QED BY <1>1, Invariance, SerialInvariance, PTL

\* TornKept: with one command at a time, a record that an interrupted command tore stays
\* torn, and nobody opens it, until it is removed (Load, LoadReadable).
THEOREM TornRecordsKept == ASSUME Serial PROVE Spec => TornKept
<1> DEFINE Kept == disk[RecordPath] = Torn /\ (\A p \in Processes : ~linked[p]) =>
                      /\ disk'[RecordPath] \in {Torn, Absent}
                      /\ \A p \in Processes : linked'[p] => at'[p] # RecordPath
<1>1. ASSUME IInv, SerialInv, NEW p \in Processes, Step(p) PROVE Kept
  <2> SUFFICES ASSUME disk[RecordPath] = Torn, \A q \in Processes : ~linked[q]
               PROVE  /\ disk'[RecordPath] \in {Torn, Absent}
                      /\ \A q \in Processes : linked'[q] => at'[q] # RecordPath
    OBVIOUS
  <2>1. TypeOK /\ PointsInv BY <1>1 DEF IInv
  <2>2. ~(pc[p] = "open" /\ at[p] = RecordPath)
    <3>1. ~Loaded BY RecordFacts DEF Loaded
    <3>2. Torn # Absent BY RecordFacts
    <3>3. pc[p] = "open" => command[p] \in {"install", "upgrade"} BY <2>1 DEF PointsInv
    <3> QED BY <1>1, <3>1, <3>2, <3>3 DEF SerialInv
  <2>3. pc[p] # "write" BY <1>1 DEF SerialInv
  <2>4. disk'[RecordPath] \in {Torn, Absent} BY <1>1, <2>3, RecordSteps
  <2>5. CASE Open(p) BY <2>1, <2>2, <2>5 DEF Open, TypeOK
  <2>6. CASE ~Open(p)
    <3>1. \A q \in Processes : ~linked'[q]
      BY <1>1, <2>1, <2>3, <2>6
      DEF Step, Begin, Verify, LoadForInstall, LoadForUpgrade, LoadForRun, Write,
          WriteFailed, RemovePath, StepFailed, RunEnded, Kill, Fail, TypeOK
    <3> QED BY <2>4, <3>1
  <2> QED BY <2>4, <2>5, <2>6
<1>2. ASSUME IInv, SerialInv, [Next]_vars PROVE [Kept]_vars
  BY <1>1, <1>2 DEF Next, AllEnded
<1> HIDE DEF Kept
<1>3. Spec => [][Kept]_vars BY <1>2, Invariance, SerialInvariance, PTL DEF Spec
<1> QED BY <1>3 DEF Kept, TornKept

\* SuccessMeansDone: with one command at a time, an upgrade that reports success leaves
\* every owned file complete, and a remove that does leaves none.
THEOREM SuccessIsDone == ASSUME Serial PROVE Spec => SuccessMeansDone
<1> DEFINE Does(p) == pc[p] # "ok" /\ pc'[p] = "ok" =>
                         /\ command[p] = "upgrade" => Complete'
                         /\ command[p] = "remove" => Cleared'
<1>1. ASSUME IInv, SerialInv, NEW p \in Processes, Step(p), NEW q \in Processes PROVE Does(q)
  <2>1. TypeOK /\ PointsInv BY <1>1 DEF IInv
  <2>2. CASE q # p BY <1>1, <2>2, OthersRest
  <2>3. CASE q = p /\ Write(p)
    <3>1. pc'[p] = "ok" => \A path \in Paths : path < at[p] \/ path = at[p]
      <4>1. Advance(p, "open") /\ "open" \in Points BY <2>3 DEF Write, Points
      <4> QED BY <2>1, <4>1, AdvanceBehind
    <3>2. pc'[p] = "ok" => Complete' BY <1>1, <2>3, <3>1, SerialWrites DEF Complete
    <3>3. command[p] # "remove" BY <2>1, <2>3 DEF Write, PointsInv
    <3> QED BY <2>3, <3>2, <3>3
  <2>4. CASE q = p /\ RemovePath(p)
    <3>1. pc'[p] = "ok" => \A path \in Paths : path < at[p] \/ path = at[p]
      <4>1. Advance(p, "remove") /\ "remove" \in Points BY <2>4 DEF RemovePath, Points
      <4> QED BY <2>1, <4>1, AdvanceBehind
    <3>2. pc'[p] = "ok" => Cleared' BY <1>1, <2>4, <3>1, SerialWrites DEF Cleared
    <3>3. command[p] = "remove" BY <1>1, <2>4 DEF RemovePath, SerialInv
    <3> QED BY <2>4, <3>2, <3>3
  <2>5. CASE q = p /\ (LoadForInstall(p) \/ RunEnded(p))
    <3>1. command[p] \in {"install", "run"}
      BY <1>1, <2>5 DEF LoadForInstall, RunEnded, SerialInv
    <3> QED BY <2>5, <3>1
  <2>6. CASE q = p /\ ~(Write(p) \/ RemovePath(p) \/ LoadForInstall(p) \/ RunEnded(p))
    <3>1. pc'[p] # "ok"
      BY <1>1, <2>1, <2>6
      DEF Step, Begin, FirstPoint, Verify, LoadForUpgrade, LoadForRun, Open, WriteFailed,
          StepFailed, Kill, Fail, Goto, TypeOK
    <3> QED BY <2>6, <3>1
  <2> QED BY <2>2, <2>3, <2>4, <2>5, <2>6
<1>2. ASSUME IInv, SerialInv, [Next]_vars PROVE [\A p \in Processes : Does(p)]_vars
  BY <1>1, <1>2 DEF Next, AllEnded
<1> HIDE DEF Does
<1>3. Spec => [][\A p \in Processes : Does(p)]_vars
  BY <1>2, Invariance, SerialInvariance, PTL DEF Spec
<1> QED BY <1>3 DEF Does, SuccessMeansDone
=============================================================================
