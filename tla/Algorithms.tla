----------------------------- MODULE Algorithms -----------------------------
(***************************************************************************)
(* The pure algorithms of the driver on whatever they are given: one state *)
(* is one input, which nothing changes.                                    *)
(*                                                                         *)
(* The constants say what the inputs are: payloads for the prompt pointer, *)
(* lengths of frames, roots and paths, directories of schema files, and    *)
(* what the compatibility checks compare (Situations), with what this      *)
(* driver knows (Known).                                                   *)
(***************************************************************************)
EXTENDS PromptPointer, Frames, ControlPath, SchemaDigest, Compatibility

CONSTANTS Payloads, FrameInputs, Segments, Roots, Paths, Directories, Known, Routes, Situations

\* A payload is what a JSON decoder returns, down to the values a prompt is taken from.
ASSUME PayloadsAssumption ==
    \A payload \in Payloads :
        IsJson(payload) /\ \A c \in Children(payload) : IsJson(c[2])

\* An opcode has four bits, and a length is that of a slice of bytes.
ASSUME FramesAssumption ==
    FrameInputs \subseteq [opcode : 0..15, length : Lengths, masked : BOOLEAN, next : Lengths]

ASSUME PathsAssumption == Roots \subseteq Seq(Segments) /\ Paths \subseteq Seq(Segments)

ASSUME DirectoriesAssumption == \A directory \in Directories : IsDirectory(directory)

ASSUME SituationsAssumption ==
    \A s \in Situations : Shaped(s.required, Known, s.service, Routes)

VARIABLE input

Init ==
    \/ input \in [kind : {"payload"}, payload : Payloads]
    \/ input \in [kind : {"frames"}, frames : FrameInputs]
    \/ input \in [kind : {"paths"}, root : Roots, path : Paths]
    \/ input \in [kind : {"directory"}, directory : Directories]
    \/ input \in [kind : {"situation"}, situation : Situations]

Next == UNCHANGED input

Spec == Init /\ [][Next]_input

-----------------------------------------------------------------------------
\* Every text of a payload is found at its pointer (ExtractPromptText).
PointersReach == input.kind = "payload" => Reaches(input.payload)

\* Frames are read back as they were written, one after the other (writeText, readFrame).
FramesAligned ==
    input.kind = "frames" =>
        LET f == input.frames IN Aligned(f.opcode, f.length, f.masked, f.next)

\* A path is inside a directory exactly if following it leads there (pathInside, inside).
PathsContained == input.kind = "paths" => Contained(input.root, input.path)

\* The digest tells directories apart by what their files say, by nothing else (schemaDigest).
DigestTells ==
    input.kind = "directory" => \A other \in Directories : Tells(input.directory, other)

\* What is found incompatible is named by what is wrong with it, and where nothing is wrong
\* run claims; doctor overlooks a record of an older version (Verify, diagnose, runCommand).
DiagnosisTrue ==
    input.kind = "situation" =>
        LET s == input.situation
        IN Diagnoses(s.required, Known, s.record, s.codex, s.daemon, s.service)

\* After an update doctor tells whether the driver can run (docs/update.md): what it calls
\* compatible is run (diagnose, runCommand).
DoctorForetellsRun ==
    input.kind = "situation" =>
        LET s == input.situation
        IN Foretells(s.required, Known, s.record, s.codex, s.daemon, s.service)
=============================================================================
