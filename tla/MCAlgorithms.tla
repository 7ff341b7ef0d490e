---------------------------- MODULE MCAlgorithms ----------------------------
(* Bounded inputs of Algorithms for TLC.                                   *)
EXTENDS Algorithms

-----------------------------------------------------------------------------
(* Payloads of two levels, with keys of up to two of the characters that   *)
(* matter to a pointer.                                                    *)

Keys == BoundedSeq({Tilde, Slash, Zero, One}, 2)
Letter == 97
Text(bytes) == [kind |-> "text", text |-> bytes]
Other == [kind |-> "other"]
Maps(keys, values) == {[kind |-> "map", child |-> (k :> v)] : k \in keys, v \in values}
Leaves == {Text(<<Letter>>), Text(<<Space, 9>>), Text(<<>>), Other}
Arrays == {[kind |-> "array", child |-> s] : s \in BoundedSeq({Text(<<Letter>>), Other}, 2)}

\* Enough elements for an index of two digits.
Twelve == [kind |-> "array", child |-> [i \in 1..12 |-> Text(<<Letter + i>>)]]
MCPayloads ==
    {Twelve} \cup
    Maps(Keys, Leaves \cup Arrays \cup Maps(Keys, {Text(<<Letter>>), Text(<<Space>>)}))

-----------------------------------------------------------------------------
(* Lengths on either side of each form of the header, and the longest TLC  *)
(* can count.                                                              *)

FrameLengths ==
    {0, 1, 124, 125, 126, 127, 128, 255, 256, 65534, 65535, 65536, 65537, 16777216, 2147483647}
MCFrameInputs ==
    [opcode : {1, 9}, length : FrameLengths, masked : BOOLEAN, next : {0, 125, 126, 65536}]

-----------------------------------------------------------------------------
(* Paths of up to four segments, and directories of up to three.           *)

MCSegments == {"a", "b", ".", "..", "..a"}
MCRoots == BoundedSeq(MCSegments, 2)
MCPaths == BoundedSeq(MCSegments, 4)

-----------------------------------------------------------------------------
(* Directories of at most two files: JSON with up to two members and       *)
(* something after them or nothing, and others of up to two bytes.         *)

FilePaths == {DotJson, <<1>> \o DotJson, <<1>>, <<1, 1, 1>>}
JsonFiles ==
    [members : {<<>>, <<<<1, 1>>>>, <<<<1, 2>>>>, <<<<1, 1>>, <<2, 1>>>>, <<<<2, 1>>, <<1, 1>>>>},
     rest : {<<>>, <<1>>}]
OtherFiles == [members : {<<>>}, rest : BoundedSeq({1}, 2)]
Holding(D) ==
    {files \in [D -> JsonFiles \cup OtherFiles] :
        \A path \in D : files[path] \in IF IsJsonFile(path) THEN JsonFiles ELSE OtherFiles}
MCDirectories == UNION {Holding(D) : D \in {D \in SUBSET FilePaths : Cardinality(D) <= 2}}

-----------------------------------------------------------------------------
(* Requirements with a gap between two accepted versions, and what Codex   *)
(* and the invocation service may show of themselves.                      *)

V(n) == [form |-> "v", number |-> n]
Required ==
    [versions |-> {V(1), V(3)}, digests |-> {"accepted"}, features |-> {"ack"},
     routes |-> <<"r1", "r2">>, files |-> {"f1", "f2"}, methods |-> {"turn/start"},
     notifications |-> {"turn/completed"}, minimum |-> 1, current |-> 3, fixed |-> TRUE]
MCRoutes == {"r1", "r2", "foreign"}
MCKnown ==
    [routes |-> {"r1", "r2"}, features |-> {"ack", "nack"}, files |-> {"f1", "f2"},
     methods |-> {"turn/start"}, notifications |-> {"turn/completed"}]

\* Manifests with one part changed, most of them invalid.
Manifests ==
    {[Required EXCEPT !.versions = v] : v \in {{}, {V(2)}, {V(1), [form |-> "odd", number |-> 1]}}}
    \cup {[Required EXCEPT !.digests = d] : d \in {{}, {"odd"}, {"other"}}}
    \cup {[Required EXCEPT !.features = f] : f \in SUBSET {"ack", "nack", "unknown"}}
    \cup {[Required EXCEPT !.routes = r] : r \in BoundedSeq({"r1", "r2", "foreign"}, 2)}
    \cup {[Required EXCEPT !.minimum = m, !.current = c] : m \in 0..3, c \in 0..3}
    \cup {[Required EXCEPT !.files = f] : f \in {{}, {"odd"}, {"f1"}, {"f1", "f3"}}}
    \cup {[Required EXCEPT !.methods = m] : m \in {{}, {"odd"}, {"turn/stop"}}}
    \cup {[Required EXCEPT !.notifications = n] : n \in {{}, {"odd"}, {"turn/failed"}}}
    \cup {[Required EXCEPT !.fixed = FALSE]}

Codexes ==
    [bin : BOOLEAN, version : {"named", "blank", "fails"}, generates : BOOLEAN,
     files : SUBSET {"f1", "f2", "f3"}, wellFormed : BOOLEAN]
GoodCodex ==
    [bin |-> TRUE, version |-> "named", generates |-> TRUE, files |-> {"f1", "f2"},
     wellFormed |-> TRUE]

Metadata ==
    [version : {V(n) : n \in 0..4} \cup {[form |-> f, number |-> 1] : f \in {"bare", "odd"}},
     digest : {"accepted", "other", "odd"},
     features : SUBSET {"ack", "nack", "unknown"},
     routes : BoundedSeq({"r1", "r2", "foreign"}, 3)]
GoodMetadata ==
    [version |-> V(1), digest |-> "accepted", features |-> {"ack"}, routes |-> <<"r2", "r1">>]
Services ==
    [answer : {"metadata"}, metadata : Metadata] \cup
    [answer : {"none", "odd", "metadata"}, metadata : {GoodMetadata}]

Records == [present : BOOLEAN, version : 0..4]
GoodRecord == [present |-> TRUE, version |-> 3]
Daemons == [ready : BOOLEAN, safe : BOOLEAN, obeys : SUBSET {"start", "version"}]
GoodDaemon == [ready |-> TRUE, safe |-> TRUE, obeys |-> {"start", "version"}]
Answers == [answer : {"none", "metadata"}, metadata : {GoodMetadata}]
MCSituations ==
    [required : {Required}, codex : {GoodCodex}, service : Services, record : {GoodRecord},
     daemon : {GoodDaemon}] \cup
    [required : {Required}, codex : Codexes, service : Answers, record : {GoodRecord},
     daemon : {GoodDaemon}] \cup
    [required : {Required}, codex : {GoodCodex}, service : Answers, record : Records,
     daemon : Daemons] \cup
    [required : Manifests, codex : {GoodCodex}, service : Answers, record : Records,
     daemon : {GoodDaemon}]

=============================================================================
