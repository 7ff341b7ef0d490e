--------------------------- MODULE SchemaDigest ---------------------------
(***************************************************************************)
(* The digest of the schema files Codex generates                          *)
(* (internal/compatibility, app_metadata.go): what is fed to the hash,     *)
(* which is taken to tell any two streams apart.                           *)
(*                                                                         *)
(* A directory is a function from the paths of its files to the files.  A  *)
(* file is the members of the JSON object it begins with, in the order of  *)
(* the file, each a key and a value, and the bytes of the rest: what comes *)
(* after the object, or all of a file that is not JSON.  A path is a       *)
(* sequence of bytes, and a byte, a key or a value is a number above 0,    *)
(* the NUL byte: JSON encodes a NUL in a string as an escape, and no other *)
(* file with a NUL in it is taken to be generated.                         *)
(***************************************************************************)
EXTENDS Integers, Sequences, FiniteSets, SequencesExt

Nul == 0
Char == Nat \ {Nul}

\* filepath.Ext(path) is ".json".
DotJson == <<46, 106, 115, 111, 110>>
IsJsonFile(path) == IsSuffix(DotJson, path)

IsDirectory(directory) ==
    /\ IsFiniteSet(DOMAIN directory)
    /\ DOMAIN directory \subseteq Seq(Char)
    /\ \A path \in DOMAIN directory :
          LET members == directory[path].members
          IN /\ directory[path] \in [members : Seq(Char \X Char), rest : Seq(Char)]
             /\ \A i, j \in DOMAIN members : i # j => members[i][1] # members[j][1]
             /\ IsJsonFile(path) \/ members = <<>>

\* Bytes compare as in slices.Sort, and keys as in the encoding of a map.
Before(left, right) ==
    \/ IsStrictPrefix(left, right)
    \/ \E i \in DOMAIN left \cap DOMAIN right :
          left[i] < right[i] /\ \A j \in 1..(i - 1) : left[j] = right[j]

KeyBefore(left, right) == left[1] < right[1]

\* A finite set as a sequence in a given order.
InOrder(S, Less(_, _)) ==
    CHOOSE s \in [1..Cardinality(S) -> S] :
        \A i, j \in 1..Cardinality(S) : i < j => Less(s[i], s[j])

\* json.Encoder on a decoded object: the keys in order.
Encoded(members) ==
    LET sorted == InOrder(ToSet(members), KeyBefore)
    IN [n \in 1..(2 * Len(sorted)) |->
           IF n % 2 = 1 THEN sorted[(n + 1) \div 2][1] ELSE sorted[n \div 2][2]]

\* canonicalContent: of a JSON file the first value, decoded and encoded again; Decode leaves
\* what follows it unread.  Any other file as it is.
CanonicalContent(path, file) == IF IsJsonFile(path) THEN Encoded(file.members) ELSE file.rest

\* Seeded fault: no separator between the path and the content.
HashedTogether(path, file) == path \o CanonicalContent(path, file) \o <<Nul>>

HashSchemaFile(path, file) == path \o <<Nul>> \o CanonicalContent(path, file) \o <<Nul>>

\* What the hash is fed for a sequence of files, each a path and what is in it.
Fed(files) ==
    LET fed[n \in 0..Len(files)] ==
            IF n = 0 THEN <<>> ELSE fed[n - 1] \o HashSchemaFile(files[n][1], files[n][2])
    IN fed[Len(files)]

\* schemaDigest: every file under the directory, in the order of their paths.
Files(directory) ==
    LET paths == InOrder(DOMAIN directory, Before)
    IN [i \in 1..Len(paths) |-> <<paths[i], directory[paths[i]]>>]

Stream(directory) == Fed(Files(directory))

\* The members of a JSON file say what it is, whatever their order and what follows them.
SaysSame(path, one, other) ==
    IF IsJsonFile(path) THEN ToSet(one.members) = ToSet(other.members) ELSE one.rest = other.rest

\* Two directories have the same digest exactly if their files say the same, however files
\* could be moved or split (schemaDigest).
Tells(one, other) ==
    Stream(one) = Stream(other) <=>
        /\ DOMAIN one = DOMAIN other
        /\ \A path \in DOMAIN one : SaysSame(path, one[path], other[path])
=============================================================================
