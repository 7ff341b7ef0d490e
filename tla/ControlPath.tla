---------------------------- MODULE ControlPath ----------------------------
(***************************************************************************)
(* Whether a path lies inside a directory, as the driver asks of the       *)
(* control socket and its Codex home (internal/config,                     *)
(* control_endpoint.go), and the readiness gate of what a daemon names     *)
(* (internal/status/daemon.go, inside).                                    *)
(*                                                                         *)
(* A path is absolute and stands as the sequence of its segments.          *)
(***************************************************************************)
EXTENDS Integers, Sequences, FiniteSets, SequencesExt

\* The segments that lead nowhere, and those that are names.
Nowhere == {"", "."}
IsName(segment) == segment \notin Nowhere \cup {".."}

\* filepath.Clean, segment by segment: "." goes away, ".." takes the segment before it
\* along; there is nothing above the root.
Follow(cleaned, segment) ==
    CASE segment \in Nowhere -> cleaned
      [] segment = ".." -> IF cleaned = <<>> THEN <<>> ELSE Front(cleaned)
      [] OTHER -> Append(cleaned, segment)

\* What is left of the first segments of a path, for every number of them.
Followed(path) ==
    LET cleaned[n \in 0..Len(path)] ==
            IF n = 0 THEN <<>> ELSE Follow(cleaned[n - 1], path[n])
    IN cleaned

Clean(path) == Followed(path)[Len(path)]

\* filepath.Rel of two clean paths: up from root to where they part, and down again.
Rel(root, path) ==
    LET shared == Len(LongestCommonPrefix({root, path}))
    IN [i \in 1..(Len(root) - shared) |-> ".."] \o SubSeq(path, shared + 1, Len(path))

\* Seeded fault: the paths are compared as they were written.
PathInsideUnclean(root, path) == IsPrefix(root, path)

\* pathInside: the relative path does not begin by going up.
PathInside(root, path) ==
    LET relative == Rel(Clean(root), Clean(path))
    IN relative = <<>> \/ Head(relative) # ".."

\* The gate's inside does not take the directory itself.
Inside(path, root) ==
    LET relative == Rel(Clean(root), Clean(path))
    IN relative # <<>> /\ Head(relative) # ".."

\* Where a path leads: the names on it that no later ".." takes back, of those after which
\* the names always outnumber the "..".
NamesOn(path, i, j) == {k \in i..j : IsName(path[k])}
UpsOn(path, i, j) == {k \in i..j : path[k] = ".."}
Kept(path, m) ==
    {i \in 1..m :
        \A j \in i..m : Cardinality(NamesOn(path, i, j)) > Cardinality(UpsOn(path, i, j))}

Reached(path) ==
    LET kept == Kept(path, Len(path))
        nth(n) == CHOOSE i \in kept : Cardinality({k \in kept : k <= i}) = n
    IN [n \in 1..Cardinality(kept) |-> path[nth(n)]]

\* A path is inside a directory when following it ends below the directory or, for the
\* control socket, at it: no detour and no name that only looks like going up matters.
Contained(root, path) ==
    /\ PathInside(root, path) <=> IsPrefix(Reached(root), Reached(path))
    /\ Inside(path, root) <=> IsStrictPrefix(Reached(root), Reached(path))
=============================================================================
