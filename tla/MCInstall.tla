----------------------------- MODULE MCInstall -----------------------------
(* Finite instances of Install for TLC: two configurations this driver     *)
(* accepts and one it does not, and every kind of record an earlier driver *)
(* may have left: none, torn, versionless, current, newer, outdated.       *)
EXTENDS Install, TLC

CONSTANTS c1, c2, old

MCConfigs == {c1, c2, old}
MCOutdated == {old}
MCInitialRecords ==
    {Absent, Torn, Written(c1, 0), Written(c1, 3), Written(c1, 4), Written(old, 1)}

\* A home nobody installed in yet.
MCNoRecord == {Absent}

\* Commands differ only in what they are asked to do.
MCSymmetry == Permutations(Processes)
=============================================================================
