---------------------------- MODULE MCScanIndex ----------------------------
(* ScanIndex on two files, the first of which imports the second.          *)
EXTENDS ScanIndex, TLC

CONSTANTS p1, p2, e1, e2

OneImport == {<<p1, p2>>}
\* The importer is rewritten and what it imports is removed.
OnePatch == {[rewrites |-> {p1}, removes |-> {p2}]}
Symmetry == Permutations(Edits)
=============================================================================
